--------------------------- MODULE CommandsProofs ---------------------------
(***************************************************************************)
(* Proofs about Commands, for any calls, widths and size of a block: who   *)
(* owns which memory, and what libcouchbase finds in it.                   *)
(***************************************************************************)
EXTENDS Commands, BufferProofs

-----------------------------------------------------------------------------
(* The strings of a Command. *)

\* The fields of a Command and of its CommandList.
IsList(l) ==
  l = [ncmds |-> l.ncmds, points |-> l.points, single |-> l.single, array |-> l.array]

IsCommand(c) ==
  /\ c = [at |-> c.at, number |-> c.number, call |-> c.call, next |-> c.next,
          global |-> c.global, hashkey |-> c.hashkey, list |-> c.list, bufs |-> c.bufs,
          keyOptions |-> c.keyOptions, err |-> c.err, cookie |-> c.cookie]
  /\ IsList(c.list)

Strings == BufPointers \cup {NULL, StaticEmpty}
With(given, p) == given \cup ({p} \ {NULL, StaticEmpty})

\* A value whose text has a length, and is the empty one if that is 0.
HasText(v) == AsText(v).n \in Nat /\ (AsText(v).n = 0 => AsText(v) = EmptyText)

\* The options that a Command keeps for its cookie are what its keys ask for.
Chosen(call, options) ==
  \A k \in DOMAIN options : \E i \in 1..Len(call.keys) :
    /\ AsText(call.keys[i]) = k
    /\ options[k] = FormatOf(call, i) /\ options[k] # AUTO

\* The one of key i is among them, if it asks for one.
NotesFormat(call, i, options) ==
  call.kind \in {"get", "lock"} /\ FormatOf(call, i) # AUTO =>
    AsText(call.keys[i]) \in DOMAIN options

KeepsChosen(c, d) ==
  /\ Chosen(c.call, c.keyOptions) => Chosen(d.call, d.keyOptions)
  /\ DOMAIN c.keyOptions \subseteq DOMAIN d.keyOptions

\* A Command has got strings: these, its error and the options it keeps of its
\* keys are all that has changed.
Wrote(c, h, given, c2, h2, given2) ==
  /\ IsCommand(c2) /\ KeepsChosen(c, c2)
  /\ c2 = [c EXCEPT !.bufs = c2.bufs, !.err = c2.err, !.keyOptions = c2.keyOptions]
  /\ given \subseteq given2
  /\ Room(c2.bufs, h2, given2) /\ Kept(c.bufs, h, given, c2.bufs, h2)

\* A Command to which strings are being given.
Ready(c, h, given) == IsCommand(c) /\ Room(c.bufs, h, given)

\* A text was written: where r.ptr says.
Backed(c, h, given, text, r) ==
  /\ Wrote(c, h, given, r.cmd, r.heap, With(given, r.ptr))
  /\ r.ptr \in Strings
  /\ r.ok => r.cmd.err = c.err /\ Read(r.heap, r.ptr) = text

\* What has been given may be read with a pointer that is shorter.
LEMMA ShorterPointer ==
  ASSUME NEW b, NEW h, NEW given, NEW p \in BufPointers \ given, NEW q \in BufPointers,
         Room(b, h, given \cup {p}), q.block = p.block, q.from = p.from, q.len <= p.len
  PROVE  Room(b, h, given \cup {q})
<1>1. /\ p.from \in Nat /\ p.len \in Nat /\ q.len \in Nat
      /\ \A x \in given : x.from \in Nat /\ x.len \in Nat
  BY DEF Room, BufPointers
<1>2. \A x \in given : Apart(p, x) /\ Apart(x, p)
  BY DEF Room, ListSound
<1>3. \A x \in given : Apart(q, x) /\ Apart(x, q)
  BY <1>1, <1>2 DEF Apart
<1>4. \A x, y \in given \cup {q} : x # y => Apart(x, y)
  BY <1>3 DEF Room, ListSound
<1>5. ASSUME NEW x \in given \cup {q}
      PROVE  /\ x.block \in b.blocks
             /\ x.from + x.len <= SizeOf(h)[x.block]
             /\ x.block = b.cur => x.from + x.len <= b.used
  <2>1. CASE x \in given
    BY <2>1 DEF Room, ListSound
  <2>2. CASE x = q
    <3>1. /\ p.block \in b.blocks /\ p.from + p.len <= SizeOf(h)[p.block]
          /\ p.block = b.cur => p.from + p.len <= b.used
      BY DEF Room, ListSound
    <3>2. b.used \in Nat /\ SizeOf(h)[p.block] \in Nat
      <4>1. HeapOK(h) /\ b \in Lists /\ p.block \in DOMAIN SizeOf(h)
        BY <3>1 DEF Room, ListSound
      <4> QED
        BY <4>1, HeapIs DEF Lists, SizeOf
    <3> QED
      BY <1>1, <2>2, <3>1, <3>2
  <2> QED
    BY <2>1, <2>2
<1> QED
  BY <1>4, <1>5 DEF Room, ListSound

\* What no string is in reads as the empty text.
LEMMA ReadNothing ==
  ASSUME NEW h, NEW p \in {NULL, StaticEmpty}
  PROVE  Read(h, p) = EmptyText
BY DEF Read, NULL, StaticEmpty, Pointer

\* A string reads as it did when it was given.
LEMMA KeptReads ==
  ASSUME NEW b, NEW h, NEW given, NEW b2, NEW h2, Kept(b, h, given, b2, h2),
         NEW p \in given \cup {NULL, StaticEmpty}
  PROVE  Read(h2, p) = Read(h, p)
BY ReadNothing DEF Kept

\* A Command keeps what it does not touch, also in two steps.
LEMMA KeepsSame ==
  ASSUME NEW c, NEW d, d.call = c.call, d.keyOptions = c.keyOptions
  PROVE  KeepsChosen(c, d)
BY DEF KeepsChosen

LEMMA KeepsTwice ==
  ASSUME NEW c, NEW d, NEW e, KeepsChosen(c, d), KeepsChosen(d, e)
  PROVE  KeepsChosen(c, e)
BY DEF KeepsChosen

\* A Command of which one part was changed.
LEMMA ErrIs ==
  ASSUME NEW c, IsCommand(c), NEW e, NEW d, d = [c EXCEPT !.err = e]
  PROVE  /\ IsCommand(d) /\ d.err = e /\ d.bufs = c.bufs /\ d.list = c.list
         /\ d.call = c.call /\ d.keyOptions = c.keyOptions
BY DEF IsCommand, IsList

LEMMA BufsIs ==
  ASSUME NEW c, IsCommand(c), NEW b, NEW d, d = [c EXCEPT !.bufs = b]
  PROVE  /\ IsCommand(d) /\ d.err = c.err /\ d.bufs = b /\ d.list = c.list
         /\ d.call = c.call /\ d.keyOptions = c.keyOptions
BY DEF IsCommand, IsList

\* Nothing was written yet.
LEMMA WroteNothing ==
  ASSUME NEW c, NEW h, NEW given, IsCommand(c), Room(c.bufs, h, given)
  PROVE  Wrote(c, h, given, c, h, given) /\ Wrote(c, h, given, [c EXCEPT !.err = TRUE], h, given)
<1>1. c = [c EXCEPT !.bufs = c.bufs, !.err = c.err, !.keyOptions = c.keyOptions]
  BY DEF IsCommand
<1> DEFINE d == [c EXCEPT !.err = TRUE]
<1>2. IsCommand(d) /\ d.bufs = c.bufs /\ d.err = TRUE /\ KeepsChosen(c, d)
  <2>1. /\ IsCommand(d) /\ d.err = TRUE /\ d.bufs = c.bufs /\ d.list = c.list
        /\ d.call = c.call /\ d.keyOptions = c.keyOptions
    BY ErrIs
  <2> HIDE DEF d
  <2> QED
    BY <2>1, KeepsSame
<1>4. KeepsChosen(c, c)
  BY KeepsSame
<1>3. d = [c EXCEPT !.bufs = d.bufs, !.err = d.err, !.keyOptions = d.keyOptions]
  BY <1>2 DEF IsCommand
<1> HIDE DEF d
<1> QED
  BY <1>1, <1>2, <1>3, <1>4, KeptSelf DEF Wrote, d

\* Two texts after each other.
LEMMA WroteTwice ==
  ASSUME NEW c, NEW h, NEW given, NEW c2, NEW h2, NEW given2, NEW c3, NEW h3, NEW given3,
         IsCommand(c), Room(c.bufs, h, given),
         Wrote(c, h, given, c2, h2, given2), Wrote(c2, h2, given2, c3, h3, given3)
  PROVE  Wrote(c, h, given, c3, h3, given3)
<1>1. c.bufs.blocks \subseteq DOMAIN h.mem
  BY RoomIs
<1>2. Kept(c.bufs, h, given, c3.bufs, h3)
  BY <1>1, KeptTwice DEF Wrote
<1>3. c3 = [c EXCEPT !.bufs = c3.bufs, !.err = c3.err, !.keyOptions = c3.keyOptions]
  <2>1. /\ c2 = [c EXCEPT !.bufs = c2.bufs, !.err = c2.err, !.keyOptions = c2.keyOptions]
        /\ c3 = [c2 EXCEPT !.bufs = c3.bufs, !.err = c3.err, !.keyOptions = c3.keyOptions]
    BY DEF Wrote
  <2> QED
    BY <2>1 DEF IsCommand
<1>4. KeepsChosen(c, c3)
  <2>1. KeepsChosen(c, c2) /\ KeepsChosen(c2, c3)
    BY DEF Wrote
  <2> QED
    BY <2>1, KeepsTwice
<1> QED
  BY <1>2, <1>3, <1>4 DEF Wrote

\* getBufBackedString: the text is where the pointer it returns says.
LEMMA BackedStringIs ==
  ASSUME NEW c, NEW h, NEW given, Ready(c, h, given),
         NEW v, HasText(v), NEW nul \in {0, 1},
         NEW r, r = BackedString(c, h, v, nul)
  PROVE  Backed(c, h, given, AsText(v), r)
<1> DEFINE text == AsText(v)
<1>0. IsCommand(c) /\ Room(c.bufs, h, given)
  BY DEF Ready
<1>1. text.n \in Nat /\ (text.n = 0 => text = EmptyText)
  BY DEF HasText
<1>2. CASE text.n > 0
  <2> DEFINE len == text.n + nul
             put == PutText(h, c.bufs, len, text)
             ptr == [put.ptr EXCEPT !.len = text.n]
             d == [c EXCEPT !.bufs = put.list]
  <2> HIDE DEF text
  <2>1. len \in Nat \ {0} /\ text.n <= len /\ text.n \in Nat \ {0}
    BY <1>1, <1>2
  <2>2. /\ Room(put.list, put.heap, given \cup {put.ptr})
        /\ Kept(c.bufs, h, given, put.list, put.heap)
        /\ put.ptr \in BufPointers \ given /\ put.ptr.len = len
        /\ \A q \in BufPointers :
             /\ q.block = put.ptr.block /\ q.from = put.ptr.from
             /\ q.len <= len /\ text.n = q.len
             => Read(put.heap, q) = text
    <3> HIDE DEF put
    <3>1. PICK b : b = c.bufs
      OBVIOUS
    <3>2. put = PutText(h, b, len, text) /\ Room(b, h, given)
      BY <1>0, <3>1 DEF put
    <3> HIDE DEF len
    <3>3. TextPut(b, h, given, len, text, put)
      BY <2>1, <3>2, PutTextIs
    <3> QED
      BY <3>1, <3>3 DEF TextPut
  <2>3. r = Result(TRUE, d, put.heap, ptr)
    BY <1>2 DEF BackedString, text
  <2> HIDE DEF put, len
  <2>4. /\ ptr \in BufPointers /\ ptr.block = put.ptr.block /\ ptr.from = put.ptr.from
        /\ ptr.len = text.n
    BY <2>1, <2>2 DEF BufPointers
  <2> HIDE DEF ptr
  <2>5. Read(put.heap, ptr) = text
    BY <2>1, <2>2, <2>4
  <2>6. Room(put.list, put.heap, given \cup {ptr})
    BY <2>1, <2>2, <2>4, ShorterPointer
  <2>7. IsCommand(d) /\ d.bufs = put.list /\ d.err = c.err /\ KeepsChosen(c, d)
    <3>1. /\ IsCommand(d) /\ d.bufs = put.list /\ d.err = c.err
          /\ d.call = c.call /\ d.keyOptions = c.keyOptions
      BY <1>0 DEF IsCommand, IsList
    <3> HIDE DEF d
    <3> QED
      BY <3>1, KeepsSame
  <2>8. d = [c EXCEPT !.bufs = d.bufs, !.err = d.err, !.keyOptions = d.keyOptions]
    BY <1>0, <2>7 DEF IsCommand
  <2> HIDE DEF d
  <2>9. With(given, ptr) = given \cup {ptr}
    BY <2>4 DEF With, BufPointers, NULL, StaticEmpty, Pointer, NoBlock
  <2>10. Wrote(c, h, given, d, put.heap, given \cup {ptr})
    BY <2>2, <2>6, <2>7, <2>8 DEF Wrote
  <2>11. r.ok /\ r.cmd = d /\ r.heap = put.heap /\ r.ptr = ptr
    BY <2>3 DEF Result
  <2> QED
    BY <1>2, <2>4, <2>5, <2>7, <2>9, <2>10, <2>11 DEF text, Strings, Backed
<1>3. CASE text.n = 0 /\ HasDefaultString(c)
  <2>1. r = Result(TRUE, c, h, StaticEmpty)
    BY <1>3 DEF BackedString
  <2>2. With(given, StaticEmpty) = given
    BY DEF With
  <2>3. r.ok /\ r.cmd = c /\ r.heap = h /\ r.ptr = StaticEmpty
    BY <2>1 DEF Result
  <2>4. Read(h, StaticEmpty) = EmptyText
    BY ReadNothing
  <2>5. Wrote(c, h, given, c, h, given)
    BY <1>0, WroteNothing
  <2> QED
    BY <1>1, <1>3, <2>2, <2>3, <2>4, <2>5 DEF Strings, Backed
<1>4. CASE text.n = 0 /\ ~HasDefaultString(c)
  <2>1. r = Result(FALSE, [c EXCEPT !.err = TRUE], h, NULL)
    BY <1>4 DEF BackedString, Fails
  <2>2. With(given, NULL) = given
    BY DEF With
  <2>3. ~r.ok /\ r.cmd = [c EXCEPT !.err = TRUE] /\ r.heap = h /\ r.ptr = NULL
    BY <2>1 DEF Result
  <2>4. Wrote(c, h, given, [c EXCEPT !.err = TRUE], h, given)
    BY <1>0, WroteNothing
  <2> QED
    BY <2>2, <2>3, <2>4 DEF Strings, Backed
<1> QED
  BY <1>1, <1>2, <1>3, <1>4

\* An error is the outcome if there is no text, but for those two.
LEMMA BackedNeeds ==
  ASSUME NEW c, NEW h, NEW v, NEW nul, NEW r, r = BackedString(c, h, v, nul), r.ok
  PROVE  AsText(v).n > 0 \/ HasDefaultString(c)
BY DEF BackedString, Fails, Result

\* The same for a string that need not be there.
LEMMA OptionalStringIs ==
  ASSUME NEW c, NEW h, NEW given, Ready(c, h, given),
         NEW slot, NEW v, v = slot.v, IsFound(slot) => HasText(v), NEW nul \in {0, 1},
         NEW r, r = OptionalString(c, h, slot, nul)
  PROVE  Backed(c, h, given, IF IsFound(slot) /\ ~IsFalsy(v) THEN AsText(v) ELSE EmptyText, r)
<1>1. CASE IsFound(slot) /\ ~IsFalsy(v)
  <2>1. r = BackedString(c, h, v, nul)
    BY <1>1 DEF OptionalString
  <2>2. Backed(c, h, given, AsText(v), r)
    BY <1>1, <2>1, BackedStringIs
  <2> QED
    BY <1>1, <2>2
<1>2. CASE ~(IsFound(slot) /\ ~IsFalsy(v))
  <2>1. r = Result(TRUE, c, h, NULL)
    BY <1>2 DEF OptionalString
  <2>2. With(given, NULL) = given
    BY DEF With
  <2>3. r.ok /\ r.cmd = c /\ r.heap = h /\ r.ptr = NULL
    BY <2>1 DEF Result
  <2>4. Wrote(c, h, given, c, h, given) /\ Read(h, NULL) = EmptyText
    BY WroteNothing, ReadNothing DEF Ready
  <2>5. Backed(c, h, given, EmptyText, r)
    BY <2>2, <2>3, <2>4 DEF Strings, Backed
  <2> QED
    BY <1>2, <2>5
<1> QED
  BY <1>1, <1>2

-----------------------------------------------------------------------------
(* The libcouchbase commands of a Command. *)

IsLcb(l) ==
  l = [key |-> l.key, hashkey |-> l.hashkey, exptime |-> l.exptime, lock |-> l.lock,
       flags |-> l.flags, bytes |-> l.bytes, cas |-> l.cas, delta |-> l.delta,
       initial |-> l.initial, create |-> l.create, method |-> l.method, path |-> l.path,
       content_type |-> l.content_type, body |-> l.body]

StringsOf(l) == {l.key, l.hashkey, l.bytes, l.path, l.body, l.content_type}

\* A libcouchbase command with strings that were given to it.
IsEntry(l, given) == IsLcb(l) /\ StringsOf(l) \subseteq given \cup {NULL, StaticEmpty}

\* A list of one is in the Command, and a longer one in a block of its own.
HasList(c, h) ==
  /\ c.at \in {"stack", "copy"} /\ c.list.ncmds \in Nat \ {0}
  /\ c.list.ncmds = 1 => c.list.points = c.at
  /\ c.list.ncmds # 1 => /\ c.list.points = "array"
                         /\ c.list.array \in DOMAIN h.mem \ c.bufs.blocks
                         /\ Len(h.mem[c.list.array]) = c.list.ncmds

\* A Command whose strings have been given to it.
Good(c, h, given) ==
  /\ Ready(c, h, given) /\ HasList(c, h)
  /\ \A i \in 1..c.list.ncmds : IsEntry(GetList(c, h)[i], given)

\* What libcouchbase is given is the list.
LEMMA ListIs ==
  ASSUME NEW c, NEW h, HasList(c, h), HeapOK(h)
  PROVE  /\ GetList(c, h) = IF c.list.ncmds = 1 THEN <<c.list.single>> ELSE h.mem[c.list.array]
         /\ DOMAIN GetList(c, h) = 1..c.list.ncmds
         /\ Owned(c) = IF c.list.ncmds = 1 THEN c.bufs.blocks
                                           ELSE c.bufs.blocks \cup {c.list.array}
<1>1. CASE c.list.ncmds = 1
  BY <1>1 DEF HasList, GetList, Owned
<1>2. CASE c.list.ncmds # 1
  <2>1. GetList(c, h) = h.mem[c.list.array]
    BY <1>2 DEF HasList, GetList
  <2>2. DOMAIN h.mem[c.list.array] = 1..c.list.ncmds
    <3>1. PICK Cells : h \in Heaps(Cells)
      BY DEF HeapOK
    <3>2. h.mem[c.list.array] \in Seq(Cells)
      BY <1>2, <3>1 DEF HasList, Heaps
    <3> QED
      BY <1>2, <3>2 DEF HasList
  <2>3. c.list.ncmds >= 2
    BY <1>2 DEF HasList
  <2> QED
    BY <1>2, <2>1, <2>2, <2>3 DEF Owned
<1> QED
  BY <1>1, <1>2

\* One command of the list was written.
IsPut(c, h, given, ix, l, r) ==
  /\ r.ok /\ Ready(r.cmd, r.heap, given) /\ HasList(r.cmd, r.heap)
  /\ r.cmd = [c EXCEPT !.list = r.cmd.list]
  /\ r.cmd.list = [c.list EXCEPT !.single = r.cmd.list.single]
  /\ DOMAIN r.heap.mem = DOMAIN h.mem /\ Owned(r.cmd) = Owned(c)
  /\ \A x \in DOMAIN h.mem \ Owned(c) : r.heap.mem[x] = h.mem[x]
  /\ \A q \in given : Read(r.heap, q) = Read(h, q)
  /\ GetList(r.cmd, r.heap)[ix] = l
  /\ \A i \in 1..c.list.ncmds : i # ix => GetList(r.cmd, r.heap)[i] = GetList(c, h)[i]

\* The same of Put.
LEMMA PutIs ==
  ASSUME NEW c, NEW h, NEW given, Ready(c, h, given), HasList(c, h),
         NEW ix \in 1..c.list.ncmds, NEW l, NEW r, r = Put(c, h, ix, l)
  PROVE  IsPut(c, h, given, ix, l, r)
<1>0. HeapOK(h) /\ IsCommand(c) /\ Room(c.bufs, h, given)
  BY DEF Room, Ready
<1>1. CASE c.list.ncmds = 1
  <2> DEFINE d == [c EXCEPT !.list.single = l]
  <2>1. r.ok /\ r.cmd = d /\ r.heap = h
    BY <1>1 DEF Put, SetAt, Result
  <2>2. /\ IsCommand(d) /\ d = [c EXCEPT !.list = d.list]
        /\ d.list = [c.list EXCEPT !.single = d.list.single]
        /\ d.list.single = l /\ d.bufs = c.bufs /\ d.list.ncmds = 1 /\ d.at = c.at
        /\ d.list.points = c.list.points
    BY <1>0, <1>1 DEF IsCommand, IsList
  <2> HIDE DEF d
  <2>3. HasList(d, h)
    BY <1>1, <2>2 DEF HasList
  <2>4. GetList(d, h) = <<l>> /\ GetList(c, h) = <<c.list.single>> /\ Owned(d) = Owned(c) /\ ix = 1
    BY <1>0, <1>1, <2>2, <2>3, ListIs
  <2> QED
    BY <1>0, <1>1, <2>1, <2>2, <2>3, <2>4 DEF IsPut, Ready
<1>2. CASE c.list.ncmds # 1
  <2> DEFINE a == c.list.array
             old == h.mem[a]
             new == [old EXCEPT ![ix] = l]
             g == [h EXCEPT !.mem[a][ix] = l]
  <2>1. r.ok /\ r.cmd = c /\ r.heap = g
    BY <1>2 DEF Put, SetAt, Result
  <2>2. PICK Cells : h \in Heaps(Cells)
    BY <1>0 DEF HeapOK
  <2>3. PICK T \in SUBSET (Nat \ {NoBlock}) : h.mem \in [T -> Seq(Cells)]
    BY <2>2 DEF Heaps
  <2>4. /\ h.last \in Nat /\ DOMAIN h.mem \subseteq 1..h.last
        /\ h = [mem |-> h.mem, last |-> h.last]
    BY <1>0, HeapIs DEF HeapOK
  <2>5. /\ a \in T /\ a \notin c.bufs.blocks /\ old \in Seq(Cells) /\ DOMAIN old = 1..c.list.ncmds
        /\ Len(old) = c.list.ncmds
    <3>1. a \in DOMAIN h.mem /\ a \notin c.bufs.blocks /\ Len(old) = c.list.ncmds
      BY <1>2 DEF HasList
    <3>2. a \in T /\ old \in Seq(Cells)
      BY <2>3, <3>1
    <3>3. DOMAIN old = 1..Len(old)
      BY <3>2
    <3> QED
      BY <3>1, <3>2, <3>3
  <2>6. /\ new \in Seq(Cells \cup {l}) /\ Len(new) = Len(old) /\ new[ix] = l
        /\ \A i \in 1..c.list.ncmds : i # ix => new[i] = old[i]
    <3>1. DOMAIN new = 1..Len(old) /\ Len(old) \in Nat
      BY <2>5
    <3>2. \A i \in 1..Len(old) : new[i] = IF i = ix THEN l ELSE old[i]
      BY <2>5
    <3>3. \A i \in 1..Len(old) : old[i] \in Cells
      BY <2>5
    <3> HIDE DEF new, old
    <3>4. \A i \in 1..Len(old) : new[i] \in Cells \cup {l}
      BY <3>2, <3>3
    <3>5. new = [i \in 1..Len(old) |-> new[i]]
      BY <3>1 DEF new
    <3>6. new \in Seq(Cells \cup {l}) /\ Len(new) = Len(old)
      BY <3>1, <3>4, <3>5
    <3> QED
      BY <2>5, <3>2, <3>6
  <2> DEFINE mem == [h.mem EXCEPT ![a] = new]
  <2>7. g = [mem |-> mem, last |-> h.last]
    BY <2>4
  <2>8. \A s \in Seq(Cells) : s \in Seq(Cells \cup {l})
    OBVIOUS
  <2> HIDE DEF g, new, old
  <2>9. mem \in [T -> Seq(Cells \cup {l})]
    BY <2>3, <2>6, <2>8
  <2>10. /\ DOMAIN mem = DOMAIN h.mem /\ mem[a] = new
         /\ \A x \in DOMAIN h.mem : x # a => mem[x] = h.mem[x]
    BY <2>3, <2>5
  <2> HIDE DEF mem
  <2>11. T \in SUBSET Nat /\ T \subseteq 1..h.last
    BY <2>3, <2>4
  <2>12. HeapOK(g)
    BY <2>4, <2>7, <2>9, <2>11, MakeHeap
  <2>13. SizeOf(g) = SizeOf(h)
    BY <2>5, <2>6, <2>7, <2>10 DEF SizeOf, old
  <2>14. Room(c.bufs, g, given)
    BY <1>0, <2>12, <2>13 DEF Room
  <2>15. ASSUME NEW q \in given
         PROVE  Read(g, q) = Read(h, q)
    <3>1. q \in BufPointers /\ q.block \in c.bufs.blocks /\ q.block \in DOMAIN h.mem
      BY <1>0, RoomIs
    <3> QED
      BY <2>5, <2>7, <2>10, <3>1, ReadSame
  <2>16. HasList(c, g)
    BY <1>2, <2>5, <2>6, <2>7, <2>10 DEF HasList
  <2>17. GetList(c, g) = new /\ GetList(c, h) = old /\ a \in Owned(c)
    BY <1>0, <1>2, <2>7, <2>10, <2>12, <2>16, ListIs DEF old
  <2>18. c = [c EXCEPT !.list = c.list] /\ c.list = [c.list EXCEPT !.single = c.list.single]
    BY <1>0 DEF IsCommand, IsList
  <2> QED
    BY <1>0, <2>1, <2>6, <2>7, <2>10, <2>14, <2>15, <2>16, <2>17, <2>18 DEF IsPut, Ready
<1> QED
  BY <1>1, <1>2

-----------------------------------------------------------------------------
(* What a step on a Command leaves alone. *)

\* A Command has got blocks, none was taken from it, and others' are unchanged.
Grew(c, h, c2, h2) ==
  /\ HeapOK(h2) /\ DOMAIN h.mem \subseteq DOMAIN h2.mem
  /\ Owned(c) \subseteq Owned(c2) /\ Owned(c2) \ Owned(c) = DOMAIN h2.mem \ DOMAIN h.mem
  /\ \A x \in DOMAIN h.mem \ Owned(c) : h2.mem[x] = h.mem[x]

\* What of a Command stays as it is while its keys are processed.
SameCall(c, c2) ==
  /\ IsCommand(c2) /\ c2.at = c.at /\ c2.number = c.number /\ c2.call = c.call
  /\ c2.next = c.next /\ c2.global = c.global /\ c2.hashkey = c.hashkey
  /\ c2.cookie = c.cookie /\ c2.list.ncmds = c.list.ncmds /\ KeepsChosen(c, c2)

\* Strings do not disturb the list.
LEMMA WroteGrew ==
  ASSUME NEW c, NEW h, NEW given, NEW c2, NEW h2, NEW given2,
         Ready(c, h, given), HasList(c, h), Wrote(c, h, given, c2, h2, given2)
  PROVE  /\ Ready(c2, h2, given2) /\ HasList(c2, h2) /\ Grew(c, h, c2, h2) /\ SameCall(c, c2)
         /\ GetList(c2, h2) = GetList(c, h)
<1>1. /\ HeapOK(h) /\ HeapOK(h2) /\ c.bufs.blocks \subseteq DOMAIN h.mem
      /\ c2.bufs.blocks \subseteq DOMAIN h2.mem /\ Ready(c2, h2, given2)
  BY RoomIs DEF Ready, Wrote
<1>2. SameCall(c, c2) /\ c2.list = c.list
  <2>1. /\ c2 = [c EXCEPT !.bufs = c2.bufs, !.err = c2.err, !.keyOptions = c2.keyOptions]
        /\ IsCommand(c2) /\ IsCommand(c) /\ KeepsChosen(c, c2)
    BY DEF Wrote, Ready
  <2> QED
    BY <2>1 DEF SameCall, IsCommand
<1>3. Kept(c.bufs, h, given, c2.bufs, h2)
  BY DEF Wrote
<1>4. ASSUME c.list.ncmds # 1
      PROVE  /\ c.list.array \in DOMAIN h.mem \ c.bufs.blocks
             /\ c.list.array \in DOMAIN h2.mem \ c2.bufs.blocks
             /\ h2.mem[c.list.array] = h.mem[c.list.array]
  <2>1. c.list.array \in DOMAIN h.mem \ c.bufs.blocks
    BY <1>4 DEF HasList
  <2> QED
    BY <1>1, <1>3, <2>1 DEF Kept
<1>5. HasList(c2, h2)
  BY <1>2, <1>4 DEF HasList, SameCall
<1>6. GetList(c2, h2) = GetList(c, h)
  BY <1>1, <1>2, <1>4, <1>5, ListIs
<1>7. Grew(c, h, c2, h2)
  <2>1. Owned(c) = IF c.list.ncmds = 1 THEN c.bufs.blocks ELSE c.bufs.blocks \cup {c.list.array}
    BY <1>1, ListIs
  <2>2. Owned(c2) = IF c.list.ncmds = 1 THEN c2.bufs.blocks ELSE c2.bufs.blocks \cup {c.list.array}
    BY <1>1, <1>2, <1>5, ListIs
  <2> QED
    BY <1>1, <1>3, <1>4, <2>1, <2>2 DEF Grew, Kept
<1> QED
  BY <1>1, <1>2, <1>5, <1>6, <1>7

\* The key at place ix has got its libcouchbase command.
Handled(c, h, given, ix, l, r, given2) ==
  /\ r.ok /\ given \subseteq given2 /\ SameCall(c, r.cmd)
  /\ Good(r.cmd, r.heap, given2) /\ Grew(c, h, r.cmd, r.heap)
  /\ GetList(r.cmd, r.heap)[ix] = l
  /\ \A i \in 1..c.list.ncmds : i # ix => GetList(r.cmd, r.heap)[i] = GetList(c, h)[i]
  /\ \A q \in given : Read(r.heap, q) = Read(h, q)

\* Its strings are written, and then the command.
LEMMA WrotePut ==
  ASSUME NEW c, NEW h, NEW given, NEW c2, NEW h2, NEW given2, Good(c, h, given),
         Wrote(c, h, given, c2, h2, given2), NEW ix \in 1..c.list.ncmds,
         NEW l, IsEntry(l, given2), NEW r, r = Put(c2, h2, ix, l)
  PROVE  /\ Handled(c, h, given, ix, l, r, given2)
         /\ r.cmd.err = c2.err /\ r.cmd.keyOptions = c2.keyOptions
         /\ \A q \in given2 \cup {NULL, StaticEmpty} : Read(r.heap, q) = Read(h2, q)
<1>1. Ready(c, h, given) /\ HasList(c, h)
  BY DEF Good
<1>2. /\ Ready(c2, h2, given2) /\ HasList(c2, h2) /\ Grew(c, h, c2, h2) /\ SameCall(c, c2)
      /\ GetList(c2, h2) = GetList(c, h)
  BY <1>1, WroteGrew
<1>3. ix \in 1..c2.list.ncmds
  BY <1>2 DEF SameCall
<1>4. IsPut(c2, h2, given2, ix, l, r)
  BY <1>2, <1>3, PutIs
<1>5. SameCall(c, r.cmd) /\ r.cmd.err = c2.err /\ r.cmd.keyOptions = c2.keyOptions
  <2>1. /\ IsCommand(r.cmd) /\ IsCommand(c2)
        /\ r.cmd = [c2 EXCEPT !.list = r.cmd.list]
        /\ r.cmd.list = [c2.list EXCEPT !.single = r.cmd.list.single]
    BY <1>2, <1>4 DEF IsPut, Ready
  <2>2. r.cmd.list.ncmds = c2.list.ncmds
    BY <2>1 DEF IsCommand, IsList
  <2>3. KeepsChosen(c, r.cmd)
    <3>1. r.cmd.call = c2.call /\ r.cmd.keyOptions = c2.keyOptions
      BY <2>1 DEF IsCommand
    <3> QED
      BY <1>2, <3>1, KeepsSame, KeepsTwice DEF SameCall
  <2> QED
    BY <1>2, <2>1, <2>2, <2>3 DEF SameCall, IsCommand
<1>6. \A i \in 1..c.list.ncmds : i # ix => GetList(r.cmd, r.heap)[i] = GetList(c, h)[i]
  BY <1>2, <1>4 DEF IsPut, SameCall
<1>7. given \subseteq given2
  BY DEF Wrote
<1>8. Good(r.cmd, r.heap, given2)
  <2>1. ASSUME NEW i \in 1..c.list.ncmds
        PROVE  IsEntry(GetList(r.cmd, r.heap)[i], given2)
    <3>1. CASE i = ix
      BY <1>4, <3>1 DEF IsPut
    <3>2. CASE i # ix
      <4>1. IsEntry(GetList(c, h)[i], given)
        BY DEF Good
      <4>2. IsEntry(GetList(c, h)[i], given2)
        BY <1>7, <4>1 DEF IsEntry
      <4> QED
        BY <1>6, <3>2, <4>2
    <3> QED
      BY <3>1, <3>2
  <2>2. r.cmd.list.ncmds = c.list.ncmds
    BY <1>5 DEF SameCall
  <2> QED
    BY <1>4, <2>1, <2>2 DEF Good, IsPut
<1>9. Grew(c, h, r.cmd, r.heap)
  <2>1. /\ HeapOK(r.heap) /\ DOMAIN r.heap.mem = DOMAIN h2.mem /\ Owned(r.cmd) = Owned(c2)
        /\ \A x \in DOMAIN h2.mem \ Owned(c2) : r.heap.mem[x] = h2.mem[x]
    BY <1>4 DEF IsPut, Ready, Room
  <2>2. \A x \in DOMAIN h.mem \ Owned(c) : x \in DOMAIN h2.mem \ Owned(c2)
    BY <1>2 DEF Grew
  <2> QED
    BY <1>2, <2>1, <2>2 DEF Grew
<1>10. \A q \in given2 : Read(r.heap, q) = Read(h2, q)
  BY <1>4 DEF IsPut
<1>11. \A q \in given : Read(r.heap, q) = Read(h, q)
  BY <1>7, <1>10 DEF Wrote, Kept
<1>12. r.ok /\ GetList(r.cmd, r.heap)[ix] = l
  BY <1>4 DEF IsPut
<1> QED
  BY <1>5, <1>6, <1>7, <1>8, <1>9, <1>10, <1>11, <1>12, ReadNothing DEF Handled

\* An error leaves what was written until the Command ends.
LEMMA WroteFails ==
  ASSUME NEW c, NEW h, NEW given, NEW c2, NEW h2, NEW given2, Good(c, h, given),
         Wrote(c, h, given, c2, h2, given2), NEW r, r = Fails(c2, h2)
  PROVE  ~r.ok /\ Grew(c, h, r.cmd, r.heap) /\ SameCall(c, r.cmd)
<1>1. Grew(c, h, c2, h2) /\ SameCall(c, c2)
  BY WroteGrew DEF Good
<1>2. ~r.ok /\ r.cmd = [c2 EXCEPT !.err = TRUE] /\ r.heap = h2
  BY DEF Fails, Result
<1>3. r.cmd.call = c2.call /\ r.cmd.keyOptions = c2.keyOptions
  BY <1>1, <1>2, ErrIs DEF SameCall
<1>4. KeepsChosen(c, r.cmd)
  BY <1>1, <1>3, KeepsSame, KeepsTwice DEF SameCall
<1>5. SameCall(c, r.cmd) /\ Owned(r.cmd) = Owned(c2)
  BY <1>1, <1>2, <1>4 DEF SameCall, IsCommand, Owned, IsList
<1> QED
  BY <1>1, <1>2, <1>5 DEF Grew

-----------------------------------------------------------------------------
(* Numbers. *)

NumberTypes == {"uint32", "uint64", "int32", "int64"}
Numeric == {name \in DOMAIN OptionType : OptionType[name] \in NumberTypes \cup {"cas"}}

\* What a slot holds when its option has been looked for in an object, and
\* that was no error.
IsParsed(slot, dict, name) ==
  /\ slot.status # "error"
  /\ slot = IF name \in Properties(dict) THEN ParseValue(name, dict.f[name]) ELSE EmptySlot(name)

\* The number of an option that an object may give.
NumberOf(dict, name) == IF Given(dict, name) THEN dict.f[name].n ELSE 0

\* A number of this type stands for that of the option.
Arrives(type, v, n) == v = n \/ (type = "uint64" /\ n < 0)

\* A power of 2 by which numbers are taken apart.
LEMMA SignedIs ==
  ASSUME NEW p \in Nat \ {0}, NEW m \in Int, 0 <= m, m < 2 * p, NEW n \in Nat,
         ((m + p) % (2 * p)) - p = n
  PROVE  m = n
<1>1. PICK q \in Nat \ {0} : q = 2 * p
  OBVIOUS
<1>2. CASE m < p
  <2>1. (m + p) % q = m + p
    BY <1>1, <1>2
  <2> QED
    BY <1>1, <2>1
<1>3. CASE m >= p
  <2>1. m + p - q \in Int /\ q <= m + p /\ m + p < 2 * q
    BY <1>1, <1>3
  <2>2. (m + p) % q = m + p - q
    BY <2>1
  <2> QED
    BY <1>1, <1>3, <2>2
<1> QED
  BY <1>2, <1>3

\* 0 is narrowed to 0.
LEMMA NarrowZero ==
  ASSUME NEW type \in NumberTypes
  PROVE  Narrow(type, 0) = 0
<1>1. PICK p \in Nat \ {0}, r \in Nat \ {0} :
        p = 2^(Width32 - 1) /\ 2^Width32 = 2 * p /\ r = 2^(Width64 - 1) /\ 2^Width64 = 2 * r
  BY PowersAssumption
<1>2. PICK q \in Nat \ {0} : q = 2 * p
  OBVIOUS
<1>3. PICK s \in Nat \ {0} : s = 2 * r
  OBVIOUS
<1>4. 0 % q = 0 /\ 0 % s = 0 /\ p % q = p
  BY <1>2, <1>3
<1>5. CASE type = "int32"
  <2>1. Narrow(type, 0) = ((0 + p) % q) - p
    BY <1>1, <1>2, <1>5 DEF Narrow, Signed
  <2> QED
    BY <1>4, <2>1
<1>6. CASE type # "int32"
  BY <1>1, <1>2, <1>3, <1>4, <1>6 DEF Narrow, NumberTypes
<1> QED
  BY <1>5, <1>6

\* What is wide enough to be told from the number arrives.
LEMMA NarrowArrives ==
  ASSUME NEW type \in NumberTypes, NEW n \in Int, NEW v, v = Narrow(type, n), Widen(type, v) = n
  PROVE  Arrives(type, v, n)
<1>1. CASE type # "uint64"
  BY <1>1 DEF Widen, Arrives
<1>2. CASE type = "uint64"
  <2>1. PICK r \in Nat \ {0} : r = 2^(Width64 - 1) /\ 2^Width64 = 2 * r
    BY PowersAssumption
  <2>2. PICK s \in Nat \ {0} : s = 2 * r
    OBVIOUS
  <2>3. v = n % s /\ v \in Int /\ 0 <= v /\ v < s
    BY <1>2, <2>1, <2>2 DEF Narrow
  <2>4. ((v + r) % (2 * r)) - r = n
    BY <1>2, <2>1 DEF Widen, Signed
  <2>5. CASE n >= 0
    BY <2>2, <2>3, <2>4, <2>5, SignedIs DEF Arrives
  <2> QED
    BY <1>2, <2>5 DEF Arrives
<1> QED
  BY <1>1, <1>2

\* A number, or a CAS, that was found is that of the object.
LEMMA NumberIs ==
  ASSUME NEW slot, NEW dict, NEW name \in Numeric, IsParsed(slot, dict, name),
         name \in Properties(dict) => WellFormed(dict.f[name])
  PROVE  /\ IsFound(slot) <=> Given(dict, name)
         /\ slot.v = As(name, NumberOf(dict, name))
         /\ Arrives(OptionType[name], slot.v, NumberOf(dict, name))
<1> DEFINE type == OptionType[name]
<1>1. type \in NumberTypes \cup {"cas"}
  BY DEF Numeric
<1> HIDE DEF type
<1>2. \A n : type = "cas" => As(name, n) = n
  BY DEF As, type
<1>3. \A n : type # "cas" => As(name, n) = Narrow(type, n)
  BY DEF As, type
<1>4. CASE name \notin Properties(dict)
  <2>1. ~Given(dict, name) /\ NumberOf(dict, name) = 0
    BY <1>4 DEF Given, NumberOf
  <2>2. slot = Slot("empty", 0)
    BY <1>1, <1>4 DEF IsParsed, EmptySlot, Default, NumberTypes, type
  <2>3. As(name, 0) = 0
    BY <1>1, <1>2, <1>3, NarrowZero
  <2> QED
    BY <2>1, <2>2, <2>3 DEF Slot, IsFound, Arrives
<1>5. CASE name \in Properties(dict)
  <2>1. PICK v : v = dict.f[name]
    OBVIOUS
  <2>2. WellFormed(v) /\ slot = ParseValue(name, v) /\ slot.status # "error"
        /\ (Given(dict, name) <=> ~SetsFalse(v))
        /\ NumberOf(dict, name) = IF SetsFalse(v) THEN 0 ELSE v.n
    BY <1>5, <2>1 DEF IsParsed, Given, NumberOf
  <2>3. CASE SetsFalse(v)
    <3>1. slot = Slot("falseval", 0)
      <4>1. CASE type = "cas"
        BY <2>2, <2>3, <4>1 DEF ParseValue, ParseCas, SetsFalse, type
      <4>2. CASE type \in NumberTypes
        <5>1. slot = ParseNumber(type, v)
          BY <2>2, <4>2 DEF ParseValue, NumberTypes, type
        <5> QED
          BY <2>3, <5>1 DEF ParseNumber
      <4> QED
        BY <1>1, <4>1, <4>2
    <3>2. As(name, 0) = 0
      BY <1>1, <1>2, <1>3, NarrowZero
    <3> QED
      BY <2>2, <2>3, <3>1, <3>2 DEF Slot, IsFound, Arrives
  <2>4. CASE ~SetsFalse(v) /\ type = "cas"
    <3>1. slot = Slot("found", v.n)
      BY <2>2, <2>4 DEF ParseValue, ParseCas, Slot, type
    <3> QED
      BY <1>2, <2>2, <2>4, <3>1 DEF Slot, IsFound, Arrives, type
  <2>5. CASE ~SetsFalse(v) /\ type # "cas"
    <3>1. slot = ParseNumber(type, v)
      BY <1>1, <2>2, <2>5 DEF ParseValue, NumberTypes, type
    <3>2. PICK m : m = Narrow(type, v.n)
      OBVIOUS
    <3>3. /\ slot = Slot("found", m) /\ Widen(type, m) = v.n
      BY <2>2, <2>5, <3>1, <3>2 DEF ParseNumber, Slot
    <3>4. PICK n \in Int : n = v.n
      BY <2>2 DEF WellFormed
    <3>5. Arrives(type, m, n)
      BY <1>1, <2>5, <3>2, <3>3, <3>4, NarrowArrives
    <3> QED
      BY <1>3, <2>2, <2>5, <3>2, <3>3, <3>4, <3>5 DEF Slot, IsFound, type
  <2> QED
    BY <2>3, <2>4, <2>5
<1> QED
  BY <1>4, <1>5

-----------------------------------------------------------------------------
(* The options of a key. *)

\* Slots are parsed one by one.
LEMMA ParsedIs ==
  ASSUME NEW dict, "f" \in DOMAIN dict => dict.t \in ObjectTypes, NEW names,
         NEW p, p = ParseAll(dict, names), p.ok, NEW name \in names
  PROVE  IsParsed(p.slots[name], dict, name)
<1> DEFINE slots == [x \in names |-> IF x \in Properties(dict) THEN ParseValue(x, dict.f[x])
                                                               ELSE EmptySlot(x)]
           given == dict.t \in ObjectTypes
           ok == IF given THEN \A x \in names : slots[x].status # "error"
                          ELSE dict = None \/ IsFalsy(dict)
<1>1. p = [ok |-> ok, slots |-> slots]
  BY DEF ParseAll
<1>2. p.slots = slots /\ ok
  <2> HIDE DEF slots, ok
  <2> QED
    BY <1>1
<1>3. slots[name] = IF name \in Properties(dict) THEN ParseValue(name, dict.f[name])
                                                 ELSE EmptySlot(name)
  OBVIOUS
<1>4. CASE name \in Properties(dict)
  <2>1. dict.t \in ObjectTypes
    BY <1>4 DEF Properties
  <2>2. slots[name].status # "error"
    BY <1>2, <2>1
  <2> QED
    BY <1>2, <1>3, <2>2 DEF IsParsed
<1>5. CASE name \notin Properties(dict)
  <2>1. EmptySlot(name).status # "error"
    BY DEF EmptySlot, Slot
  <2> QED
    BY <1>2, <1>3, <1>5, <2>1 DEF IsParsed
<1> QED
  BY <1>4, <1>5

\* What gives an option is there.
LEMMA GivenIsSome ==
  ASSUME NEW dict, NEW name, Given(dict, name)
  PROVE  dict # None
<1>1. "f" \in DOMAIN dict
  BY DEF Given, Properties
<1>2. "f" \notin DOMAIN None
  BY DEF None, Plain, Value
<1> QED
  BY <1>1, <1>2

\* Who gives a key an option.
LEMMA WantedIs ==
  ASSUME NEW call, NEW i, NEW name
  PROVE  /\ OfKey(call, i, name) =>
              Wants(call, i, name) /\ Wanted(call, i, name) = NumberOf(call.params[i], name)
         /\ ~OfKey(call, i, name) /\ ~Ignored(call, i, name) =>
              /\ Wants(call, i, name) <=> Given(call.options, name)
              /\ Wanted(call, i, name) = NumberOf(call.options, name)
         /\ ~OfKey(call, i, name) /\ Ignored(call, i, name) =>
              ~Wants(call, i, name) /\ Wanted(call, i, name) = 0
<1>1. PICK g : g = Heeded(call, i, name)
  OBVIOUS
<1>2. Wants(call, i, name) <=> g # None
  BY <1>1 DEF Wants
<1>3. Wanted(call, i, name) = IF g # None THEN g.f[name].n ELSE 0
  BY <1>1 DEF Wanted, Number
<1>4. CASE OfKey(call, i, name)
  <2>1. g = call.params[i] /\ g # None /\ Given(call.params[i], name)
    BY <1>1, <1>4, GivenIsSome DEF Heeded, Giver, OfKey
  <2> QED
    BY <1>2, <1>3, <1>4, <2>1 DEF NumberOf
<1>5. CASE ~OfKey(call, i, name)
  <2>1. g = IF ~Ignored(call, i, name) /\ Given(call.options, name) THEN call.options ELSE None
    BY <1>1, <1>5 DEF Heeded, Giver
  <2>2. Given(call.options, name) => call.options # None
    BY GivenIsSome
  <2> QED
    BY <1>2, <1>3, <1>5, <2>1, <2>2 DEF NumberOf
<1> QED
  BY <1>4, <1>5

\* A number is the one that is asked for.
RightNumber(call, i, name, v) ==
  /\ v = As(name, Wanted(call, i, name))
  /\ Arrives(OptionType[name], v, Wanted(call, i, name))

\* What is known of the slots of a key and of its call.
SlotsOf(call, i, name, own, global) ==
  /\ IsParsed(own, call.params[i], name) /\ IsParsed(global, call.options, name)
  /\ name \in Properties(call.params[i]) => WellFormed(call.params[i].f[name])
  /\ name \in Properties(call.options) => WellFormed(call.options.f[name])

\* The key's number wins, where both count.
LEMMA MergedNumber ==
  ASSUME NEW call, NEW i, NEW name \in Numeric, NEW own, NEW global,
         SlotsOf(call, i, name, own, global),
         call.kind # "http", ~Ignored(call, i, name)
  PROVE  /\ RightNumber(call, i, name, IF IsFound(own) THEN own.v ELSE global.v)
         /\ IsFound(own) \/ IsFound(global) <=> Wants(call, i, name)
<1>1. /\ IsFound(own) <=> Given(call.params[i], name)
      /\ own.v = As(name, NumberOf(call.params[i], name))
      /\ Arrives(OptionType[name], own.v, NumberOf(call.params[i], name))
  BY NumberIs DEF SlotsOf
<1>2. /\ IsFound(global) <=> Given(call.options, name)
      /\ global.v = As(name, NumberOf(call.options, name))
      /\ Arrives(OptionType[name], global.v, NumberOf(call.options, name))
  BY NumberIs DEF SlotsOf
<1> QED
  BY <1>1, <1>2, WantedIs DEF RightNumber, OfKey

\* Where only the key's number counts, it is taken.
LEMMA OwnNumber ==
  ASSUME NEW call, NEW i, NEW name \in Numeric, NEW own, IsParsed(own, call.params[i], name),
         name \in Properties(call.params[i]) => WellFormed(call.params[i].f[name]),
         call.kind # "http", Ignored(call, i, name)
  PROVE  RightNumber(call, i, name, own.v) /\ (IsFound(own) <=> Wants(call, i, name))
<1>1. /\ IsFound(own) <=> Given(call.params[i], name)
      /\ own.v = As(name, NumberOf(call.params[i], name))
      /\ Arrives(OptionType[name], own.v, NumberOf(call.params[i], name))
  BY NumberIs
<1>2. ~Given(call.params[i], name) => NumberOf(call.params[i], name) = 0
  BY DEF NumberOf
<1> QED
  BY <1>1, <1>2, WantedIs DEF RightNumber, OfKey

\* Where only the call's number counts, it is taken.
LEMMA GlobalNumber ==
  ASSUME NEW call, NEW i, NEW name \in Numeric, NEW global,
         IsParsed(global, call.options, name),
         name \in Properties(call.options) => WellFormed(call.options.f[name]),
         call.kind = "http" \/ call.params[i] = None, ~Ignored(call, i, name)
  PROVE  RightNumber(call, i, name, global.v)
<1>1. /\ global.v = As(name, NumberOf(call.options, name))
      /\ Arrives(OptionType[name], global.v, NumberOf(call.options, name))
  BY NumberIs
<1>2. ~(Given(call.params[i], name) /\ call.kind # "http")
  BY GivenIsSome
<1> QED
  BY <1>1, <1>2, WantedIs DEF RightNumber, OfKey

\* The values of a call are well-formed.
LEMMA SensibleIs ==
  ASSUME NEW call, Sensible(call), NEW i \in 1..Len(call.keys)
  PROVE  /\ i \in DOMAIN call.keys /\ i \in DOMAIN call.params
         /\ WellFormed(call.keys[i]) /\ Len(call.keys) \in Nat
         /\ \A d \in {call.params[i], call.options} :
              /\ "f" \in DOMAIN d => d.t \in ObjectTypes
              /\ \A name \in Properties(d) : WellFormed(d.f[name])
<1>1. PICK keys, params : keys = call.keys /\ params = call.params
  OBVIOUS
<1>2. /\ keys \in Seq(Range(keys)) /\ params \in Seq(Range(params)) /\ Len(params) = Len(keys)
  BY <1>1 DEF Sensible
<1>3. DOMAIN keys = 1..Len(keys) /\ DOMAIN params = 1..Len(keys) /\ Len(keys) \in Nat
  BY <1>2
<1>4. keys[i] \in Range(keys) /\ params[i] \in Range(params)
  BY <1>1, <1>3 DEF Range
<1>5. /\ \A d \in Dicts(call) : "f" \in DOMAIN d => d.t \in ObjectTypes
      /\ \A v \in Values(call) : WellFormed(v)
  BY DEF Sensible
<1>6. params[i] \in Dicts(call) /\ call.options \in Dicts(call)
  BY <1>1, <1>4 DEF Dicts
<1>7. ASSUME NEW d \in Dicts(call), NEW name \in Properties(d)
      PROVE  WellFormed(d.f[name])
  <2>1. "f" \in DOMAIN d /\ name \in DOMAIN d.f
    BY <1>7 DEF Properties
  <2>2. d.f[name] \in Range(d.f)
    BY <2>1 DEF Range
  <2>3. d.f[name] \in Values(call)
    BY <2>1, <2>2 DEF Values
  <2> QED
    BY <1>5, <2>3
<1>8. WellFormed(keys[i])
  BY <1>1, <1>4, <1>5 DEF Values
<1> QED
  BY <1>1, <1>3, <1>5, <1>6, <1>7, <1>8

-----------------------------------------------------------------------------
(* What libcouchbase should be given. *)

\* The text of an option.
TextOf(dict, name) == IF Given(dict, name) THEN AsText(dict.f[name]) ELSE EmptyText
HashText(call, i) ==
  IF Given(call.params[i], "hashkey") THEN AsText(call.params[i].f.hashkey)
                                      ELSE TextOf(call.options, "hashkey")

RightTexts(call, i, e) ==
  IF call.kind = "http"
    THEN /\ e.path = TextOf(call.options, "path") /\ e.body = TextOf(call.options, "data")
         /\ e.content_type = TextOf(call.options, "content_type")
    ELSE /\ e.key = AsText(call.keys[i])
         /\ call.kind # "stats" => e.hashkey = HashText(call, i)
         /\ call.kind = "store" /\ e.bytes # EmptyText => e.bytes.of = call.params[i].f.value
         /\ call.kind = "store" /\ e.bytes = EmptyText => call.params[i].f.value = EmptyText

RightRest(call, i, e) ==
  /\ call.kind = "get" => e.lock = IF Wants(call, i, "locktime") THEN 1 ELSE 0
  /\ call.kind = "lock" => e.lock = 1
  /\ call.kind = "arithmetic" => e.create = IF Wants(call, i, "initial") THEN 1 ELSE 0
  /\ call.kind = "store" /\ Wants(call, i, "flags") => e.flags = Wanted(call, i, "flags")

RightNumbers(call, i, e) ==
  \A f \in DOMAIN Written[call.kind] :
    RightNumber(call, i, Written[call.kind][f], e[f])

\* Bytes that come back as the value they were made of, in the format asked for.
Restores(bytes, flags, v, spec) == Decode(bytes, flags) = InForm(v, spec)

RightForm(call, i, e) ==
  call.kind = "store" =>
    LET v == call.params[i].f.value
        spec == FormatOf(call, i)
    IN /\ spec # AUTO => Restores(e.bytes, spec, v, spec)
       /\ ~Given(call.params[i], "flags") => Restores(e.bytes, e.flags, v, spec)

\* The command that key i of a call should become.
Right(call, i, e) ==
  /\ RightTexts(call, i, e) /\ RightRest(call, i, e) /\ RightNumbers(call, i, e)
  /\ RightForm(call, i, e)

\* An error that does not keep a key from being processed.
Tolerated(call, i) == call.kind \in {"get", "lock"} /\ FormatOf(call, i) = INVALID

\* A key is processed: it has got the right command, or the call ends.
Outcome(c, h, given, ix, r) ==
  \/ ~r.ok /\ Grew(c, h, r.cmd, r.heap) /\ SameCall(c, r.cmd)
  \/ \E l, given2 :
       /\ ix \in 1..c.list.ncmds /\ Handled(c, h, given, ix, l, r, given2)
       /\ Right(c.call, ix, AsRead(l, r.heap))
       /\ r.cmd.err => c.err \/ Tolerated(c.call, ix)
       /\ NotesFormat(c.call, ix, r.cmd.keyOptions)

\* A libcouchbase command as it is read, field by field.
LEMMA AsReadIs ==
  ASSUME NEW l, IsLcb(l), NEW h, NEW e, e = AsRead(l, h)
  PROVE  /\ e.key = Read(h, l.key) /\ e.hashkey = Read(h, l.hashkey)
         /\ e.bytes = Read(h, l.bytes) /\ e.path = Read(h, l.path)
         /\ e.content_type = Read(h, l.content_type) /\ e.body = Read(h, l.body)
         /\ e.exptime = l.exptime /\ e.lock = l.lock /\ e.flags = l.flags /\ e.cas = l.cas
         /\ e.delta = l.delta /\ e.initial = l.initial /\ e.create = l.create
         /\ e.method = l.method
BY DEF IsLcb, AsRead

\* It reads the same wherever its strings do.
LEMMA AsReadSame ==
  ASSUME NEW l, NEW given, IsEntry(l, given), NEW h, NEW g,
         \A q \in given \cup {NULL, StaticEmpty} : Read(g, q) = Read(h, q)
  PROVE  AsRead(l, g) = AsRead(l, h)
<1>1. /\ Read(g, l.key) = Read(h, l.key) /\ Read(g, l.hashkey) = Read(h, l.hashkey)
      /\ Read(g, l.bytes) = Read(h, l.bytes) /\ Read(g, l.path) = Read(h, l.path)
      /\ Read(g, l.content_type) = Read(h, l.content_type) /\ Read(g, l.body) = Read(h, l.body)
  BY DEF IsEntry, StringsOf
<1> QED
  BY <1>1 DEF AsRead

\* A key that gets the right command is processed.
LEMMA PutOutcome ==
  ASSUME NEW c, NEW h, NEW given, NEW c2, NEW h2, NEW given2, Good(c, h, given),
         Wrote(c, h, given, c2, h2, given2), NEW ix \in 1..c.list.ncmds,
         NEW l, IsEntry(l, given2), NEW r, r = Put(c2, h2, ix, l),
         Right(c.call, ix, AsRead(l, h2)), c2.err => c.err \/ Tolerated(c.call, ix),
         c.call.kind \in {"get", "lock"} => NotesFormat(c.call, ix, c2.keyOptions)
  PROVE  Outcome(c, h, given, ix, r)
<1>1. /\ Handled(c, h, given, ix, l, r, given2) /\ r.cmd.err = c2.err
      /\ r.cmd.keyOptions = c2.keyOptions
      /\ \A q \in given2 \cup {NULL, StaticEmpty} : Read(r.heap, q) = Read(h2, q)
  BY WrotePut
<1>2. AsRead(l, r.heap) = AsRead(l, h2)
  BY <1>1, AsReadSame
<1>3. NotesFormat(c.call, ix, r.cmd.keyOptions)
  BY <1>1 DEF NotesFormat
<1> QED
  BY <1>1, <1>2, <1>3 DEF Outcome

\* One that does not ends the call.
LEMMA FailsOutcome ==
  ASSUME NEW c, NEW h, NEW given, NEW c2, NEW h2, NEW given2, Good(c, h, given),
         Wrote(c, h, given, c2, h2, given2), NEW ix, NEW r, r = Fails(c2, h2)
  PROVE  Outcome(c, h, given, ix, r)
BY WroteFails DEF Outcome

-----------------------------------------------------------------------------
(* The handlers.  Each has got the Command, what was written to it of the key  *)
(* (c2, h2, given2), and the options of the key.                               *)

GlobalParsed(call, global) ==
  \A name \in Parameters[call.kind] :
    IF call.kind = "lock" /\ name = "locktime"
      THEN /\ IsFound(global[name])
           /\ \E slot : IsParsed(slot, call.options, name) /\ global[name].v = slot.v
      ELSE IsParsed(global[name], call.options, name)

\* A key's turn has come.
InTurn(c, h, given, ix, own) ==
  /\ Good(c, h, given) /\ Sensible(c.call) /\ ix \in 1..Len(c.call.keys)
  /\ c.list.ncmds = IF HasDefaultString(c) THEN 1 ELSE Len(c.call.keys)
  /\ GlobalParsed(c.call, c.global)
  /\ DOMAIN own = KeyParameters[c.call.kind]
  /\ \A name \in DOMAIN own : IsParsed(own[name], c.call.params[ix], name)

\* Its strings were written.
Named(c, h, given, ix, c2, h2, given2, lcb) ==
  /\ Wrote(c, h, given, c2, h2, given2) /\ c2.err = c.err
  /\ lcb = [ZeroCmd EXCEPT !.key = lcb.key, !.hashkey = lcb.hashkey]
  /\ {lcb.key, lcb.hashkey} \subseteq given2 \cup {NULL, StaticEmpty}
  /\ Read(h2, lcb.key) = AsText(c.call.keys[ix])
  /\ Read(h2, lcb.hashkey) = HashText(c.call, ix)

\* What remains to be done are numbers, and the bytes of a value.
Filled(lcb, l) ==
  /\ IsLcb(l) /\ l.key = lcb.key /\ l.hashkey = lcb.hashkey
  /\ l.path = NULL /\ l.content_type = NULL /\ l.body = NULL

\* A command that was named and filled is read as it is meant.
LEMMA FilledIs ==
  ASSUME NEW c, NEW h, NEW given, NEW ix, NEW c2, NEW h2, NEW given2, NEW lcb,
         Named(c, h, given, ix, c2, h2, given2, lcb),
         NEW l, Filled(lcb, l), l.bytes \in given2 \cup {NULL, StaticEmpty},
         NEW e, e = AsRead(l, h2)
  PROVE  /\ IsEntry(l, given2)
         /\ e.key = AsText(c.call.keys[ix]) /\ e.hashkey = HashText(c.call, ix)
         /\ e.bytes = Read(h2, l.bytes)
         /\ e.exptime = l.exptime /\ e.lock = l.lock /\ e.flags = l.flags /\ e.cas = l.cas
         /\ e.delta = l.delta /\ e.initial = l.initial /\ e.create = l.create
<1>1. StringsOf(l) \subseteq given2 \cup {NULL, StaticEmpty}
  BY DEF Filled, Named, StringsOf
<1>2. IsLcb(l)
  BY DEF Filled
<1>3. IsEntry(l, given2)
  BY <1>1, <1>2 DEF IsEntry
<1> QED
  BY <1>2, <1>3, AsReadIs DEF Filled, Named

\* A key and its call have got the slots their options are in.
LEMMA SlotsAre ==
  ASSUME NEW c, NEW h, NEW given, NEW ix, NEW own, InTurn(c, h, given, ix, own),
         NEW name \in DOMAIN own
  PROVE  /\ IsParsed(own[name], c.call.params[ix], name)
         /\ name \in Properties(c.call.params[ix]) => WellFormed(c.call.params[ix].f[name])
         /\ name \in Properties(c.call.options) => WellFormed(c.call.options.f[name])
         /\ name \in Parameters[c.call.kind] =>
              \E slot : /\ SlotsOf(c.call, ix, name, own[name], slot)
                        /\ slot.v = c.global[name].v
                        /\ ~(c.call.kind = "lock" /\ name = "locktime") => slot = c.global[name]
<1>1. PICK call : call = c.call
  OBVIOUS
<1>2. Sensible(call) /\ ix \in 1..Len(call.keys) /\ IsParsed(own[name], call.params[ix], name)
  BY <1>1 DEF InTurn
<1>3. \A d \in {call.params[ix], call.options} : name \in Properties(d) => WellFormed(d.f[name])
  BY <1>2, SensibleIs
<1>4. ASSUME name \in Parameters[call.kind]
      PROVE  \E slot : /\ IsParsed(slot, call.options, name) /\ slot.v = c.global[name].v
                       /\ ~(call.kind = "lock" /\ name = "locktime") => slot = c.global[name]
  BY <1>1, <1>4 DEF InTurn, GlobalParsed
<1> QED
  BY <1>1, <1>2, <1>3, <1>4 DEF SlotsOf

\* A number that the key's options, or else the call's, give.
LEMMA MergedIs ==
  ASSUME NEW c, NEW h, NEW given, NEW ix, NEW own, InTurn(c, h, given, ix, own),
         NEW name \in Numeric, name \in DOMAIN own, name \in Parameters[c.call.kind],
         c.call.kind # "http", ~Ignored(c.call, ix, name),
         NEW v, v = IF IsFound(own[name]) THEN own[name].v ELSE c.global[name].v
  PROVE  /\ RightNumber(c.call, ix, name, v)
         /\ ~(c.call.kind = "lock" /\ name = "locktime") =>
              (IsFound(own[name]) \/ IsFound(c.global[name]) <=> Wants(c.call, ix, name))
<1>1. PICK slot : /\ SlotsOf(c.call, ix, name, own[name], slot)
                  /\ slot.v = c.global[name].v
                  /\ ~(c.call.kind = "lock" /\ name = "locktime") => slot = c.global[name]
  BY SlotsAre
<1>2. /\ RightNumber(c.call, ix, name, IF IsFound(own[name]) THEN own[name].v ELSE slot.v)
      /\ IsFound(own[name]) \/ IsFound(slot) <=> Wants(c.call, ix, name)
  BY <1>1, MergedNumber
<1> QED
  BY <1>1, <1>2

\* A number that only the key's options give.
LEMMA OwnIs ==
  ASSUME NEW c, NEW h, NEW given, NEW ix, NEW own, InTurn(c, h, given, ix, own),
         NEW name \in Numeric, name \in DOMAIN own,
         c.call.kind # "http", Ignored(c.call, ix, name)
  PROVE  /\ RightNumber(c.call, ix, name, own[name].v)
         /\ IsFound(own[name]) <=> Wants(c.call, ix, name)
<1>1. /\ IsParsed(own[name], c.call.params[ix], name)
      /\ name \in Properties(c.call.params[ix]) => WellFormed(c.call.params[ix].f[name])
  BY SlotsAre
<1> QED
  BY <1>1, OwnNumber

\* What the processing of a key leaves alone is as it was.
LEMMA NamedSame ==
  ASSUME NEW c, NEW h, NEW given, NEW ix, NEW own, InTurn(c, h, given, ix, own),
         NEW c2, NEW h2, NEW given2, NEW lcb, Named(c, h, given, ix, c2, h2, given2, lcb)
  PROVE  /\ IsLcb(lcb) /\ lcb.bytes = NULL /\ lcb.path = NULL /\ lcb.content_type = NULL
         /\ lcb.body = NULL /\ c2.call = c.call /\ c2.global = c.global /\ c2.err = c.err
         /\ Good(c, h, given) /\ Wrote(c, h, given, c2, h2, given2)
         /\ HasDefaultString(c) = HasDefaultString(c2)
         /\ c.list.ncmds = IF HasDefaultString(c) THEN 1 ELSE Len(c.call.keys)
<1>1. SameCall(c, c2)
  BY WroteGrew DEF Good, InTurn, Named
<1>2. IsLcb(lcb) /\ lcb.bytes = NULL /\ lcb.path = NULL /\ lcb.content_type = NULL
      /\ lcb.body = NULL
  BY DEF Named, IsLcb, ZeroCmd
<1> QED
  BY <1>1, <1>2 DEF SameCall, Named, InTurn, HasDefaultString

\* The key's options win, one by one.
LEMMA MergeIs ==
  ASSUME NEW own, NEW global, NEW opt, opt = Merge(own, global), NEW name \in DOMAIN own
  PROVE  /\ opt[name].v = IF IsFound(own[name]) THEN own[name].v ELSE global[name].v
         /\ IsFound(opt[name]) <=> IsFound(own[name]) \/ IsFound(global[name])
<1>1. opt[name] = IF IsFound(own[name]) THEN own[name] ELSE global[name]
  BY DEF Merge
<1> QED
  BY <1>1

\* The merged number of an option is the right one.
LEMMA OptionIs ==
  ASSUME NEW c, NEW h, NEW given, NEW ix, NEW own, InTurn(c, h, given, ix, own),
         NEW name \in Numeric, name \in DOMAIN own, name \in Parameters[c.call.kind],
         c.call.kind # "http", ~Ignored(c.call, ix, name),
         NEW opt, opt = Merge(own, c.global)
  PROVE  /\ RightNumber(c.call, ix, name, opt[name].v)
         /\ ~(c.call.kind = "lock" /\ name = "locktime") =>
              (IsFound(opt[name]) <=> Wants(c.call, ix, name))
<1>1. /\ opt[name].v = IF IsFound(own[name]) THEN own[name].v ELSE c.global[name].v
      /\ IsFound(opt[name]) <=> IsFound(own[name]) \/ IsFound(c.global[name])
  BY MergeIs
<1> QED
  BY <1>1, MergedIs

\* The texts of a command without a value.
LEMMA PlainTexts ==
  ASSUME NEW call, NEW ix, NEW e, call.kind \notin {"http", "store"},
         e.key = AsText(call.keys[ix]), e.hashkey = HashText(call, ix)
  PROVE  RightTexts(call, ix, e)
BY DEF RightTexts

\* What becomes of the options, kind by kind.
LEMMA WrittenIs ==
  /\ Written.get = [exptime |-> "locktime"] /\ Written.lock = [exptime |-> "locktime"]
  /\ \A kind \in Kinds \ {"get", "lock"} : Written[kind] = FieldOptions[kind]
BY DEF Written, FieldOptions, Kinds

\* The numbers of a command are read as they are.
LEMMA NumbersRead ==
  ASSUME NEW call, call.kind \in Kinds, NEW ix, NEW l, IsLcb(l), NEW h, NEW e, e = AsRead(l, h)
  PROVE  /\ RightRest(call, ix, l) => RightRest(call, ix, e)
         /\ RightNumbers(call, ix, l) => RightNumbers(call, ix, e)
<1>1. /\ e.exptime = l.exptime /\ e.lock = l.lock /\ e.flags = l.flags /\ e.cas = l.cas
      /\ e.delta = l.delta /\ e.initial = l.initial /\ e.create = l.create
      /\ e.method = l.method
  BY AsReadIs
<1>2. \A f \in {"exptime", "cas", "delta", "initial", "method"} : e[f] = l[f]
  BY <1>1
<1>3. DOMAIN Written[call.kind] \subseteq {"exptime", "cas", "delta", "initial", "method"}
  <2>1. CASE call.kind \in {"get", "lock"}
    BY <2>1, WrittenIs
  <2>2. CASE call.kind \notin {"get", "lock"}
    BY <2>2, WrittenIs DEF FieldOptions, Kinds
  <2> QED
    BY <2>1, <2>2
<1> QED
  BY <1>1, <1>2, <1>3 DEF RightRest, RightNumbers

\* A command with the right numbers that needs no more texts.
LEMMA NumbersOutcome ==
  ASSUME NEW c, NEW h, NEW given, NEW ix, NEW own, InTurn(c, h, given, ix, own),
         NEW c2, NEW h2, NEW given2, NEW lcb, Named(c, h, given, ix, c2, h2, given2, lcb),
         NEW call, call = c.call, call.kind \notin {"http", "stats", "store"},
         NEW n, Wrote(c, h, given, n, h2, given2), n.err => c.err \/ Tolerated(call, ix),
         call.kind \in {"get", "lock"} => NotesFormat(call, ix, n.keyOptions),
         NEW l, IsLcb(l), Filled(lcb, l), l.bytes = NULL,
         RightRest(call, ix, l), RightNumbers(call, ix, l),
         NEW r, r = Put(n, h2, ix, l)
  PROVE  Outcome(c, h, given, ix, r)
<1>1. PICK e : e = AsRead(l, h2)
  OBVIOUS
<1>2. IsEntry(l, given2) /\ e.key = AsText(call.keys[ix]) /\ e.hashkey = HashText(call, ix)
  BY <1>1, FilledIs
<1>3. call.kind \in Kinds
  BY DEF InTurn, Sensible
<1>4. Right(call, ix, e)
  BY <1>1, <1>2, <1>3, NumbersRead, PlainTexts DEF Right, RightForm
<1>5. ix \in 1..c.list.ncmds /\ Good(c, h, given)
  BY NamedSame DEF InTurn, HasDefaultString
<1> QED
  BY <1>1, <1>2, <1>4, <1>5, PutOutcome

\* Numbers are written into a command that was named: those of a get, ...
GetCmd(lcb, exptime, lock) == [lcb EXCEPT !.exptime = exptime, !.lock = lock]

\* They are both written.
LEMMA FillLock ==
  ASSUME NEW lcb, IsLcb(lcb), lcb.path = NULL, lcb.content_type = NULL, lcb.body = NULL,
         NEW exptime, NEW lock,
         NEW l, l = GetCmd(lcb, exptime, lock)
  PROVE  /\ Filled(lcb, l) /\ l.bytes = lcb.bytes
         /\ l.exptime = exptime /\ l.lock = lock
<1>1. IsLcb(l)
  BY DEF IsLcb, GetCmd
<1>2. /\ l.key = lcb.key /\ l.hashkey = lcb.hashkey /\ l.bytes = lcb.bytes
      /\ l.path = lcb.path /\ l.content_type = lcb.content_type /\ l.body = lcb.body
      /\ l.exptime = exptime /\ l.lock = lock
  BY DEF IsLcb, GetCmd
<1> QED
  BY <1>1, <1>2 DEF Filled

\* ... of a touch, ...
LEMMA FillExptime ==
  ASSUME NEW lcb, IsLcb(lcb), lcb.path = NULL, lcb.content_type = NULL, lcb.body = NULL,
         NEW exptime,
         NEW l, l = [lcb EXCEPT !.exptime = exptime]
  PROVE  /\ Filled(lcb, l) /\ l.bytes = lcb.bytes
         /\ l.exptime = exptime
<1>1. IsLcb(l)
  BY DEF IsLcb
<1>2. /\ l.key = lcb.key /\ l.hashkey = lcb.hashkey /\ l.bytes = lcb.bytes
      /\ l.path = lcb.path /\ l.content_type = lcb.content_type /\ l.body = lcb.body
      /\ l.exptime = exptime
  BY DEF IsLcb
<1> QED
  BY <1>1, <1>2 DEF Filled

\* ... a CAS, ...
LEMMA FillCas ==
  ASSUME NEW lcb, IsLcb(lcb), lcb.path = NULL, lcb.content_type = NULL, lcb.body = NULL,
         NEW cas,
         NEW l, l = [lcb EXCEPT !.cas = cas]
  PROVE  /\ Filled(lcb, l) /\ l.bytes = lcb.bytes
         /\ l.cas = cas
<1>1. IsLcb(l)
  BY DEF IsLcb
<1>2. /\ l.key = lcb.key /\ l.hashkey = lcb.hashkey /\ l.bytes = lcb.bytes
      /\ l.path = lcb.path /\ l.content_type = lcb.content_type /\ l.body = lcb.body
      /\ l.cas = cas
  BY DEF IsLcb
<1> QED
  BY <1>1, <1>2 DEF Filled

\* ... those of an arithmetic.
ArithmeticCmd(lcb, delta, initial, create, exptime) ==
  [lcb EXCEPT !.delta = delta, !.initial = initial, !.create = create, !.exptime = exptime]

\* They are all written.
LEMMA FillArithmetic ==
  ASSUME NEW lcb, IsLcb(lcb), lcb.path = NULL, lcb.content_type = NULL, lcb.body = NULL,
         NEW delta, NEW initial, NEW create, NEW exptime,
         NEW l, l = ArithmeticCmd(lcb, delta, initial, create, exptime)
  PROVE  /\ Filled(lcb, l) /\ l.bytes = lcb.bytes
         /\ l.delta = delta /\ l.initial = initial /\ l.create = create /\ l.exptime = exptime
<1>1. IsLcb(l)
  BY DEF IsLcb, ArithmeticCmd
<1>2. /\ l.key = lcb.key /\ l.hashkey = lcb.hashkey /\ l.bytes = lcb.bytes
      /\ l.path = lcb.path /\ l.content_type = lcb.content_type /\ l.body = lcb.body
      /\ l.delta = delta /\ l.initial = initial /\ l.create = create /\ l.exptime = exptime
  BY DEF IsLcb, ArithmeticCmd
<1> QED
  BY <1>1, <1>2 DEF Filled

\* ArithmeticCommand::handleSingle.
LEMMA ArithmeticHandled ==
  ASSUME NEW c, NEW h, NEW given, NEW ix, NEW own, InTurn(c, h, given, ix, own),
         NEW c2, NEW h2, NEW given2, NEW lcb, Named(c, h, given, ix, c2, h2, given2, lcb),
         NEW call, call = c.call, call.kind = "arithmetic",
         NEW r, r = HandleArithmetic(c2, h2, lcb, own, ix)
  PROVE  Outcome(c, h, given, ix, r)
<1>1. /\ IsLcb(lcb) /\ lcb.bytes = NULL /\ lcb.path = NULL /\ lcb.content_type = NULL
      /\ lcb.body = NULL /\ c2.global = c.global /\ c2.err = c.err
      /\ Wrote(c, h, given, c2, h2, given2)
  BY NamedSame
<1>2. PICK opt : opt = Merge(own, c.global)
  OBVIOUS
<1>3. ASSUME NEW name \in {"expiry", "initial", "offset"}
      PROVE  /\ RightNumber(call, ix, name, opt[name].v)
             /\ IsFound(opt[name]) <=> Wants(call, ix, name)
  <2>1. name \in Numeric
    BY DEF Numeric, NumberTypes, OptionType
  <2>2. name \in DOMAIN own /\ name \in Parameters[call.kind]
    BY DEF InTurn, KeyParameters, Parameters
  <2>3. ~Ignored(call, ix, name)
    BY DEF Ignored
  <2> QED
    BY <1>2, <2>1, <2>2, <2>3, OptionIs
<1>4. PICK delta, initial, create, exptime :
        /\ delta = opt["offset"].v /\ initial = opt["initial"].v /\ exptime = opt["expiry"].v
        /\ create = IF IsFound(opt["initial"]) THEN 1 ELSE 0
  OBVIOUS
<1>5. PICK l : l = ArithmeticCmd(lcb, delta, initial, create, exptime)
  OBVIOUS
<1>6. r = Put(c2, h2, ix, l)
  BY <1>1, <1>2, <1>4, <1>5 DEF HandleArithmetic, ArithmeticCmd
<1>7. /\ Filled(lcb, l) /\ IsLcb(l) /\ l.bytes = NULL
      /\ l.delta = delta /\ l.initial = initial /\ l.exptime = exptime /\ l.create = create
  <2>1. IsLcb(lcb) /\ lcb.path = NULL /\ lcb.content_type = NULL /\ lcb.body = NULL
    BY <1>1
  <2>2. /\ Filled(lcb, l) /\ l.bytes = lcb.bytes
        /\ l.delta = delta /\ l.initial = initial /\ l.create = create /\ l.exptime = exptime
    BY <1>5, <2>1, FillArithmetic
  <2> QED
    BY <1>1, <2>2 DEF Filled
<1>8. RightNumbers(call, ix, l)
  BY <1>3, <1>4, <1>7 DEF RightNumbers, Written, FieldOptions
<1>9. RightRest(call, ix, l)
  BY <1>3, <1>4, <1>7 DEF RightRest
<1> QED
  BY <1>1, <1>6, <1>7, <1>8, <1>9, NumbersOutcome

\* RemoveCommand::handleSingle: the call's CAS counts for a key without an object.
LEMMA RemoveHandled ==
  ASSUME NEW c, NEW h, NEW given, NEW ix, NEW own, InTurn(c, h, given, ix, own),
         NEW c2, NEW h2, NEW given2, NEW lcb, Named(c, h, given, ix, c2, h2, given2, lcb),
         NEW call, call = c.call, call.kind = "remove",
         NEW r, r = HandleRemove(c2, h2, lcb, own, ix, call.params[ix])
  PROVE  Outcome(c, h, given, ix, r)
<1>1. /\ IsLcb(lcb) /\ lcb.bytes = NULL /\ lcb.path = NULL /\ lcb.content_type = NULL
      /\ lcb.body = NULL /\ c2.global = c.global /\ c2.err = c.err
      /\ Wrote(c, h, given, c2, h2, given2)
  BY NamedSame
<1>2. PICK cas : cas = OwnOrGlobal(c2, own, call.params[ix]).cas.v
  OBVIOUS
<1>3. RightNumber(call, ix, "cas", cas)
  <2>1. PICK name : name = "cas"
    OBVIOUS
  <2>2. name \in Numeric /\ name \in DOMAIN own /\ name \in Parameters[call.kind]
    BY <2>1 DEF Numeric, OptionType, InTurn, KeyParameters, Parameters
  <2>3. PICK slot : SlotsOf(call, ix, name, own[name], slot) /\ slot = c.global[name]
    BY <2>2, SlotsAre
  <2>4. CASE call.params[ix] = None
    <3>1. ~Ignored(call, ix, name) /\ cas = c.global[name].v
      BY <1>1, <1>2, <2>1, <2>4 DEF Ignored, OwnOrGlobal
    <3> QED
      BY <2>1, <2>2, <2>3, <2>4, <3>1, GlobalNumber DEF SlotsOf
  <2>5. CASE call.params[ix] # None
    <3>1. Ignored(call, ix, name) /\ cas = own[name].v
      BY <1>1, <1>2, <2>1, <2>5 DEF Ignored, OwnOrGlobal
    <3> QED
      BY <2>1, <2>2, <2>3, <3>1, OwnIs
  <2> QED
    BY <2>4, <2>5
<1>4. PICK l : l = [lcb EXCEPT !.cas = cas]
  OBVIOUS
<1>5. Filled(lcb, l) /\ IsLcb(l) /\ l.bytes = NULL /\ l.cas = cas
  BY <1>1, <1>4, FillCas DEF Filled
<1>6. r = Put(c2, h2, ix, l)
  BY <1>2, <1>4 DEF HandleRemove
<1>7. RightNumbers(call, ix, l) /\ RightRest(call, ix, l)
  BY <1>3, <1>5 DEF RightNumbers, RightRest, Written, FieldOptions
<1> QED
  BY <1>1, <1>5, <1>6, <1>7, NumbersOutcome

\* TouchCommand::handleSingle: the same, of the expiry.
LEMMA TouchHandled ==
  ASSUME NEW c, NEW h, NEW given, NEW ix, NEW own, InTurn(c, h, given, ix, own),
         NEW c2, NEW h2, NEW given2, NEW lcb, Named(c, h, given, ix, c2, h2, given2, lcb),
         NEW call, call = c.call, call.kind = "touch",
         NEW r, r = HandleTouch(c2, h2, lcb, own, ix, call.params[ix])
  PROVE  Outcome(c, h, given, ix, r)
<1>1. /\ IsLcb(lcb) /\ lcb.bytes = NULL /\ lcb.path = NULL /\ lcb.content_type = NULL
      /\ lcb.body = NULL /\ c2.global = c.global /\ c2.err = c.err
      /\ Wrote(c, h, given, c2, h2, given2)
  BY NamedSame
<1>2. PICK exptime : exptime = OwnOrGlobal(c2, own, call.params[ix]).expiry.v
  OBVIOUS
<1>3. RightNumber(call, ix, "expiry", exptime)
  <2>1. PICK name : name = "expiry"
    OBVIOUS
  <2>2. name \in Numeric /\ name \in DOMAIN own /\ name \in Parameters[call.kind]
    BY <2>1 DEF Numeric, NumberTypes, OptionType, InTurn, KeyParameters, Parameters
  <2>3. PICK slot : SlotsOf(call, ix, name, own[name], slot) /\ slot = c.global[name]
    BY <2>2, SlotsAre
  <2>4. CASE call.params[ix] = None
    <3>1. ~Ignored(call, ix, name) /\ exptime = c.global[name].v
      BY <1>1, <1>2, <2>1, <2>4 DEF Ignored, OwnOrGlobal
    <3> QED
      BY <2>1, <2>2, <2>3, <2>4, <3>1, GlobalNumber DEF SlotsOf
  <2>5. CASE call.params[ix] # None
    <3>1. Ignored(call, ix, name) /\ exptime = own[name].v
      BY <1>1, <1>2, <2>1, <2>5 DEF Ignored, OwnOrGlobal
    <3> QED
      BY <2>1, <2>2, <2>3, <3>1, OwnIs
  <2> QED
    BY <2>4, <2>5
<1>4. PICK l : l = [lcb EXCEPT !.exptime = exptime]
  OBVIOUS
<1>5. Filled(lcb, l) /\ IsLcb(l) /\ l.bytes = NULL /\ l.exptime = exptime
  BY <1>1, <1>4, FillExptime DEF Filled
<1>6. r = Put(c2, h2, ix, l)
  BY <1>2, <1>4 DEF HandleTouch
<1>7. RightNumbers(call, ix, l) /\ RightRest(call, ix, l)
  BY <1>3, <1>5 DEF RightNumbers, RightRest, Written, FieldOptions
<1> QED
  BY <1>1, <1>5, <1>6, <1>7, NumbersOutcome

\* UnlockCommand::handleSingle needs the key's CAS, and EndureCommand's takes it.
LEMMA CasHandled ==
  ASSUME NEW c, NEW h, NEW given, NEW ix, NEW own, InTurn(c, h, given, ix, own),
         NEW c2, NEW h2, NEW given2, NEW lcb, Named(c, h, given, ix, c2, h2, given2, lcb),
         NEW call, call = c.call, NEW r,
         \/ /\ call.kind = "unlock"
            /\ r = HandleUnlock(c2, h2, lcb, own, ix, call.params[ix])
         \/ call.kind = "endure" /\ r = HandleEndure(c2, h2, lcb, own, ix)
  PROVE  Outcome(c, h, given, ix, r)
<1>1. /\ IsLcb(lcb) /\ lcb.bytes = NULL /\ lcb.path = NULL /\ lcb.content_type = NULL
      /\ lcb.body = NULL /\ c2.global = c.global /\ c2.err = c.err
      /\ Wrote(c, h, given, c2, h2, given2) /\ Good(c, h, given)
  BY NamedSame
<1>2. PICK cas : cas = own["cas"].v
  OBVIOUS
<1>3. PICK l : l = [lcb EXCEPT !.cas = cas]
  OBVIOUS
<1>4. RightNumber(call, ix, "cas", cas)
  <2>1. PICK name : name = "cas"
    OBVIOUS
  <2>2. call.kind \in {"unlock", "endure"}
    OBVIOUS
  <2>3. name \in Numeric /\ Ignored(call, ix, name)
    BY <2>1, <2>2 DEF Numeric, OptionType, Ignored
  <2>4. name \in KeyParameters[call.kind]
    <3>1. CASE call.kind = "unlock"
      BY <2>1, <3>1 DEF KeyParameters, Parameters
    <3>2. CASE call.kind = "endure"
      BY <2>1, <3>2 DEF KeyParameters, Parameters
    <3> QED
      BY <2>2, <3>1, <3>2
  <2>5. name \in DOMAIN own
    BY <2>4 DEF InTurn
  <2> QED
    BY <1>2, <2>1, <2>2, <2>3, <2>5, OwnIs
<1>5. CASE r = Fails(c2, h2)
  BY <1>1, <1>5, FailsOutcome
<1>6. CASE r = Put(c2, h2, ix, l)
  <2>1. Filled(lcb, l) /\ IsLcb(l) /\ l.bytes = NULL /\ l.cas = cas
    BY <1>1, <1>3, FillCas DEF Filled
  <2>2. Written[call.kind] = [cas |-> "cas"]
    BY WrittenIs DEF FieldOptions, Kinds
  <2>3. RightNumbers(call, ix, l) /\ RightRest(call, ix, l)
    BY <1>4, <2>1, <2>2 DEF RightNumbers, RightRest
  <2>4. call.kind \notin {"http", "stats", "store"}
    OBVIOUS
  <2> QED
    BY <1>1, <1>6, <2>1, <2>3, <2>4, NumbersOutcome
<1>7. r = Fails(c2, h2) \/ r = Put(c2, h2, ix, l)
  BY <1>2, <1>3 DEF HandleUnlock, HandleEndure
<1> QED
  BY <1>5, <1>6, <1>7

\* ObserveCommand::handleSingle has the key only.
LEMMA ObserveHandled ==
  ASSUME NEW c, NEW h, NEW given, NEW ix, NEW own, InTurn(c, h, given, ix, own),
         NEW c2, NEW h2, NEW given2, NEW lcb, Named(c, h, given, ix, c2, h2, given2, lcb),
         NEW call, call = c.call, call.kind = "observe",
         NEW r, r = HandleObserve(c2, h2, lcb, ix)
  PROVE  Outcome(c, h, given, ix, r)
<1>1. /\ IsLcb(lcb) /\ lcb.bytes = NULL /\ lcb.path = NULL /\ lcb.content_type = NULL
      /\ lcb.body = NULL /\ c2.err = c.err /\ Wrote(c, h, given, c2, h2, given2)
  BY NamedSame
<1>2. Filled(lcb, lcb)
  BY <1>1 DEF Filled
<1>3. r = Put(c2, h2, ix, lcb)
  BY DEF HandleObserve
<1>4. RightNumbers(call, ix, lcb) /\ RightRest(call, ix, lcb)
  BY DEF RightNumbers, RightRest, Written, FieldOptions
<1> QED
  BY <1>1, <1>2, <1>3, <1>4, NumbersOutcome

\* What a Command keeps of its keys is for its cookie.
Noted(c, options, err) == [c EXCEPT !.keyOptions = options, !.err = err]

\* It is no string, and disturbs none.
LEMMA NotedIs ==
  ASSUME NEW c, NEW h, NEW given, NEW c2, NEW h2, NEW given2,
         Wrote(c, h, given, c2, h2, given2), NEW options, NEW err,
         NEW n, n = Noted(c2, options, err),
         Chosen(c2.call, c2.keyOptions) => Chosen(c2.call, options),
         DOMAIN c2.keyOptions \subseteq DOMAIN options
  PROVE  Wrote(c, h, given, n, h2, given2) /\ n.err = err /\ n.keyOptions = options
<1>1. /\ IsCommand(c2)
      /\ c2 = [c EXCEPT !.bufs = c2.bufs, !.err = c2.err, !.keyOptions = c2.keyOptions]
  BY DEF Wrote
<1>2. IsCommand(n) /\ n.bufs = c2.bufs /\ n.err = err /\ n.keyOptions = options
  BY <1>1 DEF IsCommand, IsList, Noted
<1>3. n = [c EXCEPT !.bufs = n.bufs, !.err = n.err, !.keyOptions = n.keyOptions]
  BY <1>1 DEF IsCommand, Noted
<1>4. KeepsChosen(c, n)
  <2>1. n.call = c2.call /\ n.keyOptions = options
    BY <1>1 DEF IsCommand, Noted
  <2>2. KeepsChosen(c, c2)
    BY DEF Wrote
  <2> QED
    BY <2>1, <2>2 DEF KeepsChosen
<1> QED
  BY <1>2, <1>3, <1>4 DEF Wrote

\* The format that a key asks for is added to those of the keys before it.
LEMMA ChosenAdded ==
  ASSUME NEW call, NEW ix \in 1..Len(call.keys), NEW options, Chosen(call, options),
         NEW spec, spec = FormatOf(call, ix), spec # AUTO,
         NEW k, k = AsText(call.keys[ix]), NEW more, more = WithFormat(options, k, spec)
  PROVE  Chosen(call, more)
<1>1. /\ DOMAIN more = {k} \cup DOMAIN options
      /\ \A x \in DOMAIN more : more[x] = IF x = k THEN spec ELSE options[x]
  BY DEF WithFormat
<1>2. ASSUME NEW x \in DOMAIN more
      PROVE  \E i \in 1..Len(call.keys) : /\ AsText(call.keys[i]) = x
                                          /\ more[x] = FormatOf(call, i) /\ more[x] # AUTO
  <2>1. CASE x = k
    BY <1>1, <2>1
  <2>2. CASE x # k
    BY <1>1, <2>2 DEF Chosen
  <2> QED
    BY <2>1, <2>2
<1> QED
  BY <1>2 DEF Chosen

\* A value is taken as it is.
LEMMA ValueSlotIs ==
  ASSUME NEW slot, NEW dict, NEW name, IsParsed(slot, dict, name), OptionType[name] = "value"
  PROVE  /\ IsFound(slot) <=> name \in Properties(dict)
         /\ slot.v = IF name \in Properties(dict) THEN dict.f[name] ELSE None
BY DEF IsParsed, ParseValue, EmptySlot, Default, Slot, IsFound

\* The format of a key is the one that FormatOf reads off its call.
LEMMA FormatIs ==
  ASSUME NEW c, NEW h, NEW given, NEW ix, NEW own, InTurn(c, h, given, ix, own),
         "format" \in DOMAIN own, "format" \in Parameters[c.call.kind]
  PROVE  FormatOf(c.call, ix) =
           ToSpec(IF IsFound(own["format"]) THEN own["format"].v ELSE c.global["format"].v)
<1>1. PICK call, name : call = c.call /\ name = "format"
  OBVIOUS
<1>2. PICK slot : SlotsOf(call, ix, name, own[name], slot) /\ slot = c.global[name]
  BY <1>1, SlotsAre
<1>3. OptionType[name] = "value"
  BY <1>1 DEF OptionType
<1>4. /\ IsFound(own[name]) <=> name \in Properties(call.params[ix])
      /\ own[name].v = IF name \in Properties(call.params[ix]) THEN call.params[ix].f[name]
                                                                ELSE None
      /\ slot.v = IF name \in Properties(call.options) THEN call.options.f[name] ELSE None
  BY <1>2, <1>3, ValueSlotIs DEF SlotsOf
<1> QED
  BY <1>1, <1>2, <1>4 DEF FormatOf

\* GetCommand::handleSingle: an unknown format is noted, and the key goes on.
LEMMA GetHandled ==
  ASSUME NEW c, NEW h, NEW given, NEW ix, NEW own, InTurn(c, h, given, ix, own),
         NEW c2, NEW h2, NEW given2, NEW lcb, Named(c, h, given, ix, c2, h2, given2, lcb),
         NEW call, call = c.call, call.kind \in {"get", "lock"},
         NEW key, key = call.keys[ix],
         NEW r, r = HandleGet(c2, h2, lcb, own, ix, key)
  PROVE  Outcome(c, h, given, ix, r)
<1>1. /\ IsLcb(lcb) /\ lcb.bytes = NULL /\ lcb.path = NULL /\ lcb.content_type = NULL
      /\ lcb.body = NULL /\ c2.global = c.global /\ c2.err = c.err
      /\ Wrote(c, h, given, c2, h2, given2)
  BY NamedSame
<1>2. PICK opt : opt = Merge(own, c.global)
  OBVIOUS
<1>3. /\ {"expiry", "locktime", "format"} \subseteq Parameters[call.kind]
      /\ {"expiry", "locktime", "format"} \subseteq DOMAIN own
  <2>1. KeyParameters[call.kind] = {"expiry", "locktime", "format"}
        /\ Parameters[call.kind] = {"expiry", "locktime", "format"}
    <3>1. CASE call.kind = "get"
      BY <3>1 DEF KeyParameters, Parameters
    <3>2. CASE call.kind = "lock"
      BY <3>2 DEF KeyParameters, Parameters
    <3> QED
      BY <3>1, <3>2
  <2> QED
    BY <2>1 DEF InTurn
<1>4. PICK spec : spec = ToSpec(opt.format.v)
  OBVIOUS
<1>5. PICK exptime, lock :
        exptime = opt["locktime"].v /\ lock = IF IsFound(opt["locktime"]) THEN 1 ELSE 0
  OBVIOUS
<1>6. PICK options, err :
        /\ options = WithFormat(c2.keyOptions, AsText(key), spec)
        /\ err = (c2.err \/ spec = INVALID)
  OBVIOUS
<1>7. PICK noted : noted = Noted(c2, options, err)
  OBVIOUS
<1>8. PICK l : l = GetCmd(lcb, exptime, lock)
  OBVIOUS
<1>9. PICK n : n = IF IsFound(opt.format) /\ spec # AUTO THEN noted ELSE c2
  OBVIOUS
<1>10. r = Put(n, h2, ix, l)
  BY <1>1, <1>2, <1>4, <1>5, <1>6, <1>7, <1>8, <1>9 DEF HandleGet, GetCmd, Noted
<1>11. /\ Wrote(c, h, given, n, h2, given2) /\ (n.err => c.err \/ Tolerated(call, ix))
       /\ NotesFormat(call, ix, n.keyOptions)
  <2>1. PICK name : name = "format"
    OBVIOUS
  <2>2. /\ opt[name].v = IF IsFound(own[name]) THEN own[name].v ELSE c.global[name].v
        /\ IsFound(opt[name]) <=> IsFound(own[name]) \/ IsFound(c.global[name])
    BY <1>2, <1>3, <2>1, MergeIs
  <2>3. spec = FormatOf(call, ix)
    BY <1>3, <1>4, <2>1, <2>2, FormatIs
  <2>4. IsFound(opt.format) \/ spec = AUTO
    <3>1. PICK slot : SlotsOf(call, ix, name, own[name], slot) /\ slot = c.global[name]
      BY <1>3, <2>1, SlotsAre
    <3>2. ~IsFound(slot) => slot.v = None
      BY <2>1, <3>1, ValueSlotIs DEF SlotsOf, OptionType
    <3>3. ToSpec(None) = AUTO
      BY DEF ToSpec, None, Plain, Value
    <3> QED
      BY <1>4, <2>1, <2>2, <3>1, <3>2, <3>3
  <2>5. CASE ~(IsFound(opt.format) /\ spec # AUTO)
    <3>1. n = c2 /\ FormatOf(call, ix) = AUTO
      BY <1>9, <2>3, <2>4, <2>5
    <3> QED
      BY <1>1, <3>1 DEF NotesFormat
  <2>6. CASE IsFound(opt.format) /\ spec # AUTO
    <3>1. n = noted
      BY <1>9, <2>6
    <3>2. DOMAIN options = {AsText(key)} \cup DOMAIN c2.keyOptions
      BY <1>6 DEF WithFormat
    <3>3. Chosen(call, c2.keyOptions) => Chosen(call, options)
      BY <1>6, <2>3, <2>6, ChosenAdded DEF InTurn
    <3>4. c2.call = call
      BY NamedSame
    <3>5. Wrote(c, h, given, n, h2, given2) /\ n.err = err /\ n.keyOptions = options
      BY <1>1, <1>7, <3>1, <3>2, <3>3, <3>4, NotedIs
    <3> QED
      BY <1>1, <1>6, <2>3, <3>2, <3>5 DEF Tolerated, NotesFormat
  <2> QED
    BY <2>5, <2>6
<1>12. Filled(lcb, l) /\ IsLcb(l) /\ l.bytes = NULL /\ l.exptime = exptime /\ l.lock = lock
  BY <1>1, <1>8, FillLock DEF Filled
<1>13. /\ RightNumber(call, ix, "locktime", exptime)
       /\ call.kind = "get" => lock = IF Wants(call, ix, "locktime") THEN 1 ELSE 0
       /\ call.kind = "lock" => lock = 1
  <2>1. PICK name : name = "locktime"
    OBVIOUS
  <2>2. name \in Numeric /\ ~Ignored(call, ix, name)
    BY <2>1 DEF Numeric, NumberTypes, OptionType, Ignored
  <2>3. name \in DOMAIN own /\ name \in Parameters[call.kind]
    BY <1>3, <2>1
  <2>4. /\ RightNumber(call, ix, name, opt[name].v)
        /\ call.kind # "lock" => (IsFound(opt[name]) <=> Wants(call, ix, name))
    BY <1>2, <2>2, <2>3, OptionIs
  <2>5. IsFound(opt[name]) <=> IsFound(own[name]) \/ IsFound(c.global[name])
    BY <1>2, <2>3, MergeIs
  <2>6. call.kind = "lock" => IsFound(c.global[name])
    BY <2>1, <2>3 DEF InTurn, GlobalParsed
  <2> QED
    BY <1>5, <2>1, <2>4, <2>5, <2>6
<1>14. RightNumbers(call, ix, l)
  <2>1. CASE call.kind = "get"
    BY <1>12, <1>13, <2>1 DEF RightNumbers, Written, FieldOptions
  <2>2. CASE call.kind = "lock"
    BY <1>12, <1>13, <2>2 DEF RightNumbers, Written, FieldOptions
  <2> QED
    BY <2>1, <2>2
<1>15. RightRest(call, ix, l)
  BY <1>12, <1>13 DEF RightRest
<1>16. call.kind \notin {"http", "stats", "store"}
  OBVIOUS
<1> QED
  BY <1>10, <1>11, <1>12, <1>14, <1>15, <1>16, NumbersOutcome

\* StatsCommand::handleSingle has one key, and its text only.
LEMMA StatsHandled ==
  ASSUME NEW c, NEW h, NEW given, NEW ix, NEW own, InTurn(c, h, given, ix, own),
         NEW c2, NEW h2, NEW given2, NEW lcb, Named(c, h, given, ix, c2, h2, given2, lcb),
         NEW call, call = c.call, call.kind = "stats",
         NEW r, r = HandleStats(c2, h2, lcb, ix)
  PROVE  Outcome(c, h, given, ix, r)
<1>1. /\ c2.err = c.err /\ Good(c, h, given) /\ Wrote(c, h, given, c2, h2, given2)
      /\ c.list.ncmds = 1
  BY NamedSame DEF HasDefaultString
<1>2. CASE ix # 1
  <2>1. r = Fails(c2, h2)
    BY <1>2 DEF HandleStats
  <2> QED
    BY <1>1, <2>1, FailsOutcome
<1>3. CASE ix = 1
  <2>1. PICK key : key = lcb.key
    OBVIOUS
  <2>2. key \in given2 \cup {NULL, StaticEmpty} /\ Read(h2, key) = AsText(call.keys[ix])
    BY <2>1 DEF Named
  <2>3. PICK l : l = [ZeroCmd EXCEPT !.key = key]
    OBVIOUS
  <2>4. r = Put(c2, h2, ix, l)
    BY <1>3, <2>1, <2>3 DEF HandleStats
  <2>5. /\ IsLcb(l) /\ l.key = key /\ l.hashkey = NULL /\ l.bytes = NULL /\ l.path = NULL
        /\ l.content_type = NULL /\ l.body = NULL
    BY <2>3 DEF IsLcb, ZeroCmd
  <2>6. IsEntry(l, given2)
    BY <2>2, <2>5 DEF IsEntry, StringsOf
  <2>7. PICK e : e = AsRead(l, h2)
    OBVIOUS
  <2>8. e.key = AsText(call.keys[ix])
    BY <2>2, <2>5, <2>7, AsReadIs
  <2>9. Right(call, ix, e)
    BY <2>8 DEF Right, RightTexts, RightRest, RightNumbers, RightForm, Written, FieldOptions
  <2> QED
    BY <1>1, <1>3, <2>4, <2>6, <2>7, <2>9, PutOutcome
<1> QED
  BY <1>2, <1>3

\* More strings may be written before the command is.
LEMMA NamedKept ==
  ASSUME NEW c, NEW h, NEW given, NEW ix, NEW own, InTurn(c, h, given, ix, own),
         NEW c2, NEW h2, NEW given2, NEW lcb, Named(c, h, given, ix, c2, h2, given2, lcb),
         NEW c3, NEW h3, NEW given3, Wrote(c2, h2, given2, c3, h3, given3), c3.err = c2.err
  PROVE  Named(c, h, given, ix, c3, h3, given3, lcb)
<1>1. IsCommand(c) /\ Room(c.bufs, h, given)
  BY DEF InTurn, Good, Ready
<1>2. Wrote(c, h, given, c3, h3, given3)
  BY <1>1, WroteTwice DEF Named
<1>3. /\ lcb.key \in given2 \cup {NULL, StaticEmpty}
      /\ lcb.hashkey \in given2 \cup {NULL, StaticEmpty}
      /\ given2 \subseteq given3 /\ Kept(c2.bufs, h2, given2, c3.bufs, h3)
  BY DEF Named, Wrote
<1>4. Read(h3, lcb.key) = Read(h2, lcb.key) /\ Read(h3, lcb.hashkey) = Read(h2, lcb.hashkey)
  BY <1>3, KeptReads
<1> QED
  BY <1>2, <1>3, <1>4 DEF Named

\* The bytes of a value tell what it was.
LEMMA BytesAre ==
  ASSUME NEW as, as # "string", NEW v, NEW b, b = Bytes(as, v)
  PROVE  b.of = v /\ b.n = v.n /\ b # EmptyText
<1>1. b.of = v /\ b.n = v.n /\ b.t = as
  BY DEF Bytes
<1>2. EmptyText.t = "string"
  BY DEF EmptyText
<1> QED
  BY <1>1, <1>2

\* The parts of a result of encode.
LEMMA EncodedIs ==
  ASSUME NEW flags, NEW bytes, NEW literal \in BOOLEAN, NEW x, x = Encoded(flags, bytes, literal)
  PROVE  x.bytes = bytes /\ x.literal = literal
BY DEF Encoded

\* Bytes are those of a value, and are left out only if it is the empty text.
Encodes(x, v) ==
  /\ x.literal \in BOOLEAN /\ (x.literal => v = EmptyText)
  /\ ~x.literal => x.bytes.of = v /\ x.bytes # EmptyText /\ x.bytes.n \in Nat

\* EncodeUtf8: only strings have that form.
LEMMA EncodeUtf8Is ==
  ASSUME NEW v, WellFormed(v), NEW flags, NEW x, x = EncodeUtf8(v, flags), x.ok
  PROVE  Encodes(x, v)
<1>1. v.t = "string"
  BY DEF EncodeUtf8, Failure
<1>2. PICK bytes : bytes = Bytes("utf8", v)
  OBVIOUS
<1>3. bytes.of = v /\ bytes.n = v.n /\ bytes # EmptyText
  BY <1>2, BytesAre
<1>4. v.n \in Nat /\ (v.n = 0 => v = EmptyText)
  BY <1>1 DEF WellFormed
<1>5. CASE v.n = 0
  <2>1. x = Encoded(flags, bytes, TRUE)
    BY <1>1, <1>2, <1>5 DEF EncodeUtf8
  <2>2. x.literal = TRUE
    BY <2>1, EncodedIs
  <2> QED
    BY <1>4, <1>5, <2>2 DEF Encodes
<1>6. CASE v.n # 0
  <2>1. x = Encoded(flags, bytes, FALSE)
    BY <1>1, <1>2, <1>6 DEF EncodeUtf8
  <2>2. x.literal = FALSE /\ x.bytes = bytes
    BY <2>1 DEF Encoded
  <2> QED
    BY <1>3, <1>4, <2>2 DEF Encodes
<1> QED
  BY <1>5, <1>6

\* What encode does once it has chosen the format.
EncodeAs(v, actual) ==
  CASE actual = UTF8 -> EncodeUtf8(v, UTF8)
    [] actual = RAW -> IF v.t = "Buffer" THEN Encoded(RAW, Bytes("raw", v), FALSE)
                                         ELSE EncodeUtf8(v, RAW)
    [] actual = JSON -> IF HasJson(v) THEN Encoded(JSON, JsonText(v), FALSE) ELSE Failure
    [] OTHER -> Failure

\* Encode: the bytes of a value are its own.
LEMMA EncodeIs ==
  ASSUME NEW v, WellFormed(v), NEW spec, NEW x, x = Encode(v, spec), x.ok
  PROVE  Encodes(x, v)
<1>1. PICK actual : x = EncodeAs(v, actual)
  BY DEF Encode, EncodeAs
<1>2. CASE actual = UTF8
  <2>1. x = EncodeUtf8(v, UTF8)
    BY <1>1, <1>2 DEF EncodeAs, RAW, UTF8, JSON
  <2> QED
    BY <2>1, EncodeUtf8Is
<1>3. CASE actual = RAW /\ v.t # "Buffer"
  <2>1. x = EncodeUtf8(v, RAW)
    BY <1>1, <1>3 DEF EncodeAs, RAW, UTF8, JSON
  <2> QED
    BY <2>1, EncodeUtf8Is
<1>4. CASE actual = RAW /\ v.t = "Buffer"
  <2>1. PICK bytes : bytes = Bytes("raw", v)
    OBVIOUS
  <2>2. x = Encoded(RAW, bytes, FALSE)
    BY <1>1, <1>4, <2>1 DEF EncodeAs, RAW, UTF8, JSON
  <2>3. x.bytes = bytes /\ x.literal = FALSE
    BY <2>2, EncodedIs
  <2>4. bytes.of = v /\ bytes.n = v.n /\ bytes # EmptyText
    BY <2>1, BytesAre
  <2> QED
    BY <1>4, <2>3, <2>4 DEF Encodes, WellFormed
<1>5. CASE actual \notin {UTF8, RAW}
  <2>1. PICK bytes : bytes = JsonText(v)
    OBVIOUS
  <2>2. x = Encoded(JSON, bytes, FALSE)
    <3>1. CASE actual = JSON /\ HasJson(v)
      BY <1>1, <2>1, <3>1 DEF EncodeAs, RAW, UTF8, JSON
    <3>2. CASE ~(actual = JSON /\ HasJson(v))
      <4>1. x = Failure
        BY <1>1, <1>5, <3>2 DEF EncodeAs
      <4> QED
        BY <4>1 DEF Failure
    <3> QED
      BY <3>1, <3>2
  <2>3. x.bytes = bytes /\ x.literal = FALSE
    BY <2>2, EncodedIs
  <2>4. /\ bytes.of = v /\ bytes.t = "json"
        /\ bytes.n = IF v.t = "number" THEN 1 ELSE v.n + 2
    BY <2>1 DEF JsonText, Bytes
  <2>5. bytes # EmptyText
    <3>1. EmptyText.t = "string"
      BY DEF EmptyText
    <3> QED
      BY <2>4, <3>1
  <2>6. bytes.n \in Nat
    BY <2>4 DEF WellFormed
  <2> QED
    BY <2>3, <2>4, <2>5, <2>6 DEF Encodes
<1> QED
  BY <1>2, <1>3, <1>4, <1>5

\* What is kept of a value, and how it comes back.
ThatForm(bytes, flags, v, spec) ==
  Restores(bytes, flags, v, spec) /\ (spec # AUTO => flags = spec)

KeptOf(x) == IF x.literal THEN EmptyText ELSE x.bytes

\* A string comes back as it is, and as a Buffer of its bytes.
LEMMA Utf8Form ==
  ASSUME NEW v, WellFormed(v), NEW flags, NEW x, x = EncodeUtf8(v, flags), x.ok,
         NEW b, b = KeptOf(x)
  PROVE  /\ v.t = "string" /\ x.flags = flags /\ b.t # "json"
         /\ AsString(b) = v /\ AsBuffer(b) = Value("Buffer", v.n, v.s)
<1>1. v.t = "string"
  BY DEF EncodeUtf8, Failure
<1>2. PICK bytes : bytes = Bytes("utf8", v)
  OBVIOUS
<1>3. bytes.of = v /\ bytes.n = v.n /\ bytes.s = v.s /\ bytes.t = "utf8"
  BY <1>2 DEF Bytes
<1>4. CASE v.n = 0
  <2>1. x = Encoded(flags, bytes, TRUE) /\ v = EmptyText
    BY <1>1, <1>2, <1>4 DEF EncodeUtf8, WellFormed
  <2>2. b = EmptyText /\ x.flags = flags
    BY <2>1 DEF Encoded, KeptOf
  <2> QED
    BY <1>1, <2>1, <2>2 DEF AsString, AsBuffer, EmptyText, Str, Value
<1>5. CASE v.n # 0
  <2>1. x = Encoded(flags, bytes, FALSE)
    BY <1>1, <1>2, <1>5 DEF EncodeUtf8
  <2>2. b = bytes /\ x.flags = flags
    BY <2>1 DEF Encoded, KeptOf
  <2> QED
    BY <1>1, <1>3, <2>2 DEF AsString, AsBuffer
<1> QED
  BY <1>4, <1>5

\* Encode and decode: a value comes back in the format it was encoded in, and
\* the flags tell which that is.
LEMMA FormIs ==
  ASSUME NEW v, WellFormed(v), NEW spec, NEW x, x = Encode(v, spec), x.ok,
         NEW b, b = KeptOf(x)
  PROVE  ThatForm(b, x.flags, v, spec)
<1>1. PICK actual : actual = IF spec = AUTO THEN AutoSpec(v) ELSE spec
  OBVIOUS
<1>2. x = EncodeAs(v, actual)
  BY <1>1 DEF Encode, EncodeAs
<1>3. CASE actual = UTF8
  <2>1. x = EncodeUtf8(v, UTF8)
    BY <1>2, <1>3 DEF EncodeAs, RAW, UTF8, JSON
  <2>2. x.flags = UTF8 /\ AsString(b) = v
    BY <2>1, Utf8Form
  <2>3. Decode(b, x.flags) = v
    BY <2>2 DEF Decode, UTF8, JSON
  <2>4. spec \in {AUTO, UTF8}
    BY <1>1, <1>3
  <2>5. InForm(v, spec) = v
    BY <2>4 DEF InForm, RAW, AUTO, UTF8, JSON
  <2> QED
    BY <2>2, <2>3, <2>4, <2>5 DEF ThatForm, Restores
<1>4. CASE actual = RAW /\ v.t # "Buffer"
  <2>1. x = EncodeUtf8(v, RAW)
    BY <1>2, <1>4 DEF EncodeAs, RAW, UTF8, JSON
  <2>2. x.flags = RAW /\ AsBuffer(b) = Value("Buffer", v.n, v.s)
    BY <2>1, Utf8Form
  <2>3. Decode(b, x.flags) = Value("Buffer", v.n, v.s)
    BY <2>2 DEF Decode, UTF8, JSON, RAW
  <2>4. spec = RAW
    BY <1>1, <1>4 DEF AutoSpec, RAW, JSON, UTF8
  <2>5. InForm(v, spec) = Value("Buffer", v.n, v.s)
    BY <1>4, <2>4 DEF InForm, RAW, AUTO, UTF8, JSON
  <2> QED
    BY <2>2, <2>3, <2>4, <2>5 DEF ThatForm, Restores
<1>5. CASE actual = RAW /\ v.t = "Buffer"
  <2>1. PICK bytes : bytes = Bytes("raw", v)
    OBVIOUS
  <2>2. x = Encoded(RAW, bytes, FALSE)
    BY <1>2, <1>5, <2>1 DEF EncodeAs, RAW, UTF8, JSON
  <2>3. b = bytes /\ x.flags = RAW
    BY <2>2 DEF Encoded, KeptOf
  <2>4. b.t = "raw" /\ b.of = v
    BY <2>1, <2>3 DEF Bytes
  <2>5. Decode(b, x.flags) = v
    BY <2>3, <2>4 DEF Decode, AsBuffer, UTF8, JSON, RAW
  <2>6. spec \in {AUTO, RAW}
    BY <1>1, <1>5
  <2>7. InForm(v, spec) = v
    BY <1>5, <2>6 DEF InForm, RAW, AUTO, UTF8, JSON
  <2> QED
    BY <2>3, <2>5, <2>6, <2>7 DEF ThatForm, Restores
<1>6. CASE actual \notin {UTF8, RAW}
  <2>1. PICK bytes : bytes = JsonText(v)
    OBVIOUS
  <2>2. x = Encoded(JSON, bytes, FALSE) /\ actual = JSON
    <3>1. CASE actual = JSON /\ HasJson(v)
      BY <1>2, <2>1, <3>1 DEF EncodeAs, RAW, UTF8, JSON
    <3>2. CASE ~(actual = JSON /\ HasJson(v))
      <4>1. x = Failure
        BY <1>2, <1>6, <3>2 DEF EncodeAs
      <4> QED
        BY <4>1 DEF Failure
    <3> QED
      BY <3>1, <3>2
  <2>3. b = bytes /\ x.flags = JSON
    BY <2>2 DEF Encoded, KeptOf
  <2>4. b.t = "json" /\ b.of = v
    BY <2>1, <2>3 DEF JsonText, Bytes
  <2>5. Decode(b, x.flags) = FromJson(v)
    BY <2>3, <2>4 DEF Decode, UTF8, JSON
  <2>6. CASE spec = JSON
    <3>1. InForm(v, spec) = FromJson(v)
      BY <2>6 DEF InForm, RAW, AUTO, UTF8, JSON
    <3> QED
      BY <2>3, <2>5, <2>6, <3>1 DEF ThatForm, Restores
  <2>7. CASE spec = AUTO
    <3>1. v.t # "Buffer"
      BY <1>1, <2>2, <2>7 DEF AutoSpec, RAW, JSON, UTF8
    <3>2. InForm(v, spec) = v
      BY <2>7 DEF InForm, RAW, AUTO, UTF8, JSON
    <3>3. FromJson(v) = v
      BY <3>1 DEF FromJson
    <3> QED
      BY <2>5, <2>7, <3>2, <3>3 DEF ThatForm, Restores
  <2> QED
    BY <1>1, <2>2, <2>6, <2>7
<1> QED
  BY <1>3, <1>4, <1>5, <1>6

\* A text that is put into the list of a Command.
PutInto(c, h, text, put, d, g, ptr) ==
  /\ text.n \in Nat /\ put = PutText(h, c.bufs, text.n, text) /\ put.ptr # NULL
  /\ d = [c EXCEPT !.bufs = put.list] /\ g = put.heap /\ ptr = put.ptr

\* It is found there; an empty one gets no buffer.
LEMMA PutWrote ==
  ASSUME NEW c, NEW h, NEW given, Ready(c, h, given), NEW text, NEW put, NEW d, NEW g, NEW ptr,
         PutInto(c, h, text, put, d, g, ptr)
  PROVE  /\ Wrote(c, h, given, d, g, given \cup {ptr}) /\ d.err = c.err
         /\ Read(g, ptr) = text
<1>1. PICK b, len : b = c.bufs /\ len = text.n
  OBVIOUS
<1>2. IsCommand(c) /\ Room(b, h, given) /\ len \in Nat /\ put = PutText(h, b, len, text)
  BY <1>1 DEF Ready, PutInto
<1>3. CASE len = 0
  <2>1. PICK fresh : fresh = h.last + 1
    OBVIOUS
  <2>2. GetBuffer(b, len, fresh) = [list |-> b, ptr |-> NULL, size |-> 0]
    BY <1>3 DEF GetBuffer
  <2>3. put.ptr = NULL
    BY <1>2, <2>1, <2>2 DEF PutText
  <2> QED
    BY <2>3 DEF PutInto
<1>4. CASE len # 0
  <2>1. TextPut(b, h, given, len, text, put)
    BY <1>2, <1>4, PutTextIs
  <2>2. PICK list : list = put.list /\ ptr = put.ptr /\ g = put.heap
    BY DEF PutInto
  <2>3. /\ Room(list, g, given \cup {ptr}) /\ Kept(b, h, given, list, g)
        /\ ptr \in BufPointers /\ ptr.len = len
        /\ \A q \in BufPointers :
             q.block = ptr.block /\ q.from = ptr.from /\ q.len <= len /\ text.n = q.len
             => Read(g, q) = text
    BY <2>1, <2>2 DEF TextPut
  <2>4. Read(g, ptr) = text
    BY <1>1, <1>2, <2>3
  <2>5. IsCommand(d) /\ d.err = c.err /\ d.bufs = list /\ KeepsChosen(c, d)
    BY <1>2, <2>2, BufsIs, KeepsSame DEF PutInto
  <2>6. d = [c EXCEPT !.bufs = d.bufs, !.err = d.err, !.keyOptions = d.keyOptions]
    BY <1>2, <2>2 DEF IsCommand, PutInto
  <2> QED
    BY <1>1, <2>2, <2>3, <2>4, <2>5, <2>6 DEF Wrote
<1> QED
  BY <1>3, <1>4

\* A store writes its bytes and numbers into a command that was named.
StoreCmd(lcb, bytes, cas, exptime, flags) ==
  [lcb EXCEPT !.bytes = bytes, !.cas = cas, !.exptime = exptime, !.flags = flags]

\* They are all written.
LEMMA FillStore ==
  ASSUME NEW lcb, IsLcb(lcb), lcb.path = NULL, lcb.content_type = NULL, lcb.body = NULL,
         NEW bytes, NEW cas, NEW exptime, NEW flags,
         NEW l, l = StoreCmd(lcb, bytes, cas, exptime, flags)
  PROVE  /\ Filled(lcb, l) /\ l.bytes = bytes /\ l.cas = cas /\ l.exptime = exptime
         /\ l.flags = flags
<1>1. IsLcb(l)
  BY DEF IsLcb, StoreCmd
<1>2. /\ l.key = lcb.key /\ l.hashkey = lcb.hashkey /\ l.bytes = bytes
      /\ l.path = lcb.path /\ l.content_type = lcb.content_type /\ l.body = lcb.body
      /\ l.cas = cas /\ l.exptime = exptime /\ l.flags = flags
  BY DEF IsLcb, StoreCmd
<1> QED
  BY <1>1, <1>2 DEF Filled

\* The options of a store: otherwise is what its flags are if they are not given.
StoreOptions(own, global, otherwise, cas, exptime, flags) ==
  /\ cas = own["cas"].v
  /\ exptime = IF IsFound(own["expiry"]) THEN own["expiry"].v ELSE global["expiry"].v
  /\ flags = IF IsFound(own["flags"]) THEN own["flags"].v ELSE otherwise

\* The bytes of a value, or nothing if there are none.
BytesOf(text, v) == (text # EmptyText => text.of = v) /\ (text = EmptyText => v = EmptyText)

\* A store whose bytes are there becomes the right command.
LEMMA StoreNumbers ==
  ASSUME NEW c, NEW h, NEW given, NEW ix, NEW own, InTurn(c, h, given, ix, own),
         NEW c3, NEW h3, NEW given3, NEW lcb, Named(c, h, given, ix, c3, h3, given3, lcb),
         NEW call, call = c.call, call.kind = "store",
         NEW bytes, bytes \in given3 \cup {NULL, StaticEmpty}, NEW text, text = Read(h3, bytes),
         NEW v, v = call.params[ix].f.value, BytesOf(text, v),
         NEW otherwise, NEW cas, NEW exptime, NEW flags,
         StoreOptions(own, c.global, otherwise, cas, exptime, flags),
         NEW spec, spec = FormatOf(call, ix), ThatForm(text, otherwise, v, spec),
         NEW l, l = StoreCmd(lcb, bytes, cas, exptime, flags), NEW r, r = Put(c3, h3, ix, l)
  PROVE  Outcome(c, h, given, ix, r)
<1>1. /\ IsLcb(lcb) /\ lcb.path = NULL /\ lcb.content_type = NULL /\ lcb.body = NULL
      /\ c3.err = c.err /\ Good(c, h, given) /\ Wrote(c, h, given, c3, h3, given3)
      /\ c.list.ncmds = Len(call.keys)
  BY NamedSame DEF HasDefaultString
<1>2. /\ Filled(lcb, l) /\ IsLcb(l) /\ l.bytes = bytes /\ l.cas = cas /\ l.exptime = exptime
      /\ l.flags = flags
  <2>1. IsLcb(lcb) /\ lcb.path = NULL /\ lcb.content_type = NULL /\ lcb.body = NULL
    BY <1>1
  <2>2. Filled(lcb, l) /\ l.bytes = bytes /\ l.cas = cas /\ l.exptime = exptime /\ l.flags = flags
    BY <2>1, FillStore
  <2> QED
    BY <2>2 DEF Filled
<1>3. {"cas", "expiry", "flags"} \subseteq Numeric
  BY DEF Numeric, NumberTypes, OptionType
<1>4. /\ {"cas", "expiry", "flags"} \subseteq DOMAIN own
      /\ {"cas", "expiry", "flags"} \subseteq Parameters[call.kind]
  BY DEF InTurn, KeyParameters, Parameters
<1>5. /\ Ignored(call, ix, "cas") /\ Ignored(call, ix, "flags")
      /\ ~Ignored(call, ix, "expiry")
  BY DEF Ignored
<1>6. RightNumber(call, ix, "cas", cas)
  BY <1>3, <1>4, <1>5, OwnIs DEF StoreOptions
<1>7. RightNumber(call, ix, "expiry", exptime)
  BY <1>3, <1>4, <1>5, MergedIs DEF StoreOptions
<1>8. /\ Wants(call, ix, "flags") => flags = Wanted(call, ix, "flags")
      /\ ~Given(call.params[ix], "flags") => flags = otherwise
  <2>1. PICK name : name = "flags"
    OBVIOUS
  <2>2. /\ RightNumber(call, ix, name, own[name].v)
        /\ IsFound(own[name]) <=> Wants(call, ix, name)
    BY <1>3, <1>4, <1>5, <2>1, OwnIs
  <2>3. OptionType[name] # "uint64"
    BY <2>1 DEF OptionType
  <2>4. ~Given(call.params[ix], name) => ~Wants(call, ix, name)
    BY <1>5, <2>1, WantedIs DEF OfKey
  <2> QED
    BY <2>1, <2>2, <2>3, <2>4 DEF RightNumber, Arrives, StoreOptions
<1>9. RightNumbers(call, ix, l) /\ RightRest(call, ix, l)
  BY <1>2, <1>6, <1>7, <1>8 DEF RightNumbers, RightRest, Written, FieldOptions
<1>10. PICK e : e = AsRead(l, h3)
  OBVIOUS
<1>11. /\ IsEntry(l, given3) /\ e.key = AsText(call.keys[ix]) /\ e.hashkey = HashText(call, ix)
       /\ e.bytes = text /\ e.flags = flags
  BY <1>2, <1>10, FilledIs
<1>12. RightTexts(call, ix, e)
  BY <1>11 DEF RightTexts, BytesOf
<1>13. RightNumbers(call, ix, e) /\ RightRest(call, ix, e)
  <2>1. call.kind \in Kinds
    BY DEF Kinds
  <2> QED
    BY <1>2, <1>9, <1>10, <2>1, NumbersRead
<1>14. ix \in 1..c.list.ncmds
  BY <1>1 DEF InTurn
<1>15. RightForm(call, ix, e)
  BY <1>8, <1>11 DEF RightForm, ThatForm
<1>16. Right(call, ix, e)
  BY <1>12, <1>13, <1>15 DEF Right
<1> QED
  BY <1>1, <1>10, <1>11, <1>14, <1>16, PutOutcome

\* StoreCommand::handleSingle: the value is encoded, put into the list, and set.
LEMMA StoreHandled ==
  ASSUME NEW c, NEW h, NEW given, NEW ix, NEW own, InTurn(c, h, given, ix, own),
         NEW c2, NEW h2, NEW given2, NEW lcb, Named(c, h, given, ix, c2, h2, given2, lcb),
         NEW call, call = c.call, call.kind = "store",
         NEW r, r = HandleStore(c2, h2, lcb, own, ix)
  PROVE  Outcome(c, h, given, ix, r)
<1>1. /\ c2.global = c.global /\ c2.err = c.err
      /\ Good(c, h, given) /\ Wrote(c, h, given, c2, h2, given2)
  BY NamedSame
<1>2. PICK v : v = call.params[ix].f.value
  OBVIOUS
<1>3. own.value.v = v /\ WellFormed(v)
  <2>1. PICK name : name = "value"
    OBVIOUS
  <2>2. name \in DOMAIN own /\ OptionType[name] = "value"
    BY <2>1 DEF InTurn, KeyParameters, Parameters, OptionType
  <2>3. Sensible(call) /\ ix \in 1..Len(call.keys)
    BY DEF InTurn
  <2>4. ix \in DOMAIN call.keys
    BY <2>3, SensibleIs
  <2>5. name \in Properties(call.params[ix])
    BY <2>1, <2>3, <2>4 DEF Sensible
  <2>6. IsParsed(own[name], call.params[ix], name) /\ WellFormed(call.params[ix].f[name])
    BY <2>2, <2>5, SlotsAre
  <2>7. own[name].v = call.params[ix].f[name]
    BY <2>2, <2>5, <2>6, ValueSlotIs
  <2> QED
    BY <1>2, <2>1, <2>6, <2>7
<1>4. PICK spec : spec = ToSpec(IF IsFound(own.format) THEN own.format.v ELSE c.global.format.v)
  OBVIOUS
<1>5. PICK value : value = Encode(v, spec)
  OBVIOUS
<1>6. PICK text : text = value.bytes
  OBVIOUS
<1>7. PICK put : put = PutText(h2, c2.bufs, text.n, text)
  OBVIOUS
<1>8. PICK d : d = [c2 EXCEPT !.bufs = put.list]
  OBVIOUS
<1>9. PICK c3, h3, where :
        /\ c3 = IF value.literal THEN c2 ELSE d
        /\ h3 = IF value.literal THEN h2 ELSE put.heap
        /\ where = IF value.literal THEN StaticEmpty ELSE put.ptr
  OBVIOUS
<1>10. PICK cas, exptime, flags :
         StoreOptions(own, c.global, value.flags, cas, exptime, flags)
  BY DEF StoreOptions
<1>11. PICK l : l = StoreCmd(lcb, where, cas, exptime, flags)
  OBVIOUS
<1>12. r = IF ~value.ok \/ where = NULL THEN Fails(c2, h2) ELSE Put(c3, h3, ix, l)
  <2>1. value = Encode(own.value.v, spec) /\ put = PutText(h2, c2.bufs, value.bytes.n, value.bytes)
    BY <1>3, <1>5, <1>6, <1>7
  <2>2. CASE value.literal
    BY <1>1, <1>4, <1>9, <1>10, <1>11, <2>1, <2>2 DEF HandleStore, StoreCmd, StoreOptions
  <2>3. CASE ~value.literal
    BY <1>1, <1>4, <1>8, <1>9, <1>10, <1>11, <2>1, <2>3 DEF HandleStore, StoreCmd, StoreOptions
  <2> QED
    BY <2>2, <2>3
<1>13. CASE ~value.ok \/ where = NULL
  <2>1. r = Fails(c2, h2)
    BY <1>12, <1>13
  <2> QED
    BY <1>1, <2>1, FailsOutcome
<1>14. CASE value.ok /\ where # NULL
  <2>1. r = Put(c3, h3, ix, l)
    BY <1>12, <1>14
  <2>2. Encodes(value, v)
    BY <1>3, <1>5, <1>14, EncodeIs
  <2>5. spec = FormatOf(call, ix)
    <3>1. "format" \in DOMAIN own /\ "format" \in Parameters[call.kind]
      BY DEF InTurn, KeyParameters, Parameters
    <3> QED
      BY <1>4, <3>1, FormatIs
  <2>6. PICK kept : kept = KeptOf(value)
    OBVIOUS
  <2>7. ThatForm(kept, value.flags, v, spec)
    BY <1>3, <1>5, <1>14, <2>6, FormIs
  <2>3. CASE value.literal
    <3>1. c3 = c2 /\ h3 = h2 /\ where = StaticEmpty /\ v = EmptyText
      BY <1>9, <2>2, <2>3 DEF Encodes
    <3>2. Read(h2, StaticEmpty) = EmptyText
      BY ReadNothing
    <3>3. /\ Named(c, h, given, ix, c3, h3, given2, lcb)
          /\ where \in given2 \cup {NULL, StaticEmpty}
      BY <3>1
    <3>4. PICK none : none = Read(h3, where)
      OBVIOUS
    <3>5. BytesOf(none, v)
      BY <3>1, <3>2, <3>4 DEF BytesOf
    <3>6. kept = none
      BY <2>3, <2>6, <3>1, <3>2, <3>4 DEF KeptOf
    <3>7. ThatForm(none, value.flags, v, spec)
      BY <2>7, <3>6
    <3> QED
      BY <1>2, <1>10, <1>11, <2>1, <2>5, <3>3, <3>4, <3>5, <3>7, StoreNumbers
  <2>4. CASE ~value.literal
    <3>1. c3 = d /\ h3 = put.heap /\ where = put.ptr
      BY <1>9, <2>4
    <3>2. text.of = v /\ text # EmptyText /\ text.n \in Nat
      BY <1>6, <2>2, <2>4 DEF Encodes
    <3>3. PICK given3 : given3 = given2 \cup {where}
      OBVIOUS
    <3>4. Ready(c2, h2, given2)
      BY <1>1 DEF Wrote, Ready
    <3>5. /\ Wrote(c2, h2, given2, c3, h3, given3) /\ c3.err = c2.err
          /\ Read(h3, where) = text
      <4>1. PutInto(c2, h2, text, put, c3, h3, where)
        BY <1>7, <1>8, <1>14, <3>1, <3>2 DEF PutInto
      <4> QED
        BY <3>3, <3>4, <4>1, PutWrote
    <3>6. Named(c, h, given, ix, c3, h3, given3, lcb)
      BY <3>5, NamedKept
    <3>7. where \in given3 \cup {NULL, StaticEmpty}
      BY <3>3
    <3>8. BytesOf(text, v)
      BY <3>2 DEF BytesOf
    <3>9. ThatForm(text, value.flags, v, spec)
      BY <1>6, <2>4, <2>6, <2>7 DEF KeptOf
    <3> QED
      BY <1>2, <1>10, <1>11, <2>1, <2>5, <3>5, <3>6, <3>7, <3>8, <3>9, StoreNumbers
  <2> QED
    BY <2>3, <2>4
<1> QED
  BY <1>13, <1>14

\* The text of a string that is found is that of the option.
LEMMA StringSlotIs ==
  ASSUME NEW slot, NEW dict, NEW name, IsParsed(slot, dict, name), OptionType[name] = "string",
         name \in Properties(dict) => WellFormed(dict.f[name])
  PROVE  /\ IsFound(slot) <=> name \in Properties(dict)
         /\ IsFound(slot) <=> Given(dict, name)
         /\ IsFound(slot) => /\ slot.v = AsText(dict.f[name])
                             /\ HasText(slot.v) /\ AsText(slot.v) = slot.v
                             /\ IsFalsy(slot.v) => slot.v = EmptyText
<1>1. CASE name \notin Properties(dict)
  BY <1>1 DEF IsParsed, EmptySlot, Slot, IsFound, Given
<1>2. CASE name \in Properties(dict)
  <2>1. PICK v : v = dict.f[name]
    OBVIOUS
  <2>2. WellFormed(v) /\ slot = ParseValue(name, v) /\ slot.status # "error"
    BY <1>2, <2>1 DEF IsParsed
  <2>3. slot = IF v.t \in {"number", "string"} THEN Slot("found", AsText(v))
                                              ELSE Slot("error", None)
    BY <2>2 DEF ParseValue
  <2>4. v.t \in {"number", "string"} /\ slot.status = "found" /\ slot.v = AsText(v)
    BY <2>2, <2>3 DEF Slot
  <2>5. ~SetsFalse(v)
    BY <2>4 DEF SetsFalse
  <2>6. PICK s : s = AsText(v)
    OBVIOUS
  <2>7. s.t = "string" /\ s.n \in Nat /\ (s.n = 0 => s = EmptyText)
    <3>1. CASE v.t = "string"
      BY <2>2, <2>6, <3>1 DEF AsText, WellFormed
    <3>2. CASE v.t = "number"
      BY <2>2, <2>6, <3>2 DEF AsText, Str, Value, WellFormed
    <3> QED
      BY <2>4, <3>1, <3>2
  <2>8. AsText(s) = s
    BY <2>7 DEF AsText
  <2>9. IsFalsy(s) => s = EmptyText
    BY <2>7 DEF IsFalsy
  <2> QED
    BY <1>2, <2>1, <2>4, <2>5, <2>6, <2>7, <2>8, <2>9 DEF IsFound, Given, HasText
<1> QED
  BY <1>1, <1>2

\* Every value has a text.
LEMMA AnyText ==
  ASSUME NEW v, WellFormed(v)
  PROVE  HasText(v)
<1>1. CASE v.t = "string"
  BY <1>1 DEF AsText, WellFormed, HasText
<1>2. CASE v.t = "number"
  BY <1>2 DEF AsText, Str, Value, WellFormed, HasText
<1>3. CASE v.t \notin {"string", "number"}
  <2>1. AsText(v) = EmptyText /\ EmptyText.n = 0
    BY <1>3 DEF AsText, Str, Value, EmptyText
  <2> QED
    BY <2>1 DEF HasText
<1> QED
  BY <1>1, <1>2, <1>3

\* What came of a step on a Command.
Parts(r, c, h, ptr) == c = r.cmd /\ h = r.heap /\ ptr = r.ptr

\* One more text was written.
LEMMA BackedThen ==
  ASSUME NEW c, NEW h, NEW given, Ready(c, h, given),
         NEW c2, NEW h2, NEW given2, Wrote(c, h, given, c2, h2, given2),
         NEW text, NEW r, Backed(c2, h2, given2, text, r),
         NEW c3, NEW h3, NEW ptr, Parts(r, c3, h3, ptr), NEW given3, given3 = With(given2, ptr)
  PROVE  /\ Wrote(c, h, given, c3, h3, given3) /\ Ready(c3, h3, given3)
         /\ ptr \in given3 \cup {NULL, StaticEmpty} /\ given2 \subseteq given3
         /\ \A p \in given2 \cup {NULL, StaticEmpty} : Read(h3, p) = Read(h2, p)
         /\ r.ok => c3.err = c2.err /\ Read(h3, ptr) = text
<1>1. /\ Wrote(c2, h2, given2, c3, h3, given3)
      /\ r.ok => c3.err = c2.err /\ Read(h3, ptr) = text
  BY DEF Backed, Parts
<1>2. Wrote(c, h, given, c3, h3, given3)
  BY <1>1, WroteTwice DEF Ready
<1>3. Ready(c3, h3, given3)
  BY <1>2 DEF Wrote, Ready
<1>4. ptr \in given3 \cup {NULL, StaticEmpty} /\ given2 \subseteq given3
  BY DEF With
<1>5. \A p \in given2 \cup {NULL, StaticEmpty} : Read(h3, p) = Read(h2, p)
  BY <1>1, KeptReads DEF Wrote
<1> QED
  BY <1>1, <1>2, <1>3, <1>4, <1>5

\* An HTTP command has three strings, and its method.
HttpCmd(path, type, body, method) ==
  [ZeroCmd EXCEPT !.path = path, !.content_type = type, !.body = body, !.method = method]

\* It has nothing else.
LEMMA HttpCmdIs ==
  ASSUME NEW path, NEW type, NEW body, NEW method, NEW l, l = HttpCmd(path, type, body, method)
  PROVE  /\ IsLcb(l) /\ l.path = path /\ l.content_type = type /\ l.body = body
         /\ l.method = method /\ l.key = NULL /\ l.hashkey = NULL /\ l.bytes = NULL
BY DEF HttpCmd, ZeroCmd, IsLcb

\* HttpCommand::handleSingle looks at the options of the call only.
LEMMA HttpHandled ==
  ASSUME NEW c, NEW h, NEW given, NEW ix, NEW own, InTurn(c, h, given, ix, own),
         NEW c2, NEW h2, NEW given2, NEW lcb, Named(c, h, given, ix, c2, h2, given2, lcb),
         NEW call, call = c.call, call.kind = "http",
         NEW r, r = HandleHttp(c2, h2, ix)
  PROVE  Outcome(c, h, given, ix, r)
<1>1. /\ c2.global = c.global /\ c2.err = c.err /\ c.list.ncmds = 1
      /\ Good(c, h, given) /\ Wrote(c, h, given, c2, h2, given2)
  BY NamedSame DEF HasDefaultString
<1>2. Ready(c, h, given) /\ Ready(c2, h2, given2)
  BY <1>1 DEF Good, Wrote, Ready
<1>3. ASSUME NEW name \in {"path", "data", "content_type", "method"}
      PROVE  /\ IsParsed(c.global[name], call.options, name)
             /\ name \in Properties(call.options) => WellFormed(call.options.f[name])
  <2>1. name \in Parameters[call.kind]
    BY DEF Parameters
  <2>2. IsParsed(c.global[name], call.options, name)
    BY <2>1 DEF InTurn, GlobalParsed
  <2>3. Sensible(call) /\ ix \in 1..Len(call.keys)
    BY DEF InTurn
  <2> QED
    BY <2>2, <2>3, SensibleIs
<1>4. ASSUME NEW name \in {"path", "data", "content_type"}, NEW slot, slot = c.global[name]
      PROVE  /\ IsFound(slot) <=> name \in Properties(call.options)
             /\ IsFound(slot) => HasText(slot.v) /\ AsText(slot.v) = slot.v
             /\ IsFound(slot) /\ IsFalsy(slot.v) => slot.v = EmptyText
             /\ TextOf(call.options, name) = IF IsFound(slot) THEN slot.v ELSE EmptyText
  <2>1. OptionType[name] = "string"
    BY DEF OptionType
  <2>2. /\ IsParsed(slot, call.options, name)
        /\ name \in Properties(call.options) => WellFormed(call.options.f[name])
    BY <1>3, <1>4
  <2>3. /\ IsFound(slot) <=> name \in Properties(call.options)
        /\ IsFound(slot) <=> Given(call.options, name)
        /\ IsFound(slot) => /\ slot.v = AsText(call.options.f[name])
                            /\ HasText(slot.v) /\ AsText(slot.v) = slot.v
                            /\ IsFalsy(slot.v) => slot.v = EmptyText
    BY <2>1, <2>2, StringSlotIs
  <2> QED
    BY <2>3 DEF TextOf
<1>5. PICK sp, sd, st :
        sp = c.global["path"] /\ sd = c.global["data"] /\ st = c.global["content_type"]
  OBVIOUS
<1>6. PICK path : path = BackedString(c2, h2, sp.v, 0)
  OBVIOUS
<1>7. PICK c3, h3, p3 : Parts(path, c3, h3, p3)
  BY DEF Parts
<1>8. PICK type : type = OptionalString(c3, h3, st, 1)
  OBVIOUS
<1>9. PICK c4, h4, p4 : Parts(type, c4, h4, p4)
  BY DEF Parts
<1>10. PICK body : body = OptionalString(c4, h4, sd, 0)
  OBVIOUS
<1>11. PICK c5, h5, p5 : Parts(body, c5, h5, p5)
  BY DEF Parts
<1>12. PICK method : method = c.global["method"].v
  OBVIOUS
<1>13. PICK l : l = HttpCmd(p3, p4, p5, method)
  OBVIOUS
<1>14. \/ r = Fails(c2, h2)
       \/ ix = 1 /\ path.ok /\ type.ok /\ body.ok /\ r = Put(c5, h5, ix, l)
  BY <1>1, <1>5, <1>6, <1>7, <1>8, <1>9, <1>10, <1>11, <1>12, <1>13
     DEF HandleHttp, HttpCmd, Parts
<1>15. CASE r = Fails(c2, h2)
  BY <1>1, <1>15, FailsOutcome
<1>16. CASE ix = 1 /\ path.ok /\ type.ok /\ body.ok /\ r = Put(c5, h5, ix, l)
  <2>1. PICK t3 : t3 = TextOf(call.options, "path")
    OBVIOUS
  <2>2. PICK t4 : t4 = TextOf(call.options, "content_type")
    OBVIOUS
  <2>3. PICK t5 : t5 = TextOf(call.options, "data")
    OBVIOUS
  <2>4. PICK g3 : g3 = With(given2, p3)
    OBVIOUS
  <2>5. PICK g4 : g4 = With(g3, p4)
    OBVIOUS
  <2>6. PICK g5 : g5 = With(g4, p5)
    OBVIOUS
  <2>7. Backed(c2, h2, given2, t3, path)
    <3>1. "path" \in Properties(call.options)
      BY DEF InTurn, Sensible
    <3>2. PICK v : v = sp.v
      OBVIOUS
    <3>3. HasText(v) /\ AsText(v) = t3
      BY <1>4, <1>5, <2>1, <3>1, <3>2
    <3> QED
      BY <1>2, <1>6, <3>2, <3>3, BackedStringIs
  <2>8. /\ Wrote(c, h, given, c3, h3, g3) /\ Ready(c3, h3, g3) /\ c3.err = c2.err
        /\ p3 \in g3 \cup {NULL, StaticEmpty} /\ Read(h3, p3) = t3
    BY <1>1, <1>2, <1>7, <1>16, <2>4, <2>7, BackedThen
  <2>9. Backed(c3, h3, g3, t4, type)
    <3>1. PICK v : v = st.v
      OBVIOUS
    <3>2. PICK t : t = IF IsFound(st) /\ ~IsFalsy(v) THEN AsText(v) ELSE EmptyText
      OBVIOUS
    <3>3. (IsFound(st) => HasText(v)) /\ t = t4
      BY <1>4, <1>5, <2>2, <3>1, <3>2
    <3> QED
      BY <1>8, <2>8, <3>1, <3>2, <3>3, OptionalStringIs
  <2>10. /\ Wrote(c, h, given, c4, h4, g4) /\ Ready(c4, h4, g4) /\ c4.err = c3.err
         /\ p4 \in g4 \cup {NULL, StaticEmpty} /\ Read(h4, p4) = t4
         /\ g3 \subseteq g4 /\ \A p \in g3 \cup {NULL, StaticEmpty} : Read(h4, p) = Read(h3, p)
    BY <1>2, <1>9, <1>16, <2>5, <2>8, <2>9, BackedThen
  <2>11. Backed(c4, h4, g4, t5, body)
    <3>1. PICK v : v = sd.v
      OBVIOUS
    <3>2. PICK t : t = IF IsFound(sd) /\ ~IsFalsy(v) THEN AsText(v) ELSE EmptyText
      OBVIOUS
    <3>3. (IsFound(sd) => HasText(v)) /\ t = t5
      BY <1>4, <1>5, <2>3, <3>1, <3>2
    <3> QED
      BY <1>10, <2>10, <3>1, <3>2, <3>3, OptionalStringIs
  <2>12. /\ Wrote(c, h, given, c5, h5, g5) /\ c5.err = c4.err
         /\ p5 \in g5 \cup {NULL, StaticEmpty} /\ Read(h5, p5) = t5
         /\ g4 \subseteq g5 /\ \A p \in g4 \cup {NULL, StaticEmpty} : Read(h5, p) = Read(h4, p)
    BY <1>2, <1>11, <1>16, <2>6, <2>10, <2>11, BackedThen
  <2>13. /\ IsLcb(l) /\ l.path = p3 /\ l.content_type = p4 /\ l.body = p5
         /\ l.method = method /\ l.key = NULL /\ l.hashkey = NULL /\ l.bytes = NULL
    BY <1>13, HttpCmdIs
  <2>14. {p3, p4, p5} \subseteq g5 \cup {NULL, StaticEmpty}
    BY <2>8, <2>10, <2>12
  <2>15. IsEntry(l, g5)
    BY <2>13, <2>14 DEF IsEntry, StringsOf
  <2>16. Read(h5, p3) = t3 /\ Read(h5, p4) = t4 /\ Read(h5, p5) = t5
    BY <2>8, <2>10, <2>12
  <2>17. PICK e : e = AsRead(l, h5)
    OBVIOUS
  <2>18. e.path = t3 /\ e.content_type = t4 /\ e.body = t5 /\ e.method = method
    BY <2>13, <2>16, <2>17, AsReadIs
  <2>19. RightNumber(call, ix, "method", method)
    <3>1. PICK name : name = "method"
      OBVIOUS
    <3>2. name \in Numeric /\ ~Ignored(call, ix, name)
      BY <3>1 DEF Numeric, NumberTypes, OptionType, Ignored
    <3>3. PICK slot : slot = c.global[name]
      OBVIOUS
    <3>4. IsParsed(slot, call.options, name)
          /\ (name \in Properties(call.options) => WellFormed(call.options.f[name]))
      BY <1>3, <3>1, <3>3
    <3>5. RightNumber(call, ix, name, slot.v)
      BY <3>2, <3>4, GlobalNumber
    <3> QED
      BY <1>12, <3>1, <3>3, <3>5
  <2>20. Right(call, ix, e)
    BY <2>1, <2>2, <2>3, <2>18, <2>19
       DEF Right, RightTexts, RightRest, RightNumbers, RightForm, Written, FieldOptions
  <2>21. ix \in 1..c.list.ncmds
    BY <1>1, <1>16
  <2> QED
    BY <1>1, <1>16, <2>8, <2>10, <2>12, <2>15, <2>17, <2>20, <2>21, PutOutcome
<1> QED
  BY <1>14, <1>15, <1>16

-----------------------------------------------------------------------------
(* A key is processed. *)

\* A key's turn, before it is looked at.
Turn(c, h, given, ix) ==
  /\ Good(c, h, given) /\ Sensible(c.call) /\ ix \in 1..Len(c.call.keys)
  /\ c.list.ncmds = IF HasDefaultString(c) THEN 1 ELSE Len(c.call.keys)
  /\ GlobalParsed(c.call, c.global)
  /\ IsParsed(c.hashkey, c.call.options, "hashkey")

\* Each class has its own handler.
LEMMA SingleHandled ==
  ASSUME NEW c, NEW h, NEW given, NEW ix, NEW own, InTurn(c, h, given, ix, own),
         NEW c2, NEW h2, NEW given2, NEW lcb, Named(c, h, given, ix, c2, h2, given2, lcb),
         NEW call, call = c.call, NEW key, key = call.keys[ix],
         NEW r, r = HandleSingle(c2, h2, lcb, own, ix, key, call.params[ix])
  PROVE  Outcome(c, h, given, ix, r)
<1>1. c2.call = call /\ Good(c, h, given) /\ Wrote(c, h, given, c2, h2, given2)
  BY NamedSame
<1>2. call.kind \in Kinds
  BY DEF InTurn, Sensible
<1>3. CASE call.kind \in {"get", "lock"}
  <2>1. r = HandleGet(c2, h2, lcb, own, ix, key)
    BY <1>1, <1>3 DEF HandleSingle
  <2> QED
    BY <1>3, <2>1, GetHandled
<1>4. CASE call.kind = "store"
  <2>1. r = Fails(c2, h2) \/ r = HandleStore(c2, h2, lcb, own, ix)
    BY <1>1, <1>4 DEF HandleSingle
  <2> QED
    BY <1>1, <1>4, <2>1, StoreHandled, FailsOutcome
<1>5. CASE call.kind = "arithmetic"
  <2>1. r = HandleArithmetic(c2, h2, lcb, own, ix)
    BY <1>1, <1>5 DEF HandleSingle
  <2> QED
    BY <1>5, <2>1, ArithmeticHandled
<1>6. CASE call.kind = "remove"
  <2>1. r = HandleRemove(c2, h2, lcb, own, ix, call.params[ix])
    BY <1>1, <1>6 DEF HandleSingle
  <2> QED
    BY <1>6, <2>1, RemoveHandled
<1>7. CASE call.kind = "unlock"
  <2>1. r = HandleUnlock(c2, h2, lcb, own, ix, call.params[ix])
    BY <1>1, <1>7 DEF HandleSingle
  <2> QED
    BY <1>7, <2>1, CasHandled
<1>8. CASE call.kind = "touch"
  <2>1. r = HandleTouch(c2, h2, lcb, own, ix, call.params[ix])
    BY <1>1, <1>8 DEF HandleSingle
  <2> QED
    BY <1>8, <2>1, TouchHandled
<1>9. CASE call.kind = "observe"
  <2>1. r = HandleObserve(c2, h2, lcb, ix)
    BY <1>1, <1>9 DEF HandleSingle
  <2> QED
    BY <1>9, <2>1, ObserveHandled
<1>10. CASE call.kind = "endure"
  <2>1. r = HandleEndure(c2, h2, lcb, own, ix)
    BY <1>1, <1>10 DEF HandleSingle
  <2> QED
    BY <1>10, <2>1, CasHandled
<1>11. CASE call.kind = "stats"
  <2>1. r = HandleStats(c2, h2, lcb, ix)
    BY <1>1, <1>11 DEF HandleSingle
  <2> QED
    BY <1>11, <2>1, StatsHandled
<1>12. CASE call.kind = "http"
  <2>1. r = HandleHttp(c2, h2, ix)
    BY <1>1, <1>12 DEF HandleSingle
  <2> QED
    BY <1>12, <2>1, HttpHandled
<1> QED
  BY <1>2, <1>3, <1>4, <1>5, <1>6, <1>7, <1>8, <1>9, <1>10, <1>11, <1>12 DEF Kinds

\* The hash key is the key's, or else the call's.
LEMMA HashIs ==
  ASSUME NEW call, NEW ix, NEW hs, IsParsed(hs, call.params[ix], "hashkey"),
         NEW gs, IsParsed(gs, call.options, "hashkey"),
         Sensible(call), ix \in 1..Len(call.keys),
         NEW chosen, chosen = IF IsFound(hs) THEN hs ELSE gs
  PROVE  /\ HashText(call, ix) = IF IsFound(chosen) THEN chosen.v ELSE EmptyText
         /\ IsFound(chosen) => HasText(chosen.v) /\ AsText(chosen.v) = chosen.v
<1>1. PICK name : name = "hashkey"
  OBVIOUS
<1>2. OptionType[name] = "string"
  BY <1>1 DEF OptionType
<1>3. PICK own : own = call.params[ix]
  OBVIOUS
<1>4. \A d \in {own, call.options} : name \in Properties(d) => WellFormed(d.f[name])
  BY <1>3, SensibleIs
<1>5. /\ IsFound(hs) <=> Given(own, name)
      /\ IsFound(hs) => /\ hs.v = AsText(own.f[name])
                        /\ HasText(hs.v) /\ AsText(hs.v) = hs.v
  BY <1>1, <1>2, <1>3, <1>4, StringSlotIs
<1>6. /\ IsFound(gs) <=> Given(call.options, name)
      /\ IsFound(gs) => /\ gs.v = AsText(call.options.f[name])
                        /\ HasText(gs.v) /\ AsText(gs.v) = gs.v
  BY <1>1, <1>2, <1>4, StringSlotIs
<1>7. HashText(call, ix) = IF Given(own, name) THEN AsText(own.f[name])
                                               ELSE TextOf(call.options, name)
  BY <1>1, <1>3 DEF HashText
<1> QED
  BY <1>5, <1>6, <1>7 DEF TextOf

\* A slot that is found is parsed, though another may be wrong.
LEMMA FoundIsParsed ==
  ASSUME NEW dict, NEW names, NEW p, p = ParseAll(dict, names), NEW name \in names,
         NEW slot, slot = p.slots[name], IsFound(slot)
  PROVE  IsParsed(slot, dict, name)
<1> DEFINE slots == [x \in names |-> IF x \in Properties(dict) THEN ParseValue(x, dict.f[x])
                                                               ELSE EmptySlot(x)]
<1>1. p.slots = slots
  BY DEF ParseAll
<1>2. slot = IF name \in Properties(dict) THEN ParseValue(name, dict.f[name]) ELSE EmptySlot(name)
  BY <1>1
<1> QED
  BY <1>2 DEF IsParsed, IsFound

\* What processSingle does when it has got the options and the two strings.
SingleAs(c, ix, own, hk, hash, name) ==
  IF ~hk.ok \/ ~hash.ok \/ ~name.ok \/ ~own.ok
    THEN Fails(name.cmd, name.heap)
    ELSE HandleSingle(name.cmd, name.heap,
                      [ZeroCmd EXCEPT !.key = name.ptr, !.hashkey = hash.ptr],
                      own.slots, ix, c.call.keys[ix], c.call.params[ix])

\* Command::processSingle.
LEMMA ProcessSingleIs ==
  ASSUME NEW c, NEW h, NEW given, NEW ix, Turn(c, h, given, ix),
         NEW r, r = ProcessSingle(c, h, ix)
  PROVE  Outcome(c, h, given, ix, r)
<1>1. PICK call, params, key : call = c.call /\ params = call.params[ix] /\ key = call.keys[ix]
  OBVIOUS
<1>2. Good(c, h, given) /\ Ready(c, h, given) /\ Sensible(call) /\ ix \in 1..Len(call.keys)
  BY <1>1 DEF Turn, Good
<1>3. PICK own : own = ParseAll(params, KeyParameters[call.kind])
  OBVIOUS
<1>4. PICK names, hk : names = {"hashkey"} /\ hk = ParseAll(params, names)
  OBVIOUS
<1>5. PICK hs, gs : hs = hk.slots["hashkey"] /\ gs = c.hashkey
  OBVIOUS
<1>6. PICK chosen : chosen = IF IsFound(hs) THEN hs ELSE gs
  OBVIOUS
<1>7. PICK hash : hash = IF IsFound(chosen) THEN BackedString(c, h, chosen.v, 0)
                                            ELSE Result(TRUE, c, h, NULL)
  OBVIOUS
<1>8. PICK c2, h2, p2 : Parts(hash, c2, h2, p2)
  BY DEF Parts
<1>9. PICK name : name = BackedString(c2, h2, key, 0)
  OBVIOUS
<1>10. PICK c3, h3, p3 : Parts(name, c3, h3, p3)
  BY DEF Parts
<1>11. PICK lcb : lcb = [ZeroCmd EXCEPT !.key = p3, !.hashkey = p2]
  OBVIOUS
<1>12. PICK slots : slots = own.slots
  OBVIOUS
<1>13. r = IF ~hk.ok \/ ~hash.ok \/ ~name.ok \/ ~own.ok
             THEN Fails(c3, h3)
             ELSE HandleSingle(c3, h3, lcb, slots, ix, key, params)
  <2> DEFINE ownD == ParseAll(c.call.params[ix], KeyParameters[c.call.kind])
             hkD == ParseAll(c.call.params[ix], {"hashkey"})
             chosenD == IF IsFound(hkD.slots.hashkey) THEN hkD.slots.hashkey ELSE c.hashkey
             hashD == IF IsFound(chosenD) THEN BackedString(c, h, chosenD.v, 0)
                                          ELSE Result(TRUE, c, h, NULL)
             nameD == BackedString(hashD.cmd, hashD.heap, c.call.keys[ix], 0)
  <2>1. r = SingleAs(c, ix, ownD, hkD, hashD, nameD)
    BY DEF ProcessSingle, SingleAs
  <2>2. ownD = own /\ hkD = hk
    BY <1>1, <1>3, <1>4
  <2> HIDE DEF ownD, hkD
  <2>3. chosenD = chosen
    BY <1>5, <1>6, <2>2
  <2> HIDE DEF chosenD
  <2>4. hashD = hash
    BY <1>7, <2>3
  <2> HIDE DEF hashD
  <2>5. nameD = name
    BY <1>1, <1>8, <1>9, <2>4 DEF Parts
  <2> HIDE DEF nameD
  <2>6. r = SingleAs(c, ix, own, hk, hash, name)
    BY <2>1, <2>2, <2>4, <2>5
  <2> QED
    BY <1>1, <1>8, <1>10, <1>11, <1>12, <2>6 DEF SingleAs, Parts
<1>14. /\ params = call.params[ix] /\ ("f" \in DOMAIN params => params.t \in ObjectTypes)
       /\ WellFormed(key)
       /\ \A y \in Properties(params) : WellFormed(params.f[y])
       /\ \A y \in Properties(call.options) : WellFormed(call.options.f[y])
  BY <1>1, <1>2, SensibleIs
<1>15. PICK x : x = "hashkey"
  OBVIOUS
<1>16. OptionType[x] = "string" /\ x \in names /\ hs = hk.slots[x]
       /\ IsParsed(gs, call.options, x)
  BY <1>1, <1>4, <1>5, <1>15 DEF OptionType, Turn
<1>17. PICK text : text = IF IsFound(chosen) THEN AsText(chosen.v) ELSE EmptyText
  OBVIOUS
<1>18. IsFound(chosen) => HasText(chosen.v)
  <2>1. CASE IsFound(hs)
    <3>1. IsParsed(hs, params, x)
      BY <1>4, <1>16, <2>1, FoundIsParsed
    <3> QED
      BY <1>6, <1>14, <1>16, <2>1, <3>1, StringSlotIs
  <2>2. CASE ~IsFound(hs)
    <3>1. IsFound(gs) => HasText(gs.v)
      BY <1>14, <1>16, StringSlotIs
    <3> QED
      BY <1>6, <2>2, <3>1
  <2> QED
    BY <2>1, <2>2
<1>19. hk.ok => text = HashText(call, ix)
  <2>1. HAVE hk.ok
  <2>2. IsParsed(hk.slots[x], params, x)
    BY <1>4, <1>14, <1>16, <2>1, ParsedIs
  <2>3. IsParsed(hs, call.params[ix], "hashkey") /\ IsParsed(gs, call.options, "hashkey")
    BY <1>14, <1>15, <1>16, <2>2
  <2>4. /\ HashText(call, ix) = IF IsFound(chosen) THEN chosen.v ELSE EmptyText
        /\ IsFound(chosen) => HasText(chosen.v) /\ AsText(chosen.v) = chosen.v
    BY <1>2, <1>6, <2>3, HashIs
  <2> QED
    BY <1>17, <2>4
<1>20. Backed(c, h, given, text, hash)
  <2>1. CASE IsFound(chosen)
    <3>1. PICK v : v = chosen.v
      OBVIOUS
    <3>2. HasText(v) /\ hash = BackedString(c, h, v, 0) /\ text = AsText(v)
      BY <1>7, <1>17, <1>18, <2>1, <3>1
    <3> QED
      BY <1>2, <3>2, BackedStringIs
  <2>2. CASE ~IsFound(chosen)
    <3>1. hash = Result(TRUE, c, h, NULL) /\ text = EmptyText
      BY <1>7, <1>17, <2>2
    <3>2. hash.ok /\ hash.cmd = c /\ hash.heap = h /\ hash.ptr = NULL
      BY <3>1 DEF Result
    <3>3. With(given, NULL) = given /\ Read(h, NULL) = EmptyText
      BY ReadNothing DEF With
    <3>4. Wrote(c, h, given, c, h, given)
      BY <1>2, WroteNothing DEF Ready
    <3> QED
      BY <3>1, <3>2, <3>3, <3>4 DEF Backed, Strings
  <2> QED
    BY <2>1, <2>2
<1>21. PICK given2 : given2 = With(given, p2)
  OBVIOUS
<1>22. Wrote(c, h, given, c, h, given)
  BY <1>2, WroteNothing DEF Ready
<1>23. /\ Wrote(c, h, given, c2, h2, given2) /\ Ready(c2, h2, given2)
       /\ p2 \in given2 \cup {NULL, StaticEmpty}
       /\ hash.ok => c2.err = c.err /\ Read(h2, p2) = text
  BY <1>2, <1>8, <1>20, <1>21, <1>22, BackedThen
<1>24. PICK keytext, given3 : keytext = AsText(key) /\ given3 = With(given2, p3)
  OBVIOUS
<1>25. Backed(c2, h2, given2, keytext, name)
  BY <1>9, <1>14, <1>23, <1>24, AnyText, BackedStringIs
<1>26. /\ Wrote(c, h, given, c3, h3, given3)
       /\ p3 \in given3 \cup {NULL, StaticEmpty} /\ given2 \subseteq given3
       /\ \A p \in given2 \cup {NULL, StaticEmpty} : Read(h3, p) = Read(h2, p)
       /\ name.ok => c3.err = c2.err /\ Read(h3, p3) = keytext
  BY <1>2, <1>10, <1>23, <1>24, <1>25, BackedThen
<1>27. CASE ~hk.ok \/ ~hash.ok \/ ~name.ok \/ ~own.ok
  <2>1. r = Fails(c3, h3)
    BY <1>13, <1>27
  <2> QED
    BY <1>2, <1>26, <2>1, FailsOutcome
<1>28. CASE hk.ok /\ hash.ok /\ name.ok /\ own.ok
  <2>1. r = HandleSingle(c3, h3, lcb, slots, ix, key, params)
    BY <1>13, <1>28
  <2>2. InTurn(c, h, given, ix, slots)
    <3>1. DOMAIN slots = KeyParameters[call.kind]
      BY <1>3, <1>12 DEF ParseAll
    <3>2. ASSUME NEW y \in DOMAIN slots
          PROVE  IsParsed(slots[y], call.params[ix], y)
      BY <1>3, <1>12, <1>14, <1>28, <3>1, ParsedIs
    <3> QED
      BY <1>1, <3>1, <3>2 DEF InTurn, Turn
  <2>3. Named(c, h, given, ix, c3, h3, given3, lcb)
    <3>1. lcb.key = p3 /\ lcb.hashkey = p2
      BY <1>11 DEF ZeroCmd
    <3>2. lcb = [ZeroCmd EXCEPT !.key = lcb.key, !.hashkey = lcb.hashkey]
      BY <1>11, <3>1
    <3>3. {p2, p3} \subseteq given3 \cup {NULL, StaticEmpty} /\ c3.err = c.err
          /\ Read(h3, p3) = AsText(call.keys[ix]) /\ Read(h3, p2) = HashText(call, ix)
      BY <1>1, <1>19, <1>23, <1>24, <1>26, <1>28
    <3> QED
      BY <1>1, <1>26, <3>1, <3>2, <3>3 DEF Named
  <2> QED
    BY <1>1, <2>1, <2>2, <2>3, SingleHandled
<1> QED
  BY <1>27, <1>28

-----------------------------------------------------------------------------
(* The Commands that are alive, and what is in the heap. *)

\* Every block has one owner.
Owners(Cs, h) ==
  /\ HeapOK(h)
  /\ \A b \in DOMAIN h.mem : \E c \in Cs : b \in Owned(c)
  /\ \A c \in Cs : Owned(c) \subseteq DOMAIN h.mem
  /\ \A c, d \in Cs : c # d => Owned(c) \cap Owned(d) = {}

\* A Command that comes owns what is new.
LEMMA OwnersNew ==
  ASSUME NEW Cs, NEW h, Owners(Cs, h), NEW c, NEW g, HeapOK(g),
         DOMAIN h.mem \subseteq DOMAIN g.mem, Owned(c) = DOMAIN g.mem \ DOMAIN h.mem,
         NEW Ds, Ds = Cs \cup {c}
  PROVE  Owners(Ds, g)
<1>1. \A b \in DOMAIN g.mem : \E d \in Ds : b \in Owned(d)
  BY DEF Owners
<1>2. \A d \in Ds : Owned(d) \subseteq DOMAIN g.mem
  BY DEF Owners
<1>3. ASSUME NEW d \in Ds, NEW e \in Ds, d # e
      PROVE  Owned(d) \cap Owned(e) = {}
  BY <1>3 DEF Owners
<1> QED
  BY <1>1, <1>2, <1>3 DEF Owners

\* A Command that grows owns what is new.
LEMMA OwnersGrown ==
  ASSUME NEW Cs, NEW h, Owners(Cs, h), NEW c \in Cs, NEW c2, NEW g, Grew(c, h, c2, g),
         NEW Ds, Ds = (Cs \ {c}) \cup {c2}
  PROVE  Owners(Ds, g)
<1>1. /\ HeapOK(g) /\ DOMAIN h.mem \subseteq DOMAIN g.mem /\ Owned(c) \subseteq Owned(c2)
      /\ Owned(c2) \ Owned(c) = DOMAIN g.mem \ DOMAIN h.mem
  BY DEF Grew
<1>2. Owned(c) \subseteq DOMAIN h.mem
  BY DEF Owners
<1>3. \A b \in DOMAIN g.mem : \E d \in Ds : b \in Owned(d)
  BY <1>1 DEF Owners
<1>4. \A d \in Ds : Owned(d) \subseteq DOMAIN g.mem
  BY <1>1, <1>2 DEF Owners
<1>5. ASSUME NEW d \in Cs \ {c}
      PROVE  Owned(d) \cap Owned(c2) = {}
  <2>1. Owned(d) \cap Owned(c) = {} /\ Owned(d) \subseteq DOMAIN h.mem
    BY DEF Owners
  <2> QED
    BY <1>1, <2>1
<1>6. ASSUME NEW d \in Ds, NEW e \in Ds, d # e
      PROVE  Owned(d) \cap Owned(e) = {}
  <2>1. CASE d = c2
    BY <1>5, <1>6, <2>1
  <2>2. CASE e = c2
    BY <1>5, <1>6, <2>2
  <2>3. CASE d # c2 /\ e # c2
    BY <1>6, <2>3 DEF Owners
  <2> QED
    BY <2>1, <2>2, <2>3
<1> QED
  BY <1>1, <1>3, <1>4, <1>6 DEF Owners

\* A Command that ends frees what it owns.
LEMMA OwnersEnd ==
  ASSUME NEW Cs, NEW h, Owners(Cs, h), NEW c \in Cs, NEW g, g = Free(h, Owned(c)),
         NEW Ds, Ds = Cs \ {c}
  PROVE  /\ Owners(Ds, g)
         /\ \A x \in DOMAIN g.mem : g.mem[x] = h.mem[x]
<1>1. HeapOK(h)
  BY DEF Owners
<1>2. /\ HeapOK(g) /\ DOMAIN g.mem = DOMAIN h.mem \ Owned(c)
      /\ \A x \in DOMAIN g.mem : g.mem[x] = h.mem[x]
  BY <1>1, FreeIs
<1>3. \A b \in DOMAIN g.mem : \E d \in Ds : b \in Owned(d)
  BY <1>2 DEF Owners
<1>4. ASSUME NEW d \in Ds
      PROVE  Owned(d) \subseteq DOMAIN g.mem
  BY <1>2 DEF Owners
<1>5. \A d, e \in Ds : d # e => Owned(d) \cap Owned(e) = {}
  BY DEF Owners
<1> QED
  BY <1>2, <1>3, <1>4, <1>5 DEF Owners

\* A list is in the blocks of its Command, and nowhere else.
LEMMA GoodElsewhere ==
  ASSUME NEW c, NEW h, NEW given, Good(c, h, given), NEW g, HeapOK(g),
         Owned(c) \subseteq DOMAIN g.mem, \A x \in Owned(c) : g.mem[x] = h.mem[x]
  PROVE  /\ Good(c, g, given) /\ GetList(c, g) = GetList(c, h)
         /\ \A i \in 1..c.list.ncmds :
              AsRead(GetList(c, g)[i], g) = AsRead(GetList(c, h)[i], h)
<1>1. /\ IsCommand(c) /\ Room(c.bufs, h, given) /\ HasList(c, h) /\ HeapOK(h)
      /\ \A i \in 1..c.list.ncmds : IsEntry(GetList(c, h)[i], given)
  BY DEF Good, Ready, Room
<1>2. PICK b : b = c.bufs
  OBVIOUS
<1>3. /\ b \in Lists /\ b.blocks \subseteq DOMAIN h.mem
      /\ \A q \in given : q \in BufPointers /\ q.block \in b.blocks
  BY <1>1, <1>2, RoomIs
<1>4. b.blocks \subseteq Owned(c)
  BY <1>2 DEF Owned
<1>5. Room(b, g, given)
  <2>1. \A x \in b.blocks : x \in DOMAIN SizeOf(g) /\ SizeOf(g)[x] = SizeOf(h)[x]
    BY <1>3, <1>4 DEF SizeOf
  <2>2. ListSound(b, SizeOf(h), given)
    BY <1>1, <1>2 DEF Room
  <2>3. ListSound(b, SizeOf(g), given)
    BY <2>1, <2>2 DEF ListSound
  <2> QED
    BY <1>1, <1>2, <2>3 DEF Room
<1>6. HasList(c, g)
  BY <1>1 DEF HasList, Owned
<1>7. GetList(c, g) = GetList(c, h)
  <2>1. CASE c.list.ncmds = 1
    BY <1>1, <1>6, <2>1, ListIs
  <2>2. CASE c.list.ncmds # 1
    <3>1. c.list.array \in Owned(c)
      BY <1>1, <2>2, ListIs
    <3> QED
      BY <1>1, <1>6, <2>2, <3>1, ListIs
  <2> QED
    BY <2>1, <2>2
<1>8. ASSUME NEW q \in given \cup {NULL, StaticEmpty}
      PROVE  Read(g, q) = Read(h, q)
  <2>1. CASE q \in given
    <3>1. q \in BufPointers /\ q.block \in Owned(c) /\ q.block \in DOMAIN h.mem
      BY <1>3, <1>4, <2>1
    <3> QED
      BY <3>1, ReadSame
  <2>2. CASE q \in {NULL, StaticEmpty}
    BY <2>2, ReadNothing
  <2> QED
    BY <2>1, <2>2
<1>9. \A i \in 1..c.list.ncmds : AsRead(GetList(c, h)[i], g) = AsRead(GetList(c, h)[i], h)
  BY <1>1, <1>8, AsReadSame
<1> QED
  BY <1>1, <1>2, <1>5, <1>6, <1>7, <1>9 DEF Good, Ready

-----------------------------------------------------------------------------
(* A Command as it goes through a call. *)

\* Its strings and lists are sound, the keys that were processed have got the
\* right commands, and an error it carries is one that it may carry.
Fine(c, h) ==
  /\ \E given : Good(c, h, given)
  /\ Sensible(c.call) /\ GlobalParsed(c.call, c.global)
  /\ c.list.ncmds = IF HasDefaultString(c) THEN 1 ELSE Len(c.call.keys)
  /\ c.next \in Nat \ {0} /\ c.next <= Len(c.call.keys) + 1 /\ c.next <= c.list.ncmds + 1
  /\ \A i \in 1..(c.next - 1) : Right(c.call, i, AsRead(GetList(c, h)[i], h))
  /\ c.err => \E i \in 1..Len(c.call.keys) : Tolerated(c.call, i)

\* A Command whose memory was left alone is as it was.
LEMMA FineElsewhere ==
  ASSUME NEW c, NEW h, Fine(c, h), NEW g, HeapOK(g),
         Owned(c) \subseteq DOMAIN g.mem, \A x \in Owned(c) : g.mem[x] = h.mem[x]
  PROVE  Fine(c, g)
<1>1. PICK given : Good(c, h, given)
  BY DEF Fine
<1>2. /\ Good(c, g, given)
      /\ \A i \in 1..c.list.ncmds :
           AsRead(GetList(c, g)[i], g) = AsRead(GetList(c, h)[i], h)
  BY <1>1, GoodElsewhere
<1>3. c.list.ncmds \in Nat
  BY <1>1 DEF Good, HasList
<1>4. ASSUME NEW i \in 1..(c.next - 1)
      PROVE  Right(c.call, i, AsRead(GetList(c, g)[i], g))
  <2>1. i \in 1..c.list.ncmds
    BY <1>3 DEF Fine
  <2>2. AsRead(GetList(c, g)[i], g) = AsRead(GetList(c, h)[i], h)
    BY <1>2, <2>1
  <2> QED
    BY <2>2 DEF Fine
<1> QED
  BY <1>2, <1>4 DEF Fine

\* What is known of a Command's memory does not depend on the rest of it.
LEMMA GoodAlike ==
  ASSUME NEW c, NEW h, NEW given, Good(c, h, given), NEW d, IsCommand(d),
         d.at = c.at, d.list = c.list, d.bufs = c.bufs
  PROVE  Good(d, h, given) /\ GetList(d, h) = GetList(c, h) /\ Owned(d) = Owned(c)
<1>1. GetList(d, h) = GetList(c, h) /\ Owned(d) = Owned(c)
  BY DEF GetList, Owned
<1> QED
  BY <1>1 DEF Good, Ready, HasList

\* The loop goes on with the next key.
LEMMA NextIs ==
  ASSUME NEW c, IsCommand(c), NEW d, d = [c EXCEPT !.next = @ + 1]
  PROVE  /\ IsCommand(d) /\ d.next = c.next + 1 /\ d.at = c.at /\ d.number = c.number
         /\ d.call = c.call /\ d.global = c.global /\ d.hashkey = c.hashkey
         /\ d.list = c.list /\ d.bufs = c.bufs /\ d.err = c.err
         /\ d.keyOptions = c.keyOptions
BY DEF IsCommand, IsList

\* The options of the first n keys are kept, and those of no others.
AsAsked(call, options, n) ==
  Chosen(call, options) /\ \A i \in 1..n : NotesFormat(call, i, options)

\* The keys before it keep their commands.
LEMMA FineNext ==
  ASSUME NEW c, NEW h, Fine(c, h), c.next <= Len(c.call.keys),
         IsParsed(c.hashkey, c.call.options, "hashkey"),
         NEW r, r = ProcessSingle(c, h, c.next)
  PROVE  /\ Grew(c, h, r.cmd, r.heap) /\ SameCall(c, r.cmd)
         /\ r.ok => \A d : d = [r.cmd EXCEPT !.next = @ + 1] =>
              /\ Fine(d, r.heap) /\ Owned(d) = Owned(r.cmd)
              /\ d.at = c.at /\ d.number = c.number /\ d.call = c.call /\ d.hashkey = c.hashkey
              /\ AsAsked(c.call, c.keyOptions, c.next - 1) =>
                   AsAsked(d.call, d.keyOptions, d.next - 1)
<1>1. PICK given : Good(c, h, given)
  BY DEF Fine
<1>2. PICK ix : ix = c.next
  OBVIOUS
<1>3. Len(c.call.keys) \in Nat
  BY DEF Fine, Sensible
<1>4. Turn(c, h, given, ix)
  BY <1>1, <1>2, <1>3 DEF Fine, Turn
<1>5. Outcome(c, h, given, ix, r)
  BY <1>2, <1>4, ProcessSingleIs
<1>6. CASE ~r.ok
  BY <1>5, <1>6 DEF Outcome, Handled
<1>7. CASE r.ok
  <2>1. PICK l, given2 :
          /\ ix \in 1..c.list.ncmds /\ Handled(c, h, given, ix, l, r, given2)
          /\ Right(c.call, ix, AsRead(l, r.heap))
          /\ r.cmd.err => c.err \/ Tolerated(c.call, ix)
          /\ NotesFormat(c.call, ix, r.cmd.keyOptions)
    BY <1>5, <1>7 DEF Outcome
  <2>2. /\ SameCall(c, r.cmd) /\ Good(r.cmd, r.heap, given2) /\ Grew(c, h, r.cmd, r.heap)
        /\ GetList(r.cmd, r.heap)[ix] = l
        /\ \A i \in 1..c.list.ncmds : i # ix => GetList(r.cmd, r.heap)[i] = GetList(c, h)[i]
        /\ \A q \in given : Read(r.heap, q) = Read(h, q)
    BY <2>1 DEF Handled
  <2>3. PICK d : d = [r.cmd EXCEPT !.next = @ + 1]
    OBVIOUS
  <2>4. /\ IsCommand(d) /\ d.next = ix + 1 /\ d.at = c.at /\ d.number = c.number
        /\ d.call = c.call /\ d.global = c.global /\ d.hashkey = c.hashkey
        /\ d.list = r.cmd.list /\ d.bufs = r.cmd.bufs /\ d.err = r.cmd.err
        /\ d.list.ncmds = c.list.ncmds /\ d.at = r.cmd.at /\ d.keyOptions = r.cmd.keyOptions
    BY <1>2, <2>2, <2>3, NextIs DEF SameCall
  <2>5. Good(d, r.heap, given2) /\ GetList(d, r.heap) = GetList(r.cmd, r.heap)
        /\ Owned(d) = Owned(r.cmd)
    BY <2>2, <2>4, GoodAlike
  <2>6. ix \in Nat \ {0} /\ c.list.ncmds \in Nat /\ ix <= c.list.ncmds
    BY <1>1, <1>2, <2>1 DEF Fine, Good, HasList
  <2>7. ASSUME NEW i \in 1..ix
        PROVE  Right(d.call, i, AsRead(GetList(d, r.heap)[i], r.heap))
    <3>1. CASE i = ix
      BY <2>1, <2>2, <2>4, <2>5, <3>1
    <3>2. CASE i # ix
      <4>1. i \in 1..(ix - 1) /\ i \in 1..c.list.ncmds
        BY <2>6, <3>2
      <4>2. PICK e : e = GetList(c, h)[i]
        OBVIOUS
      <4>3. IsEntry(e, given) /\ GetList(d, r.heap)[i] = e
        BY <1>1, <2>2, <2>5, <3>2, <4>1, <4>2 DEF Good
      <4>4. \A q \in given \cup {NULL, StaticEmpty} : Read(r.heap, q) = Read(h, q)
        BY <2>2, ReadNothing
      <4>5. AsRead(e, r.heap) = AsRead(e, h)
        BY <4>3, <4>4, AsReadSame
      <4>6. Right(c.call, i, AsRead(e, h))
        BY <1>2, <4>1, <4>2 DEF Fine
      <4> QED
        BY <2>4, <4>3, <4>5, <4>6
    <3> QED
      BY <3>1, <3>2
  <2>8. d.err => \E i \in 1..Len(d.call.keys) : Tolerated(d.call, i)
    <3>1. ix \in 1..Len(c.call.keys)
      BY <1>2, <1>3, <2>6
    <3> QED
      BY <2>1, <2>4, <3>1 DEF Fine
  <2>9. /\ Sensible(d.call) /\ GlobalParsed(d.call, d.global)
        /\ d.list.ncmds = IF HasDefaultString(d) THEN 1 ELSE Len(d.call.keys)
        /\ d.next \in Nat \ {0} /\ d.next <= Len(d.call.keys) + 1 /\ d.next <= d.list.ncmds + 1
        /\ d.next - 1 = ix
    BY <1>2, <1>3, <2>4, <2>6 DEF Fine, HasDefaultString
  <2>10. Fine(d, r.heap)
    BY <2>5, <2>7, <2>8, <2>9 DEF Fine
  <2>11. ASSUME AsAsked(c.call, c.keyOptions, c.next - 1)
         PROVE  AsAsked(d.call, d.keyOptions, d.next - 1)
    <3>1. KeepsChosen(c, r.cmd) /\ r.cmd.call = c.call
      BY <2>2 DEF SameCall
    <3>2. ASSUME NEW i \in 1..ix
          PROVE  NotesFormat(c.call, i, r.cmd.keyOptions)
      <4>1. CASE i = ix
        BY <2>1, <4>1
      <4>2. CASE i # ix
        <5>1. i \in 1..(c.next - 1)
          BY <1>2, <2>6, <4>2
        <5> QED
          BY <2>11, <3>1, <5>1 DEF AsAsked, NotesFormat, KeepsChosen
      <4> QED
        BY <4>1, <4>2
    <3> QED
      BY <2>4, <2>9, <2>11, <3>1, <3>2 DEF AsAsked, KeepsChosen
  <2> QED
    BY <2>2, <2>3, <2>4, <2>5, <2>10, <2>11
<1> QED
  BY <1>6, <1>7

\* Nor does what is known of it depend on where its options went.
LEMMA FineAlike ==
  ASSUME NEW c, NEW h, Fine(c, h), NEW d, IsCommand(d), d.at = c.at, d.list = c.list,
         d.bufs = c.bufs, d.call = c.call, d.global = c.global, d.next = c.next, d.err = c.err
  PROVE  Fine(d, h) /\ GetList(d, h) = GetList(c, h) /\ Owned(d) = Owned(c)
<1>1. PICK given : Good(c, h, given)
  BY DEF Fine
<1>2. Good(d, h, given) /\ GetList(d, h) = GetList(c, h) /\ Owned(d) = Owned(c)
  BY <1>1, GoodAlike
<1> QED
  BY <1>2 DEF Fine, HasDefaultString

\* createCookie changes nothing that is executed.
LEMMA CookieIs ==
  ASSUME NEW c, NEW h, Fine(c, h), NEW d, d = WithCookie(c)
  PROVE  /\ Fine(d, h) /\ GetList(d, h) = GetList(c, h) /\ Owned(d) = Owned(c)
         /\ d.number = c.number /\ d.call = c.call /\ d.err = c.err /\ d.global = c.global
         /\ d.list = c.list /\ d.next = c.next /\ d.cookie = c.keyOptions
<1>1. IsCommand(c)
  BY DEF Fine, Good, Ready
<1>2. /\ IsCommand(d) /\ d.at = c.at /\ d.list = c.list /\ d.bufs = c.bufs /\ d.call = c.call
      /\ d.global = c.global /\ d.next = c.next /\ d.err = c.err /\ d.number = c.number
      /\ d.cookie = c.keyOptions
  BY <1>1 DEF WithCookie, IsCommand, IsList
<1> QED
  BY <1>2, FineAlike

\* A list that is copied: one of a single command is in its new Command.
LEMMA CopyListIs ==
  ASSUME NEW l, IsList(l), NEW m, m = CopyList(l), l.ncmds \in Nat
  PROVE  /\ IsList(m) /\ m.ncmds = l.ncmds /\ m.single = l.single /\ m.array = l.array
         /\ m.points = IF l.ncmds < 2 THEN "copy" ELSE l.points
<1>1. CASE l.ncmds < 2
  BY <1>1 DEF CopyList, IsList
<1>2. CASE ~(l.ncmds < 2)
  BY <1>2 DEF CopyList
<1> QED
  BY <1>1, <1>2

\* A Command that is put together from parts of another.
CopyOf(c, list, slot) ==
  [c EXCEPT !.cookie = c.keyOptions, !.at = "copy", !.list = list,
            !.keyOptions = <<>>, !.hashkey = slot]

LEMMA CopyOfIs ==
  ASSUME NEW c, IsCommand(c), NEW list, IsList(list), NEW slot, NEW d, d = CopyOf(c, list, slot)
  PROVE  /\ IsCommand(d) /\ d.at = "copy" /\ d.list = list /\ d.bufs = c.bufs
         /\ d.call = c.call /\ d.global = c.global /\ d.next = c.next /\ d.err = c.err
         /\ d.number = c.number /\ d.cookie = c.keyOptions
BY DEF CopyOf, IsCommand

\* The copy has what the original had.
LEMMA CopyIs ==
  ASSUME NEW c, NEW h, Fine(c, h), c.at = "stack", NEW slot,
         NEW d, d = CopyOf(c, CopyList(c.list), slot)
  PROVE  /\ Fine(d, h) /\ Owned(d) = Owned(c) /\ d.at = "copy"
         /\ d.number = c.number /\ d.call = c.call /\ d.next = c.next
<1>1. PICK given : Good(c, h, given)
  BY DEF Fine
<1>2. PICK l, m : l = c.list /\ m = CopyList(l)
  OBVIOUS
<1>3. IsCommand(c) /\ IsList(l) /\ l.ncmds \in Nat \ {0} /\ Ready(c, h, given) /\ HasList(c, h)
  BY <1>1, <1>2 DEF Good, Ready, HasList, IsCommand
<1>4. /\ IsList(m) /\ m.ncmds = l.ncmds /\ m.single = l.single /\ m.array = l.array
      /\ m.points = IF l.ncmds < 2 THEN "copy" ELSE l.points
  BY <1>2, <1>3, CopyListIs
<1>5. /\ IsCommand(d) /\ d.at = "copy" /\ d.list = m /\ d.bufs = c.bufs
      /\ d.call = c.call /\ d.global = c.global /\ d.next = c.next /\ d.err = c.err
      /\ d.number = c.number
  BY <1>2, <1>3, <1>4, CopyOfIs
<1>6. HasList(d, h)
  BY <1>2, <1>3, <1>4, <1>5 DEF HasList
<1>7. HeapOK(h)
  BY <1>3 DEF Ready, Room
<1>8. GetList(d, h) = GetList(c, h) /\ Owned(d) = Owned(c)
  <2>1. GetList(c, h) = IF l.ncmds = 1 THEN <<l.single>> ELSE h.mem[l.array]
    BY <1>2, <1>3, <1>7, ListIs
  <2>2. GetList(d, h) = IF m.ncmds = 1 THEN <<m.single>> ELSE h.mem[m.array]
    BY <1>5, <1>6, <1>7, ListIs
  <2> QED
    BY <1>2, <1>4, <1>5, <2>1, <2>2 DEF Owned
<1>9. Ready(d, h, given)
  BY <1>3, <1>5 DEF Ready
<1>10. Good(d, h, given)
  BY <1>1, <1>2, <1>4, <1>5, <1>6, <1>8, <1>9 DEF Good
<1>11. Fine(d, h)
  BY <1>2, <1>4, <1>5, <1>8, <1>10 DEF Fine, HasDefaultString
<1> QED
  BY <1>5, <1>8, <1>11

\* What is left of the original owns nothing.
LEMMA OriginalIs ==
  ASSUME NEW c, IsCommand(c),
         NEW d, d = [c EXCEPT !.bufs = MovedFrom(@), !.list = ListMovedFrom(@)],
         c.bufs \in Lists
  PROVE  Owned(d) = {}
<1>1. PICK b, l : b = MovedFrom(c.bufs) /\ l = ListMovedFrom(c.list)
  OBVIOUS
<1>2. b.blocks = {} /\ l.ncmds = 0
  BY <1>1 DEF MovedFrom, ListMovedFrom, Lists, IsCommand, IsList
<1>3. d.bufs = b /\ d.list = l
  BY <1>1 DEF IsCommand
<1> QED
  BY <1>2, <1>3 DEF Owned

-----------------------------------------------------------------------------
(* A Command that begins. *)

\* A list of n commands, for a Command on the stack.
NewList(list, n, h, g) ==
  /\ IsList(list) /\ list.ncmds = n
  /\ n = 1 => list.points = "stack" /\ list.single = ZeroCmd /\ DOMAIN g.mem = DOMAIN h.mem
  /\ n # 1 => /\ list.points = "array" /\ DOMAIN g.mem = DOMAIN h.mem \cup {list.array}
              /\ list.array \notin DOMAIN h.mem /\ g.mem[list.array] = [i \in 1..n |-> ZeroCmd]

ListBegun(h, n, r) ==
  /\ HeapOK(r.heap) /\ DOMAIN h.mem \subseteq DOMAIN r.heap.mem
  /\ \A x \in DOMAIN h.mem : r.heap.mem[x] = h.mem[x]
  /\ IsList(r.list)
  /\ r.ok => n # 0 /\ NewList(r.list, n, h, r.heap)
  /\ ~r.ok => r.list.ncmds = 0 /\ r.heap = h

\* It is there, unless there are no keys; all else in the heap is as it was.
LEMMA InitListIs ==
  ASSUME NEW h, HeapOK(h), NEW n \in Nat, NEW r, r = InitList(h, n)
  PROVE  ListBegun(h, n, r)
<1>1. IsList(NewCommandList) /\ NewCommandList.single = ZeroCmd /\ NewCommandList.ncmds = 0
  BY DEF NewCommandList, IsList
<1>2. CASE n = 0
  <2>1. r = [ok |-> FALSE, list |-> NewCommandList, heap |-> h]
    BY <1>2 DEF InitList
  <2> QED
    BY <1>1, <2>1 DEF ListBegun
<1>3. CASE n = 1
  <2>1. PICK l : l = [NewCommandList EXCEPT !.ncmds = 1, !.points = "stack"]
    OBVIOUS
  <2>2. r = [ok |-> TRUE, heap |-> h, list |-> l]
    BY <1>3, <2>1 DEF InitList
  <2>3. IsList(l) /\ l.ncmds = 1 /\ l.points = "stack" /\ l.single = ZeroCmd
    BY <1>1, <2>1 DEF IsList
  <2>4. r.ok /\ r.heap = h /\ r.list = l
    BY <2>2
  <2> QED
    BY <1>3, <2>3, <2>4 DEF NewList, ListBegun
<1>4. CASE n > 1
  <2>1. PICK new, cells, g : /\ new = h.last + 1 /\ cells = [i \in 1..n |-> ZeroCmd]
                             /\ g = Allocate(h, cells)
    OBVIOUS
  <2>2. PICK l : l = [NewCommandList EXCEPT !.ncmds = n, !.points = "array", !.array = new]
    OBVIOUS
  <2>3. r = [ok |-> TRUE, heap |-> g, list |-> l]
    BY <1>4, <2>1, <2>2 DEF InitList
  <2>4. PICK S : cells \in Seq(S)
    <3>1. cells \in Seq({ZeroCmd})
      BY <2>1
    <3> QED
      BY <3>1
  <2>5. /\ HeapOK(g) /\ DOMAIN g.mem = DOMAIN h.mem \cup {new} /\ g.mem[new] = cells
        /\ \A x \in DOMAIN h.mem : g.mem[x] = h.mem[x]
    <3>1. g = Allocate(h, cells)
      BY <2>1
    <3>2. /\ HeapOK(g) /\ DOMAIN g.mem = DOMAIN h.mem \cup {h.last + 1}
          /\ g.mem[h.last + 1] = cells /\ \A x \in DOMAIN h.mem : g.mem[x] = h.mem[x]
      BY <2>4, <3>1, AllocateIs
    <3> QED
      BY <2>1, <3>2
  <2>6. new \notin DOMAIN h.mem
    BY <2>1, HeapIs
  <2>7. IsList(l) /\ l.ncmds = n /\ l.points = "array" /\ l.array = new
    BY <1>1, <2>2 DEF IsList
  <2>8. r.ok /\ r.heap = g /\ r.list = l
    BY <2>3
  <2>9. NewList(l, n, h, g)
    BY <1>4, <2>1, <2>5, <2>6, <2>7 DEF NewList
  <2>10. DOMAIN h.mem \subseteq DOMAIN g.mem
    BY <2>5
  <2> QED
    BY <1>4, <2>5, <2>7, <2>8, <2>9, <2>10 DEF ListBegun
<1> QED
  BY <1>2, <1>3, <1>4

\* What initialize makes of a call.
Begun(number, call, global, hashkey, list, err) ==
  [at |-> "stack", number |-> number, call |-> call, next |-> 1, global |-> global,
   hashkey |-> hashkey, list |-> list, bufs |-> NewBufferList, keyOptions |-> <<>>,
   err |-> err, cookie |-> <<>>]

LEMMA BegunIs ==
  ASSUME NEW number, NEW call, NEW global, NEW hashkey, NEW list, IsList(list), NEW err,
         NEW c, c = Begun(number, call, global, hashkey, list, err)
  PROVE  /\ IsCommand(c) /\ c.at = "stack" /\ c.number = number /\ c.call = call
         /\ c.next = 1 /\ c.global = global /\ c.hashkey = hashkey /\ c.list = list
         /\ c.bufs = NewBufferList /\ c.err = err /\ c.keyOptions = <<>>
BY DEF Begun, IsCommand

\* A new Command owns its list, and has got no strings.
LEMMA BegunGood ==
  ASSUME NEW h, HeapOK(h), NEW g, HeapOK(g), NEW n \in Nat \ {0}, NEW list,
         NewList(list, n, h, g), NEW c, IsCommand(c), c.at = "stack", c.list = list,
         c.bufs = NewBufferList
  PROVE  Good(c, g, {}) /\ Owned(c) = DOMAIN g.mem \ DOMAIN h.mem
<1>1. PICK b : b = NewBufferList
  OBVIOUS
<1>2. b \in Lists /\ b.blocks = {} /\ b.cur = NoBlock
  BY <1>1, SizeAssumption DEF NewBufferList, Lists, NoBlock
<1>3. Room(b, g, {})
  BY <1>2 DEF Room, ListSound
<1>4. Ready(c, g, {})
  BY <1>1, <1>3 DEF Ready
<1>5. HasList(c, g)
  <2>1. CASE n = 1
    BY <2>1 DEF HasList, NewList
  <2>2. CASE n # 1
    <3>1. Len([i \in 1..n |-> ZeroCmd]) = n
      OBVIOUS
    <3> QED
      BY <1>1, <1>2, <2>2, <3>1 DEF HasList, NewList
  <2> QED
    BY <2>1, <2>2
<1>6. ASSUME NEW i \in 1..n
      PROVE  GetList(c, g)[i] = ZeroCmd
  BY <1>5, <1>6, ListIs DEF NewList
<1>7. IsEntry(ZeroCmd, {})
  BY DEF ZeroCmd, IsEntry, IsLcb, StringsOf
<1>8. Good(c, g, {})
  BY <1>4, <1>5, <1>6, <1>7 DEF Good, NewList
<1>9. Owned(c) = DOMAIN g.mem \ DOMAIN h.mem
  BY <1>1, <1>2, <1>5, ListIs DEF NewList
<1> QED
  BY <1>8, <1>9

\* The options of a call are parsed; those of a lock always have a time.
LEMMA GlobalIs ==
  ASSUME NEW call, Sensible(call), NEW p, p = ParseAll(call.options, Parameters[call.kind]),
         p.ok, NEW slots,
         slots = IF call.kind = "lock" THEN [p.slots EXCEPT !.locktime.status = "found"]
                                       ELSE p.slots
  PROVE  GlobalParsed(call, slots)
<1>1. PICK d, kind : d = call.options /\ kind = call.kind
  OBVIOUS
<1>2. "f" \in DOMAIN d => d.t \in ObjectTypes
  <2>1. d \in Dicts(call)
    BY <1>1 DEF Dicts
  <2> QED
    BY <2>1 DEF Sensible
<1>3. \A name \in Parameters[kind] : IsParsed(p.slots[name], d, name)
  BY <1>1, <1>2, ParsedIs
<1>4. CASE kind # "lock"
  BY <1>1, <1>3, <1>4 DEF GlobalParsed
<1>5. CASE kind = "lock"
  <2>1. DOMAIN p.slots = Parameters[kind]
    BY <1>1 DEF ParseAll
  <2>2. "locktime" \in Parameters[kind]
    BY <1>5 DEF Parameters
  <2>3. PICK slot : slot = p.slots["locktime"]
    OBVIOUS
  <2>4. IsParsed(slot, d, "locktime")
    BY <1>3, <2>2, <2>3
  <2>5. slot = [status |-> slot.status, v |-> slot.v]
    BY <2>4 DEF IsParsed, EmptySlot, ParseValue, ParseCas, ParseNumber, Slot, OptionType
  <2>6. slots["locktime"] = [slot EXCEPT !.status = "found"]
    BY <1>1, <1>5, <2>1, <2>2, <2>3
  <2>7. IsFound(slots["locktime"]) /\ slots["locktime"].v = slot.v
    BY <2>5, <2>6 DEF IsFound
  <2>8. \A name \in Parameters[kind] : name # "locktime" => slots[name] = p.slots[name]
    BY <1>1, <1>5, <2>1
  <2> QED
    BY <1>1, <1>3, <1>5, <2>4, <2>7, <2>8 DEF GlobalParsed
<1> QED
  BY <1>4, <1>5

\* Command::initialize: what it got of the heap belongs to the new Command.
LEMMA InitializeIs ==
  ASSUME HeapOK(heap), NEW call, Sensible(call), NEW r, r = Initialize(call)
  PROVE  /\ HeapOK(r.heap) /\ DOMAIN heap.mem \subseteq DOMAIN r.heap.mem
         /\ \A x \in DOMAIN heap.mem : r.heap.mem[x] = heap.mem[x]
         /\ Owned(r.cmd) = DOMAIN r.heap.mem \ DOMAIN heap.mem
         /\ r.cmd.number = made + 1
         /\ r.ok => /\ Fine(r.cmd, r.heap) /\ r.cmd.at = "stack" /\ r.cmd.call = call
                    /\ IsParsed(r.cmd.hashkey, call.options, "hashkey")
                    /\ r.cmd.next = 1 /\ r.cmd.keyOptions = <<>>
<1>1. PICK n : n = IF call.kind \in {"stats", "http"} THEN 1 ELSE Len(call.keys)
  OBVIOUS
<1>2. n \in Nat /\ Len(call.keys) \in Nat
  BY <1>1 DEF Sensible
<1>3. PICK list : list = InitList(heap, n)
  OBVIOUS
<1>4. PICK global, common : /\ global = ParseAll(call.options, Parameters[call.kind])
                            /\ common = ParseAll(call.options, {"spooled", "hashkey"})
  OBVIOUS
<1>5. PICK slots : slots = IF call.kind = "lock"
                             THEN [global.slots EXCEPT !.locktime.status = "found"]
                             ELSE global.slots
  OBVIOUS
<1>6. PICK ok : ok = (list.ok /\ global.ok /\ common.ok /\ ParseCallback(call.callback) = "found")
  OBVIOUS
<1>7. PICK hashkey, err, l, g, number : /\ hashkey = common.slots.hashkey /\ err = ~ok
                                        /\ l = list.list /\ g = list.heap /\ number = made + 1
  OBVIOUS
<1>8. PICK c : c = Begun(number, call, slots, hashkey, l, err)
  OBVIOUS
<1>9. r = Result(ok, c, g, NULL)
  BY <1>1, <1>3, <1>4, <1>5, <1>6, <1>7, <1>8 DEF Initialize, Begun
<1>10. (r.ok <=> ok) /\ r.cmd = c /\ r.heap = g
  BY <1>9 DEF Result
<1>15. ListBegun(heap, n, list)
  BY <1>2, <1>3, InitListIs
<1>11. /\ HeapOK(g) /\ DOMAIN heap.mem \subseteq DOMAIN g.mem
       /\ \A x \in DOMAIN heap.mem : g.mem[x] = heap.mem[x]
       /\ IsList(l)
       /\ list.ok => n # 0 /\ NewList(l, n, heap, g)
       /\ ~list.ok => l.ncmds = 0 /\ g = heap
  BY <1>7, <1>15 DEF ListBegun
<1>12. /\ IsCommand(c) /\ c.at = "stack" /\ c.number = number /\ c.call = call
       /\ c.next = 1 /\ c.global = slots /\ c.hashkey = hashkey /\ c.list = l
       /\ c.bufs = NewBufferList /\ c.err = err /\ c.keyOptions = <<>>
  BY <1>8, <1>11, BegunIs
<1>13. CASE list.ok
  <2>1. n \in Nat \ {0} /\ NewList(l, n, heap, g)
    BY <1>2, <1>11, <1>13
  <2>2. Good(c, g, {}) /\ Owned(c) = DOMAIN g.mem \ DOMAIN heap.mem
    BY <1>11, <1>12, <2>1, BegunGood
  <2>3. ASSUME ok
        PROVE  Fine(c, g) /\ IsParsed(hashkey, call.options, "hashkey")
    <3>1. global.ok /\ common.ok /\ ~err
      BY <1>6, <1>7, <2>3
    <3>2. GlobalParsed(call, slots)
      BY <1>4, <1>5, <3>1, GlobalIs
    <3>3. "f" \in DOMAIN call.options => call.options.t \in ObjectTypes
      <4>1. call.options \in Dicts(call)
        BY DEF Dicts
      <4> QED
        BY <4>1 DEF Sensible
    <3>4. IsParsed(hashkey, call.options, "hashkey")
      <4>1. PICK d, names, name : /\ d = call.options /\ names = {"spooled", "hashkey"}
                                  /\ name = "hashkey"
        OBVIOUS
      <4>2. name \in names
        BY <4>1
      <4>3. IsParsed(common.slots[name], d, name)
        BY <1>4, <3>1, <3>3, <4>1, <4>2, ParsedIs
      <4> QED
        BY <1>7, <4>1, <4>3
    <3>5. l.ncmds = n /\ n = IF HasDefaultString(c) THEN 1 ELSE Len(call.keys)
      BY <1>1, <1>12, <2>1 DEF NewList, HasDefaultString
    <3>6. /\ Sensible(c.call) /\ GlobalParsed(c.call, c.global)
          /\ c.list.ncmds = IF HasDefaultString(c) THEN 1 ELSE Len(c.call.keys)
          /\ c.next \in Nat \ {0} /\ c.next <= Len(c.call.keys) + 1
          /\ c.next <= c.list.ncmds + 1
      BY <1>2, <1>12, <2>1, <3>2, <3>5
    <3>7. (\A i \in 1..(c.next - 1) : Right(c.call, i, AsRead(GetList(c, g)[i], g))) /\ ~c.err
      BY <1>12, <3>1
    <3> QED
      BY <2>2, <3>4, <3>6, <3>7 DEF Fine
  <2> QED
    BY <1>7, <1>10, <1>11, <1>12, <2>2, <2>3
<1>14. CASE ~list.ok
  <2>1. l.ncmds = 0 /\ g = heap /\ ~ok
    BY <1>6, <1>11, <1>14
  <2>2. c.list.ncmds = 0 /\ c.bufs.blocks = {}
    BY <1>12, <2>1 DEF NewBufferList
  <2>3. Owned(c) = {}
    BY <2>2 DEF Owned
  <2> QED
    BY <1>7, <1>10, <1>11, <1>12, <2>1, <2>3
<1> QED
  BY <1>13, <1>14

-----------------------------------------------------------------------------
(* What is executed. *)

\* What libcouchbase is given of a Command.
Executed(c, h) ==
  [number |-> c.number, list |-> [i \in DOMAIN GetList(c, h) |-> AsRead(GetList(c, h)[i], h)],
   err |-> c.err,
   poll |-> IF c.call.kind = "endure" THEN PollOptions(c.global) ELSE NoPoll]

\* The nodes a call asks for, and the options of its poll.
Node(call, name) == IF Given(call.options, name) THEN call.options.f[name].n ELSE 0

RightPoll(call) ==
  [check_delete |-> /\ "is_delete" \in Properties(call.options)
                    /\ ~IsFalsy(call.options.f.is_delete),
   persist_to |-> Node(call, "persist_to"), replicate_to |-> Node(call, "replicate_to"),
   cap_max |-> Node(call, "persist_to") < 1 \/ Node(call, "replicate_to") < 1]

\* What a call should have become.
Sound(call, s) ==
  /\ Len(s.list) = Len(call.keys) /\ DOMAIN s.list = 1..Len(call.keys)
  /\ DOMAIN call.keys = 1..Len(call.keys)
  /\ \A i \in 1..Len(call.keys) : Right(call, i, s.list[i])
  /\ s.err => \E i \in 1..Len(call.keys) : Tolerated(call, i)
  /\ call.kind = "endure" => s.poll = RightPoll(call)

\* execute gives it away, and the Command is deleted.
LEMMA ExecuteIs ==
  ASSUME NEW c, Execute(c)
  PROVE  sent' = Append(sent, Executed(c, heap)) /\ heap' = Free(heap, Owned(c))
BY DEF Execute, Executed

\* EndureCommand::execute: the options of the poll are those of the call.
LEMMA PollIs ==
  ASSUME NEW call, Sensible(call), call.kind = "endure",
         NEW global, GlobalParsed(call, global)
  PROVE  PollOptions(global) = RightPoll(call)
<1>1. PICK d, p, q, e : /\ d = call.options /\ p = "persist_to" /\ q = "replicate_to"
                        /\ e = "is_delete"
  OBVIOUS
<1>2. {p, q, e} \subseteq Parameters[call.kind]
  BY <1>1 DEF Parameters
<1>3. \A name \in {p, q, e} : IsParsed(global[name], d, name)
  BY <1>1, <1>2 DEF GlobalParsed
<1>4. \A name \in Properties(d) : WellFormed(d.f[name])
  <2>1. ASSUME NEW name \in Properties(d)
        PROVE  d.f[name] \in Values(call)
    BY <1>1, <2>1 DEF Values, Dicts, Properties, Range
  <2> QED
    BY <2>1 DEF Sensible
<1>5. /\ p \in Numeric /\ q \in Numeric /\ OptionType[p] = "int32" /\ OptionType[q] = "int32"
      /\ OptionType[e] = "boolean"
  BY <1>1 DEF Numeric, NumberTypes, OptionType
<1>6. ASSUME NEW name \in {p, q}
      PROVE  global[name].v = Node(call, name)
  <2>1. PICK slot : slot = global[name]
    OBVIOUS
  <2>2. IsParsed(slot, d, name) /\ name \in Numeric /\ OptionType[name] = "int32"
    BY <1>3, <1>5, <2>1
  <2>3. Arrives(OptionType[name], slot.v, NumberOf(d, name))
    BY <1>4, <2>2, NumberIs
  <2> QED
    BY <1>1, <2>1, <2>2, <2>3 DEF Arrives, NumberOf, Node
<1>7. global[e].v = (e \in Properties(d) /\ ~IsFalsy(d.f[e]))
  <2>1. PICK slot : slot = global[e]
    OBVIOUS
  <2>2. IsParsed(slot, d, e)
    BY <1>3, <2>1
  <2>3. CASE e \in Properties(d)
    <3>1. slot = Slot("found", ~IsFalsy(d.f[e]))
      BY <1>5, <2>2, <2>3 DEF IsParsed, ParseValue
    <3> QED
      BY <2>1, <2>3, <3>1 DEF Slot
  <2>4. CASE e \notin Properties(d)
    <3>1. slot = Slot("empty", FALSE)
      BY <1>5, <2>2, <2>4 DEF IsParsed, EmptySlot, Default
    <3>2. slot.v = FALSE
      BY <3>1 DEF Slot
    <3>3. (e \in Properties(d) /\ ~IsFalsy(d.f[e])) = FALSE
      BY <2>4
    <3> QED
      BY <2>1, <3>2, <3>3
  <2> QED
    BY <2>3, <2>4
<1> QED
  BY <1>1, <1>6, <1>7 DEF PollOptions, RightPoll

\* A Command whose keys have all been processed is what its call asks for.
LEMMA ExecutedIs ==
  ASSUME NEW c, NEW h, Fine(c, h), c.next > Len(c.call.keys)
  PROVE  Sound(c.call, Executed(c, h)) /\ Executed(c, h).number = c.number
<1>1. PICK given : Good(c, h, given)
  BY DEF Fine
<1>2. PICK call, l, s, n : call = c.call /\ l = GetList(c, h) /\ s = Executed(c, h)
                           /\ n = Len(call.keys)
  OBVIOUS
<1>3. n \in Nat /\ DOMAIN call.keys = 1..n
  BY <1>2 DEF Fine, Sensible
<1>11. /\ c.next \in Nat /\ c.next <= n + 1 /\ c.next > n /\ c.next <= c.list.ncmds + 1
       /\ c.list.ncmds = IF HasDefaultString(c) THEN 1 ELSE n
  BY <1>2 DEF Fine
<1>4. n = c.list.ncmds /\ c.next - 1 = n
  <2>1. CASE HasDefaultString(c)
    <3>1. n # 0
      BY <1>2, <1>3, <2>1 DEF Fine, Sensible, HasDefaultString
    <3> QED
      BY <1>3, <1>11, <2>1, <3>1
  <2>2. CASE ~HasDefaultString(c)
    BY <1>3, <1>11, <2>2
  <2> QED
    BY <2>1, <2>2
<1>5. DOMAIN l = 1..n
  BY <1>1, <1>2, <1>4, ListIs DEF Good, Ready, Room
<1>6. /\ s.list = [i \in 1..n |-> AsRead(l[i], h)] /\ s.number = c.number /\ s.err = c.err
      /\ call.kind = "endure" => s.poll = PollOptions(c.global)
  BY <1>2, <1>5 DEF Executed
<1>7. Len(s.list) = n /\ DOMAIN s.list = 1..n
  BY <1>3, <1>6
<1>8. \A i \in 1..n : Right(call, i, s.list[i])
  BY <1>2, <1>4, <1>6 DEF Fine
<1>9. s.err => \E i \in 1..n : Tolerated(call, i)
  BY <1>2, <1>6 DEF Fine
<1>10. call.kind = "endure" => s.poll = RightPoll(call)
  BY <1>2, <1>6, PollIs DEF Fine
<1> QED
  BY <1>2, <1>3, <1>6, <1>7, <1>8, <1>9, <1>10 DEF Sound

-----------------------------------------------------------------------------
(* The Commands that are alive. *)

Live(Cs, h) == Owners(Cs, h) /\ \A c \in Cs : Fine(c, h)

\* One comes, ...
LEMMA LiveNew ==
  ASSUME NEW Cs, NEW h, Live(Cs, h), NEW c, NEW g, HeapOK(g),
         DOMAIN h.mem \subseteq DOMAIN g.mem, Owned(c) = DOMAIN g.mem \ DOMAIN h.mem,
         \A x \in DOMAIN h.mem : g.mem[x] = h.mem[x], NEW Ds, Ds = Cs \cup {c}
  PROVE  /\ Owners(Ds, g) /\ \A d \in Cs : Fine(d, g)
         /\ Fine(c, g) => Live(Ds, g)
<1>1. Owners(Cs, h)
  BY DEF Live
<1>2. Owners(Ds, g)
  BY <1>1, OwnersNew
<1>3. ASSUME NEW d \in Cs
      PROVE  Fine(d, g)
  <2>1. Owned(d) \subseteq DOMAIN h.mem /\ Fine(d, h)
    BY <1>1 DEF Live, Owners
  <2>2. Owned(d) \subseteq DOMAIN g.mem /\ \A x \in Owned(d) : g.mem[x] = h.mem[x]
    BY <2>1
  <2> QED
    BY <2>1, <2>2, FineElsewhere
<1> QED
  BY <1>2, <1>3 DEF Live

\* ... grows, ...
LEMMA LiveGrown ==
  ASSUME NEW Cs, NEW h, Live(Cs, h), NEW c \in Cs, NEW c2, NEW g, Grew(c, h, c2, g),
         NEW Ds, Ds = (Cs \ {c}) \cup {c2}
  PROVE  /\ Owners(Ds, g) /\ \A d \in Cs \ {c} : Fine(d, g)
         /\ Fine(c2, g) => Live(Ds, g)
<1>1. Owners(Cs, h)
  BY DEF Live
<1>2. Owners(Ds, g)
  BY <1>1, OwnersGrown
<1>3. /\ HeapOK(g) /\ DOMAIN h.mem \subseteq DOMAIN g.mem
      /\ \A x \in DOMAIN h.mem \ Owned(c) : g.mem[x] = h.mem[x]
  BY DEF Grew
<1>4. ASSUME NEW d \in Cs \ {c}
      PROVE  Fine(d, g)
  <2>1. Owned(d) \subseteq DOMAIN h.mem /\ Fine(d, h) /\ Owned(d) \cap Owned(c) = {}
    BY <1>1 DEF Live, Owners
  <2>2. Owned(d) \subseteq DOMAIN g.mem /\ \A x \in Owned(d) : g.mem[x] = h.mem[x]
    BY <1>3, <2>1
  <2> QED
    BY <1>3, <2>1, <2>2, FineElsewhere
<1> QED
  BY <1>2, <1>4 DEF Live

\* ... and ends.
LEMMA LiveEnd ==
  ASSUME NEW Cs, NEW h, Owners(Cs, h), NEW c \in Cs, \A d \in Cs \ {c} : Fine(d, h),
         NEW g, g = Free(h, Owned(c)), NEW Ds, Ds = Cs \ {c}
  PROVE  Live(Ds, g)
<1>1. Owners(Ds, g) /\ \A x \in DOMAIN g.mem : g.mem[x] = h.mem[x]
  BY OwnersEnd
<1>2. ASSUME NEW d \in Ds
      PROVE  Fine(d, g)
  <2>1. Owned(d) \subseteq DOMAIN g.mem /\ HeapOK(g) /\ Fine(d, h)
    BY <1>1 DEF Owners
  <2>2. \A x \in Owned(d) : g.mem[x] = h.mem[x]
    BY <1>1, <2>1
  <2> QED
    BY <2>1, <2>2, FineElsewhere
<1> QED
  BY <1>1, <1>2 DEF Live

\* A copy takes the place of the original, and nothing is freed.
LEMMA LiveMoved ==
  ASSUME NEW Cs, NEW h, Live(Cs, h), NEW c \in Cs, NEW c2, Fine(c2, h), Owned(c2) = Owned(c),
         NEW g, g = Free(h, {}), NEW Ds, Ds = (Cs \ {c}) \cup {c2}
  PROVE  Live(Ds, g)
<1>1. Owners(Cs, h) /\ HeapOK(h)
  BY DEF Live, Owners
<1>2. HeapOK(g) /\ DOMAIN g.mem = DOMAIN h.mem /\ \A x \in DOMAIN h.mem : g.mem[x] = h.mem[x]
  <2>1. PICK B : B = {}
    OBVIOUS
  <2>2. g = Free(h, B)
    BY <2>1
  <2>3. /\ HeapOK(g) /\ DOMAIN g.mem = DOMAIN h.mem \ B
        /\ \A x \in DOMAIN g.mem : g.mem[x] = h.mem[x]
    BY <1>1, <2>2, FreeIs
  <2> QED
    BY <2>1, <2>3
<1>3. Grew(c, h, c2, g)
  BY <1>2 DEF Grew
<1>4. Owned(c2) \subseteq DOMAIN g.mem /\ \A x \in Owned(c2) : g.mem[x] = h.mem[x]
  BY <1>1, <1>2 DEF Owners
<1>5. Fine(c2, g)
  BY <1>2, <1>4, FineElsewhere
<1> QED
  BY <1>3, <1>5, LiveGrown

-----------------------------------------------------------------------------
(* The invariant. *)

\* The Command on the stack is that of the last call.
OnStack ==
  cmd # NoCommand => /\ cmd.at = "stack" /\ cmd.number = made
                     /\ IsParsed(cmd.hashkey, cmd.call.options, "hashkey")

\* The copies wait in the order of their calls, ready to be executed.
Waiting ==
  /\ \E S : pending \in Seq(S)
  /\ \A i \in DOMAIN pending :
       /\ pending[i].at = "copy" /\ pending[i].next > Len(pending[i].call.keys)
       /\ cmd # NoCommand => pending[i].number < made
  /\ \A i, j \in DOMAIN pending : i < j => pending[i].number < pending[j].number

\* Each Command that is alive is that of a call that was made.
OfCalls == \A c \in Commands : c.number \in 1..made /\ c.call = plan[c.number]

\* What was sent is what its call asked for.
AllSound ==
  /\ \E S : sent \in Seq(S)
  /\ \A x \in DOMAIN sent :
       sent[x].number \in 1..made /\ Sound(plan[sent[x].number], sent[x])

CommandsInv ==
  /\ plan \in Plans /\ made \in 0..Len(plan) /\ connected \in BOOLEAN
  /\ Live(Commands, heap) /\ OfCalls /\ OnStack /\ Waiting
  /\ rejected \subseteq 1..made /\ AllSound

\* A plan is a sequence of calls that can be made.
LEMMA PlanIs ==
  ASSUME NEW p \in Plans
  PROVE  /\ Len(p) \in Nat /\ DOMAIN p = 1..Len(p)
         /\ \A i \in 1..Len(p) : Sensible(p[i]) /\ p[i] \in Range(p)
<1>1. p \in Seq(Range(p)) /\ \A i \in DOMAIN p : Sensible(p[i])
  BY PlansAssumption
<1>2. DOMAIN p = 1..Len(p) /\ Len(p) \in Nat
  BY <1>1
<1> QED
  BY <1>1, <1>2 DEF Range

\* Nothing is there at first.
LEMMA InitInv == Init => CommandsInv
<1> SUFFICES ASSUME Init PROVE CommandsInv
  OBVIOUS
<1>1. /\ plan \in Plans /\ made = 0 /\ connected = FALSE /\ cmd = NoCommand /\ pending = <<>>
      /\ heap = EmptyHeap /\ sent = <<>> /\ rejected = {}
  BY DEF Init
<1>2. Commands = {}
  BY <1>1 DEF Commands, Range
<1>3. HeapOK(heap) /\ DOMAIN heap.mem = {}
  <2>1. PICK mem, S : mem = <<>> /\ S = {}
    OBVIOUS
  <2>2. mem \in [S -> Seq({0})] /\ S \in SUBSET Nat /\ S \subseteq 1..0 /\ 0 \in Nat
    BY <2>1
  <2>3. HeapOK([mem |-> mem, last |-> 0])
    BY <2>2, MakeHeap
  <2> QED
    BY <1>1, <2>1, <2>3 DEF EmptyHeap, NoBlock
<1>4. Live(Commands, heap)
  BY <1>2, <1>3 DEF Live, Owners
<1>5. \A S : <<>> \in Seq(S)
  OBVIOUS
<1>6. Waiting /\ AllSound
  BY <1>1, <1>5 DEF Waiting, AllSound
<1>7. made \in 0..Len(plan) /\ rejected \subseteq 1..made
  BY <1>1, PlanIs
<1> QED
  BY <1>1, <1>2, <1>4, <1>6, <1>7 DEF CommandsInv, OfCalls, OnStack

\* The Commands, with and without one on the stack.
LEMMA CommandsAre ==
  /\ cmd = NoCommand => Commands = Range(pending)
  /\ cmd # NoCommand => Commands = {cmd} \cup Range(pending)
BY DEF Commands

\* The one on the stack is not one of those that wait.
LEMMA WaitingAre ==
  ASSUME OnStack, Waiting, cmd # NoCommand
  PROVE  cmd \notin Range(pending) /\ Commands \ {cmd} = Range(pending) /\ cmd \in Commands
<1>1. \A c \in Range(pending) : c.at = "copy"
  BY DEF Waiting, Range
<1>2. cmd.at = "stack"
  BY DEF OnStack
<1> QED
  BY <1>1, <1>2, CommandsAre

\* What was sent stays right while calls are made.
LEMMA AllSoundKept ==
  ASSUME AllSound, UNCHANGED <<plan, sent>>, made \in Nat, made' \in Nat, made <= made'
  PROVE  AllSound'
BY DEF AllSound

\* A call is made.
LEMMA MakeCallInv == CommandsInv /\ MakeCall => CommandsInv'
<1> SUFFICES ASSUME CommandsInv, MakeCall PROVE CommandsInv'
  OBVIOUS
<1>1. PICK r, call, c : /\ call = plan[made + 1] /\ r = Initialize(call) /\ c = r.cmd
  OBVIOUS
<1>2. /\ cmd = NoCommand /\ made < Len(plan) /\ made' = made + 1
      /\ UNCHANGED <<plan, connected, pending, sent>>
  BY DEF MakeCall, InLoop
<1>3. \/ r.ok /\ cmd' = c /\ heap' = r.heap /\ UNCHANGED rejected
      \/ ~r.ok /\ BailOut(c, r.heap)
  BY <1>1 DEF MakeCall
<1>4. made \in Nat /\ plan \in Plans /\ made + 1 \in 1..Len(plan) /\ Len(plan) \in Nat
  BY <1>2, PlanIs DEF CommandsInv
<1>5. Sensible(call)
  BY <1>1, <1>4, PlanIs
<1>6. HeapOK(heap) /\ Live(Commands, heap) /\ Commands = Range(pending)
  BY <1>2, CommandsAre DEF CommandsInv, Live, Owners
<1>7. /\ HeapOK(r.heap) /\ DOMAIN heap.mem \subseteq DOMAIN r.heap.mem
      /\ \A x \in DOMAIN heap.mem : r.heap.mem[x] = heap.mem[x]
      /\ Owned(c) = DOMAIN r.heap.mem \ DOMAIN heap.mem
      /\ c.number = made + 1
      /\ r.ok => /\ Fine(c, r.heap) /\ c.at = "stack" /\ c.call = call
                 /\ IsParsed(c.hashkey, call.options, "hashkey")
  BY <1>1, <1>5, <1>6, InitializeIs
<1>8. \A d \in Range(pending) : d.number \in 1..made /\ d.call = plan[d.number]
  BY <1>6 DEF CommandsInv, OfCalls
<1>9. c \notin Range(pending)
  BY <1>4, <1>7, <1>8
<1>10. PICK Ds : Ds = Range(pending) \cup {c}
  OBVIOUS
<1>11. PICK g : g = r.heap
  OBVIOUS
<1>12. /\ Owners(Ds, g) /\ \A d \in Range(pending) : Fine(d, g)
       /\ Fine(c, g) => Live(Ds, g)
  BY <1>6, <1>7, <1>10, <1>11, LiveNew
<1>13. AllSound' /\ (rejected \subseteq 1..made => rejected \subseteq 1..made')
  BY <1>2, <1>4, AllSoundKept DEF CommandsInv
<1>14. made' \in 0..Len(plan') /\ plan' \in Plans /\ connected' \in BOOLEAN
  BY <1>2, <1>4 DEF CommandsInv
<1>15. \A i \in DOMAIN pending : pending[i].number < made + 1
  BY <1>4, <1>8 DEF Range
<1>16. Waiting'
  BY <1>2, <1>15 DEF CommandsInv, Waiting
<1>17. CASE r.ok
  <2>1. cmd' = c /\ heap' = g /\ rejected' = rejected /\ c # NoCommand
    <3>1. c.at # NoCommand.at
      BY <1>7, <1>17 DEF NoCommand
    <3> QED
      BY <1>3, <1>11, <1>17, <3>1
  <2>2. Commands' = Ds
    BY <1>2, <1>10, <2>1 DEF Commands
  <2>3. Live(Ds, g)
    BY <1>7, <1>11, <1>12, <1>17
  <2>4. OnStack'
    BY <1>2, <1>7, <1>17, <2>1 DEF OnStack
  <2>5. OfCalls'
    BY <1>1, <1>2, <1>4, <1>7, <1>8, <1>10, <1>17, <2>2 DEF OfCalls
  <2> QED
    BY <1>13, <1>14, <1>16, <2>1, <2>2, <2>3, <2>4, <2>5 DEF CommandsInv
<1>18. CASE ~r.ok
  <2>1. /\ rejected' = rejected \cup {c.number} /\ cmd' = NoCommand
        /\ heap' = Free(g, Owned(c))
    BY <1>3, <1>11, <1>18 DEF BailOut
  <2>2. Commands' = Range(pending) /\ Ds \ {c} = Range(pending)
    BY <1>2, <1>9, <1>10, <2>1 DEF Commands
  <2>3. Live(Commands', heap')
    <3>1. c \in Ds /\ \A d \in Ds \ {c} : Fine(d, g)
      BY <1>10, <1>12, <2>2
    <3>2. PICK k : k = Free(g, Owned(c))
      OBVIOUS
    <3>3. Live(Range(pending), k)
      BY <1>12, <2>2, <3>1, <3>2, LiveEnd
    <3> QED
      BY <2>1, <2>2, <3>2, <3>3
  <2>4. OnStack'
    BY <2>1 DEF OnStack
  <2>5. OfCalls'
    BY <1>2, <1>4, <1>8, <2>2 DEF OfCalls
  <2>6. rejected' \subseteq 1..made'
    BY <1>2, <1>4, <1>7, <1>13, <2>1 DEF CommandsInv
  <2> QED
    BY <1>13, <1>14, <1>16, <2>3, <2>4, <2>5, <2>6 DEF CommandsInv
<1> QED
  BY <1>17, <1>18

\* A key is processed.
LEMMA ProcessKeyInv == CommandsInv /\ ProcessKey => CommandsInv'
<1> SUFFICES ASSUME CommandsInv, ProcessKey PROVE CommandsInv'
  OBVIOUS
<1>1. PICK c, h, r : c = cmd /\ h = heap /\ r = ProcessSingle(c, h, c.next)
  OBVIOUS
<1>2. /\ c # NoCommand /\ ~(c.next > Len(c.call.keys))
      /\ UNCHANGED <<plan, made, connected, pending, sent>>
  BY <1>1 DEF ProcessKey, InLoop, Processed
<1>3. \/ r.ok /\ cmd' = [r.cmd EXCEPT !.next = @ + 1] /\ heap' = r.heap /\ UNCHANGED rejected
      \/ ~r.ok /\ BailOut(r.cmd, r.heap)
  BY <1>1 DEF ProcessKey
<1>4. PICK Cs, Qs : Cs = Commands /\ Qs = Range(pending)
  OBVIOUS
<1>5. c \in Cs /\ c \notin Qs /\ Cs \ {c} = Qs
  BY <1>1, <1>2, <1>4, WaitingAre DEF CommandsInv
<1>6. /\ Live(Cs, h) /\ Fine(c, h) /\ c.at = "stack" /\ c.number = made
      /\ IsParsed(c.hashkey, c.call.options, "hashkey")
      /\ c.number \in 1..made /\ c.call = plan[c.number]
  BY <1>1, <1>2, <1>4, <1>5 DEF CommandsInv, OnStack, OfCalls, Live
<1>7. c.next <= Len(c.call.keys)
  BY <1>2, <1>6 DEF Fine, Sensible
<1>8. PICK d, e, g : d = [e EXCEPT !.next = @ + 1] /\ e = r.cmd /\ g = r.heap
  OBVIOUS
<1>9. /\ Grew(c, h, e, g) /\ SameCall(c, e)
      /\ r.ok => \A x : x = [e EXCEPT !.next = @ + 1] =>
           /\ Fine(x, g) /\ Owned(x) = Owned(e)
           /\ x.at = c.at /\ x.number = c.number /\ x.call = c.call /\ x.hashkey = c.hashkey
  BY <1>1, <1>6, <1>7, <1>8, FineNext
<1>10. e.number = c.number
  BY <1>9 DEF SameCall
<1>11. \A q \in Qs : q.number < c.number /\ q.number \in 1..made /\ q.call = plan[q.number]
  BY <1>1, <1>2, <1>4, <1>5, <1>6 DEF CommandsInv, Waiting, OfCalls, Range
<1>12. made \in Nat
  BY PlanIs DEF CommandsInv
<1>13. \A q \in Qs : q.number # c.number
  BY <1>6, <1>11, <1>12
<1>14. AllSound'
  BY <1>2, <1>12, AllSoundKept DEF CommandsInv
<1>15. made' \in 0..Len(plan') /\ plan' \in Plans /\ connected' \in BOOLEAN
  BY <1>2 DEF CommandsInv
<1>16. Waiting'
  BY <1>1, <1>2 DEF CommandsInv, Waiting
<1>17. CASE r.ok
  <2>1. cmd' = d /\ heap' = g /\ rejected' = rejected
    BY <1>3, <1>8, <1>17
  <2>2. /\ Fine(d, g) /\ Owned(d) = Owned(e)
        /\ d.at = c.at /\ d.number = c.number /\ d.call = c.call /\ d.hashkey = c.hashkey
    BY <1>8, <1>9, <1>17
  <2>3. d # NoCommand
    <3>1. d.at # NoCommand.at
      BY <1>6, <2>2 DEF NoCommand
    <3> QED
      BY <3>1
  <2>4. Commands' = Qs \cup {d} /\ Commands' = (Cs \ {c}) \cup {d}
    BY <1>2, <1>4, <1>5, <2>1, <2>3 DEF Commands
  <2>5. Grew(c, h, d, g)
    BY <1>9, <2>2 DEF Grew
  <2>6. Live(Commands', g)
    <3>1. PICK Ds : Ds = (Cs \ {c}) \cup {d}
      OBVIOUS
    <3>2. Live(Ds, g)
      BY <1>5, <1>6, <2>2, <2>5, <3>1, LiveGrown
    <3> QED
      BY <2>4, <3>1, <3>2
  <2>7. OnStack'
    BY <1>2, <1>6, <2>1, <2>2 DEF OnStack
  <2>8. OfCalls'
    BY <1>2, <1>6, <1>11, <2>2, <2>4 DEF OfCalls
  <2> QED
    BY <1>2, <1>14, <1>15, <1>16, <2>1, <2>6, <2>7, <2>8 DEF CommandsInv
<1>18. CASE ~r.ok
  <2>1. /\ rejected' = rejected \cup {e.number} /\ cmd' = NoCommand
        /\ heap' = Free(g, Owned(e))
    BY <1>3, <1>8, <1>18 DEF BailOut
  <2>2. Commands' = Qs
    BY <1>2, <1>4, <2>1 DEF Commands
  <2>3. PICK Ds, k : Ds = (Cs \ {c}) \cup {e} /\ k = Free(g, Owned(e))
    OBVIOUS
  <2>4. Owners(Ds, g) /\ \A x \in Cs \ {c} : Fine(x, g)
    BY <1>5, <1>6, <1>9, <2>3, LiveGrown
  <2>5. e \in Ds /\ Ds \ {e} = Qs
    BY <1>5, <1>10, <1>13, <2>3
  <2>6. Live(Qs, k)
    BY <1>5, <2>3, <2>4, <2>5, LiveEnd
  <2>7. OnStack'
    BY <2>1 DEF OnStack
  <2>8. OfCalls'
    BY <1>2, <1>11, <2>2 DEF OfCalls
  <2>9. rejected' \subseteq 1..made'
    BY <1>2, <1>6, <1>10, <2>1 DEF CommandsInv
  <2> QED
    BY <1>14, <1>15, <1>16, <2>1, <2>2, <2>3, <2>6, <2>7, <2>8, <2>9 DEF CommandsInv
<1> QED
  BY <1>17, <1>18

\* A Command whose keys are all processed is executed, and it is right.
LEMMA ExecuteSound ==
  ASSUME AllSound, UNCHANGED <<plan, made>>, NEW c, Fine(c, heap), c.next > Len(c.call.keys),
         c.number \in 1..made, c.call = plan[c.number], Execute(c)
  PROVE  AllSound'
<1>1. PICK s : s = Executed(c, heap)
  OBVIOUS
<1>2. sent' = Append(sent, s)
  BY <1>1, ExecuteIs
<1>3. Sound(c.call, s) /\ s.number = c.number
  BY <1>1, ExecutedIs
<1>4. PICK S : sent \in Seq(S)
  BY DEF AllSound
<1>5. sent \in Seq(S \cup {s}) /\ sent' \in Seq(S \cup {s})
  BY <1>2, <1>4
<1>6. ASSUME NEW x \in DOMAIN sent'
      PROVE  sent'[x].number \in 1..made /\ Sound(plan[sent'[x].number], sent'[x])
  <2>1. CASE x \in DOMAIN sent
    <3>1. sent'[x] = sent[x]
      BY <1>2, <1>4, <2>1
    <3> QED
      BY <2>1, <3>1 DEF AllSound
  <2>2. CASE x \notin DOMAIN sent
    <3>1. sent'[x] = s
      BY <1>2, <1>4, <1>6, <2>2
    <3> QED
      BY <1>3, <3>1
  <2> QED
    BY <2>1, <2>2
<1> QED
  BY <1>5, <1>6 DEF AllSound

\* The Command on the stack is executed.
LEMMA ExecuteNowInv == CommandsInv /\ ExecuteNow => CommandsInv'
<1> SUFFICES ASSUME CommandsInv, ExecuteNow PROVE CommandsInv'
  OBVIOUS
<1>1. PICK c, d, h, Qs : c = cmd /\ d = WithCookie(c) /\ h = heap /\ Qs = Range(pending)
  OBVIOUS
<1>2. /\ c # NoCommand /\ c.next > Len(c.call.keys) /\ Execute(d) /\ cmd' = NoCommand
      /\ UNCHANGED <<plan, made, connected, pending, rejected>>
  BY <1>1 DEF ExecuteNow, InLoop, Processed
<1>3. c \in Commands /\ Commands \ {c} = Qs
  BY <1>1, <1>2, WaitingAre DEF CommandsInv
<1>4. /\ Live(Commands, h) /\ Fine(c, h) /\ c.number \in 1..made /\ c.call = plan[c.number]
  BY <1>1, <1>3 DEF CommandsInv, OfCalls, Live
<1>5. /\ Fine(d, h) /\ Owned(d) = Owned(c)
      /\ d.number = c.number /\ d.call = c.call /\ d.next = c.next
  BY <1>1, <1>4, CookieIs
<1>6. AllSound'
  BY <1>1, <1>2, <1>4, <1>5, ExecuteSound DEF CommandsInv
<1>7. heap' = Free(h, Owned(c))
  BY <1>1, <1>2, <1>5, ExecuteIs
<1>8. PICK Cs, g : Cs = Commands /\ g = Free(h, Owned(c))
  OBVIOUS
<1>9. Live(Qs, g)
  <2>1. Owners(Cs, h) /\ (\A x \in Cs \ {c} : Fine(x, h)) /\ c \in Cs /\ Qs = Cs \ {c}
    BY <1>3, <1>4, <1>8 DEF Live
  <2> QED
    BY <1>8, <2>1, LiveEnd
<1>10. Commands' = Qs
  BY <1>1, <1>2 DEF Commands
<1>11. OfCalls'
  BY <1>2, <1>3, <1>10 DEF CommandsInv, OfCalls
<1>12. OnStack' /\ Waiting'
  BY <1>2 DEF CommandsInv, OnStack, Waiting
<1> QED
  BY <1>2, <1>6, <1>7, <1>8, <1>9, <1>10, <1>11, <1>12 DEF CommandsInv

\* A Command is copied to the heap, to be executed later.
LEMMA EnqueueInv == CommandsInv /\ Enqueue => CommandsInv'
<1> SUFFICES ASSUME CommandsInv, Enqueue PROVE CommandsInv'
  OBVIOUS
<1>1. PICK c, h, slot, list, Qs : /\ c = cmd /\ h = heap /\ slot = EmptySlot("hashkey")
                                  /\ list = CopyList(c.list) /\ Qs = Range(pending)
  OBVIOUS
<1>2. PICK d, o : /\ d = CopyOf(c, list, slot)
                  /\ o = [c EXCEPT !.bufs = MovedFrom(@), !.list = ListMovedFrom(@)]
  OBVIOUS
<1>3. c \in Commands /\ Commands \ {c} = Qs /\ c # NoCommand
  BY <1>1, WaitingAre DEF CommandsInv, Enqueue, Processed, InLoop
<1>4. /\ Live(Commands, h) /\ Fine(c, h) /\ c.number \in 1..made /\ c.call = plan[c.number]
      /\ c.at = "stack" /\ c.number = made
  BY <1>1, <1>3 DEF CommandsInv, OfCalls, Live, OnStack
<1>5. PICK given : Good(c, h, given)
  BY <1>4 DEF Fine
<1>6. IsCommand(c) /\ c.bufs \in Lists
  BY <1>5 DEF Good, Ready, Room
<1>7. d = [WithCookie(c) EXCEPT !.at = "copy", !.list = CopyList(@),
                                !.keyOptions = <<>>, !.hashkey = slot]
  <2>1. PICK e : e = WithCookie(c)
    OBVIOUS
  <2>2. e = [c EXCEPT !.cookie = c.keyOptions] /\ e.list = c.list
    BY <1>6, <2>1 DEF WithCookie, IsCommand
  <2> QED
    BY <1>1, <1>2, <1>6, <2>1, <2>2 DEF CopyOf, IsCommand
<1>8. /\ c.next > Len(c.call.keys) /\ pending' = Append(pending, d)
      /\ heap' = Free(h, Owned(o)) /\ cmd' = NoCommand
      /\ UNCHANGED <<plan, made, connected, sent, rejected>>
  BY <1>1, <1>2, <1>7 DEF Enqueue, Processed
<1>9. /\ Fine(d, h) /\ Owned(d) = Owned(c) /\ d.at = "copy"
      /\ d.number = c.number /\ d.call = c.call /\ d.next = c.next
  BY <1>1, <1>2, <1>4, CopyIs
<1>10. Owned(o) = {}
  BY <1>2, <1>6, OriginalIs
<1>11. PICK S : pending \in Seq(S)
  BY DEF CommandsInv, Waiting
<1>12. PICK n : n = Len(pending)
  OBVIOUS
<1>13. /\ n \in Nat /\ DOMAIN pending = 1..n /\ DOMAIN pending' = 1..(n + 1)
       /\ pending'[n + 1] = d /\ \A i \in 1..n : pending'[i] = pending[i]
       /\ pending' \in Seq(S \cup {d})
  BY <1>8, <1>11, <1>12
<1>14. Commands' = Qs \cup {d} /\ Commands' = (Commands \ {c}) \cup {d}
  <2>1. Range(pending') = Qs \cup {d}
    BY <1>1, <1>13 DEF Range
  <2> QED
    BY <1>3, <1>8, <2>1 DEF Commands
<1>15. Live(Commands', heap')
  <2>1. PICK Cs, Ds, g : Cs = Commands /\ Ds = (Cs \ {c}) \cup {d} /\ g = Free(h, {})
    OBVIOUS
  <2>2. Live(Ds, g)
    BY <1>3, <1>4, <1>9, <2>1, LiveMoved
  <2> QED
    BY <1>8, <1>10, <1>14, <2>1, <2>2
<1>16. OfCalls'
  BY <1>3, <1>4, <1>8, <1>9, <1>14 DEF CommandsInv, OfCalls
<1>17. made \in Nat
  BY PlanIs DEF CommandsInv
<1>18. \A i \in 1..n : /\ pending[i].at = "copy" /\ pending[i].number < made
                       /\ pending[i].next > Len(pending[i].call.keys)
  BY <1>1, <1>3, <1>13 DEF CommandsInv, Waiting
<1>19. Waiting'
  <2>1. \A i \in 1..(n + 1) : /\ pending'[i].at = "copy"
                              /\ pending'[i].next > Len(pending'[i].call.keys)
    <3> SUFFICES ASSUME NEW i \in 1..(n + 1)
                 PROVE  /\ pending'[i].at = "copy"
                        /\ pending'[i].next > Len(pending'[i].call.keys)
      OBVIOUS
    <3>1. CASE i = n + 1
      BY <1>8, <1>9, <1>13, <3>1
    <3>2. CASE i # n + 1
      <4>1. i \in 1..n
        BY <1>13, <3>2
      <4> QED
        BY <1>13, <1>18, <4>1
    <3> QED
      BY <3>1, <3>2
  <2>2. ASSUME NEW i \in 1..(n + 1), NEW j \in 1..(n + 1), i < j
        PROVE  pending'[i].number < pending'[j].number
    <3>1. i \in 1..n /\ pending'[i] = pending[i]
      BY <1>13, <2>2
    <3>2. CASE j = n + 1
      BY <1>4, <1>9, <1>13, <1>18, <3>1, <3>2
    <3>3. CASE j # n + 1
      <4>1. j \in 1..n /\ pending'[j] = pending[j]
        BY <1>13, <3>3
      <4> QED
        BY <1>13, <2>2, <3>1, <4>1 DEF CommandsInv, Waiting
    <3> QED
      BY <3>2, <3>3
  <2> QED
    BY <1>8, <1>13, <2>1, <2>2 DEF Waiting
<1>20. AllSound'
  BY <1>8, <1>17, AllSoundKept DEF CommandsInv
<1> QED
  BY <1>8, <1>15, <1>16, <1>19, <1>20 DEF CommandsInv, OnStack

\* The configuration arrives.
LEMMA ConnectInv == CommandsInv /\ Connect => CommandsInv'
<1> SUFFICES ASSUME CommandsInv, Connect PROVE CommandsInv'
  OBVIOUS
<1>1. connected' = TRUE /\ UNCHANGED <<plan, made, cmd, pending, heap, sent, rejected>>
  BY DEF Connect
<1>2. Commands' = Commands
  BY <1>1 DEF Commands
<1> QED
  BY <1>1, <1>2 DEF CommandsInv, OfCalls, OnStack, Waiting, AllSound

\* The first copy that waits is executed.
LEMMA RunNextInv == CommandsInv /\ RunNext => CommandsInv'
<1> SUFFICES ASSUME CommandsInv, RunNext PROVE CommandsInv'
  OBVIOUS
<1>1. PICK c, h, n : c = Head(pending) /\ h = heap /\ n = Len(pending)
  OBVIOUS
<1>2. /\ cmd = NoCommand /\ pending # <<>> /\ Execute(c) /\ pending' = Tail(pending)
      /\ UNCHANGED <<plan, made, connected, cmd, rejected>>
  BY <1>1 DEF RunNext, InLoop
<1>3. PICK S : pending \in Seq(S)
  BY DEF CommandsInv, Waiting
<1>4. /\ n \in Nat \ {0} /\ DOMAIN pending = 1..n /\ c = pending[1]
      /\ pending' \in Seq(S) /\ DOMAIN pending' = 1..(n - 1)
      /\ \A i \in 1..(n - 1) : pending'[i] = pending[i + 1]
  BY <1>1, <1>2, <1>3
<1>5. PICK Cs, Ds : Cs = Range(pending) /\ Ds = Range(pending')
  OBVIOUS
<1>6. Commands = Cs /\ Commands' = Ds
  BY <1>2, <1>5 DEF Commands
<1>7. made \in Nat
  BY PlanIs DEF CommandsInv
<1>8. ASSUME NEW i \in 2..n
      PROVE  pending[i] # c
  <2>1. 1 \in DOMAIN pending /\ i \in DOMAIN pending /\ 1 < i
    BY <1>4
  <2>2. pending[1].number < pending[i].number
    BY <2>1 DEF CommandsInv, Waiting
  <2>3. pending[1].number \in 1..made
    BY <1>4, <1>5, <1>6, <2>1 DEF CommandsInv, OfCalls, Range
  <2> QED
    BY <1>4, <1>7, <2>2, <2>3
<1>9. c \in Cs /\ Ds = Cs \ {c}
  <2>1. c \in Cs
    BY <1>4, <1>5 DEF Range
  <2>2. ASSUME NEW d \in Ds PROVE d \in Cs \ {c}
    <3>1. PICK i \in 1..(n - 1) : d = pending'[i]
      BY <1>4, <1>5 DEF Range
    <3>2. i + 1 \in 2..n /\ i + 1 \in DOMAIN pending /\ d = pending[i + 1]
      BY <1>4, <3>1
    <3> QED
      BY <1>5, <1>8, <3>2 DEF Range
  <2>3. ASSUME NEW d \in Cs \ {c} PROVE d \in Ds
    <3>1. PICK i \in 1..n : d = pending[i]
      BY <1>4, <1>5 DEF Range
    <3>2. i # 1 /\ i - 1 \in 1..(n - 1)
      BY <1>4, <2>3, <3>1
    <3>3. pending'[i - 1] = d
      BY <1>4, <3>1, <3>2
    <3> QED
      BY <1>4, <1>5, <3>2, <3>3 DEF Range
  <2> QED
    BY <2>1, <2>2, <2>3
<1>10. /\ Live(Cs, h) /\ Fine(c, h) /\ c.number \in 1..made /\ c.call = plan[c.number]
       /\ c.next > Len(c.call.keys)
  BY <1>1, <1>4, <1>6, <1>9 DEF CommandsInv, OfCalls, Live, Waiting
<1>11. AllSound'
  BY <1>1, <1>2, <1>10, ExecuteSound DEF CommandsInv
<1>12. heap' = Free(h, Owned(c))
  BY <1>1, <1>2, ExecuteIs
<1>13. PICK g : g = Free(h, Owned(c))
  OBVIOUS
<1>14. Live(Ds, g)
  <2>1. Owners(Cs, h) /\ \A x \in Cs \ {c} : Fine(x, h)
    BY <1>10 DEF Live
  <2> QED
    BY <1>9, <1>13, <2>1, LiveEnd
<1>15. OfCalls'
  BY <1>2, <1>6, <1>9 DEF CommandsInv, OfCalls
<1>16. Waiting'
  <2>1. ASSUME NEW i \in 1..(n - 1)
        PROVE  pending'[i].at = "copy" /\ pending'[i].next > Len(pending'[i].call.keys)
    <3>1. i + 1 \in DOMAIN pending /\ pending'[i] = pending[i + 1]
      BY <1>4
    <3> QED
      BY <3>1 DEF CommandsInv, Waiting
  <2>2. ASSUME NEW i \in 1..(n - 1), NEW j \in 1..(n - 1), i < j
        PROVE  pending'[i].number < pending'[j].number
    <3>1. i + 1 \in 1..n /\ j + 1 \in 1..n /\ i + 1 < j + 1
      BY <1>4, <2>2
    <3>2. pending[i + 1].number < pending[j + 1].number
      BY <1>4, <3>1 DEF CommandsInv, Waiting
    <3> QED
      BY <1>4, <3>2
  <2> QED
    BY <1>2, <1>4, <2>1, <2>2 DEF Waiting
<1>17. OnStack'
  BY <1>2 DEF OnStack
<1> QED
  BY <1>2, <1>6, <1>11, <1>12, <1>13, <1>14, <1>15, <1>16, <1>17 DEF CommandsInv

\* The invariant holds.
LEMMA InvHolds == Spec => []CommandsInv
<1>1. CommandsInv /\ UNCHANGED vars => CommandsInv'
  <2> SUFFICES ASSUME CommandsInv, UNCHANGED vars PROVE CommandsInv'
    OBVIOUS
  <2>1. UNCHANGED <<plan, made, connected, cmd, pending, heap, sent, rejected>>
    BY DEF vars
  <2>2. Commands' = Commands
    BY <2>1 DEF Commands
  <2> QED
    BY <2>1, <2>2 DEF CommandsInv, OfCalls, OnStack, Waiting, AllSound
<1>2. CommandsInv /\ [Next]_vars => CommandsInv'
  BY <1>1, MakeCallInv, ProcessKeyInv, ExecuteNowInv, EnqueueInv, ConnectInv, RunNextInv DEF Next
<1> QED
  BY <1>2, InitInv, PTL DEF Spec

-----------------------------------------------------------------------------
(* The properties. *)

\* The types of the variables of Commands, and the ranges of what is counted.
THEOREM CommandsTypeCorrect == Spec => []TypeOK
<1>1. CommandsInv => TypeOK
  <2> SUFFICES ASSUME CommandsInv PROVE TypeOK
    OBVIOUS
  <2>1. ASSUME NEW c \in Commands
        PROVE  /\ c.call \in Range(plan) /\ c.list.ncmds \in Nat
               /\ c.list.points \in {c.at, "array"}
               /\ c.bufs.blocks \subseteq Nat /\ c.bufs.used \in Nat
    <3>1. PICK given : Good(c, heap, given)
      BY DEF CommandsInv, Live, Fine
    <3>2. HasList(c, heap) /\ c.bufs \in Lists
      BY <3>1 DEF Good, Ready, Room
    <3>3. c.call \in Range(plan)
      <4>1. c.number \in 1..made /\ c.call = plan[c.number]
        BY DEF CommandsInv, OfCalls
      <4>2. c.number \in 1..Len(plan)
        BY <4>1, PlanIs DEF CommandsInv
      <4> QED
        BY <4>1, <4>2, PlanIs DEF CommandsInv
    <3> QED
      BY <3>2, <3>3 DEF HasList, Lists
  <2>2. DOMAIN heap.mem \subseteq 1..heap.last
    BY DEF CommandsInv, Live, Owners, HeapOK
  <2> QED
    BY <2>1, <2>2 DEF TypeOK, CommandsInv, AllSound
<1> QED
  BY <1>1, InvHolds, PTL

\* Each block of memory is owned by one Command that is alive, as a call goes
\* through the stack, the heap and its end in whatever way (CommandList and
\* BufferList: their copies and destructors).
THEOREM BlocksHaveOneOwner == Spec => []OneOwner
<1>1. CommandsInv => OneOwner
  BY DEF CommandsInv, Live, Owners, OneOwner
<1> QED
  BY <1>1, InvHolds, PTL

\* The strings of a Command are in its own blocks, apart from each other
\* (getBufBackedString and BufferList::getBuffer).
THEOREM StringsApart == Spec => []BuffersSound
<1>1. CommandsInv => BuffersSound
  <2> SUFFICES ASSUME CommandsInv, NEW c \in Commands
               PROVE  ListSound(c.bufs, [b \in DOMAIN heap.mem |-> Len(heap.mem[b])], Pointers(c))
    BY DEF BuffersSound
  <2>1. PICK given : Good(c, heap, given)
    BY DEF CommandsInv, Live, Fine
  <2>2. PICK l, n : l = GetList(c, heap) /\ n = c.list.ncmds
    OBVIOUS
  <2>3. DOMAIN l = 1..n /\ \A i \in 1..n : StringsOf(l[i]) \subseteq given \cup {NULL, StaticEmpty}
    BY <2>1, <2>2, ListIs DEF Good, Ready, Room, IsEntry
  <2> DEFINE Ts == {{l[i].key, l[i].hashkey, l[i].bytes, l[i].path, l[i].body,
                     l[i].content_type} : i \in DOMAIN l}
  <2>4. Pointers(c) = (UNION Ts) \ {NULL, StaticEmpty}
    BY <2>2 DEF Pointers
  <2>5. ASSUME NEW q \in Pointers(c)
        PROVE  q \in given
    <3>1. PICK T \in Ts : q \in T
      BY <2>4
    <3>2. PICK i \in DOMAIN l : T = StringsOf(l[i])
      BY <2>4 DEF StringsOf
    <3> QED
      BY <2>3, <2>4, <3>1, <3>2
  <2>6. Room(c.bufs, heap, given)
    BY <2>1 DEF Good, Ready
  <2>7. Room(c.bufs, heap, Pointers(c))
    <3>1. Pointers(c) \subseteq given
      BY <2>5
    <3> QED
      BY <2>6, <3>1, RoomForLess
  <2> QED
    BY <2>7 DEF Room, SizeOf
<1> QED
  BY <1>1, InvHolds, PTL

\* What is sent is what its call asked for.
LEMMA SentIs ==
  ASSUME CommandsInv, NEW x \in DOMAIN sent, NEW s, s = sent[x], NEW call, call = Call(s)
  PROVE  Sound(call, s)
BY DEF CommandsInv, AllSound, Call

\* Each option that the code hands on reaches libcouchbase as it was given for
\* the key, or else for the call, and never as it was given for another key (the
\* merge and handleSingle of commands.cc, and EndureCommand::execute).  Those it
\* does not hand on, against couchbase.js:745-750, 394-396 and 453-458, are
\* excepted by name: Ignored and Written.
THEOREM OptionsArrive == Spec => []OptionsHonoured
<1>1. CommandsInv => OptionsHonoured
  <2> SUFFICES ASSUME CommandsInv PROVE OptionsHonoured
    OBVIOUS
  <2>1. ASSUME NEW x \in DOMAIN sent, NEW s, s = sent[x], NEW call, call = Call(s)
        PROVE  /\ Len(s.list) = Len(call.keys)
               /\ \A i \in DOMAIN s.list : /\ RightNumbers(call, i, s.list[i])
                                           /\ RightRest(call, i, s.list[i])
               /\ call.kind = "endure" => s.poll = RightPoll(call)
    BY <2>1, SentIs DEF Sound, Right
  <2> QED
    BY <2>1 DEF OptionsHonoured, RightNumbers, RightRest, RightNumber, RightPoll, Node
<1> QED
  BY <1>1, InvHolds, PTL

\* A number arrives as it was given, whatever its type is narrowed to, except
\* for negative 64-bit ones (NumericSlot::parseValue).
THEOREM NumbersCorrect == Spec => []NumbersArrive
<1>1. CommandsInv => NumbersArrive
  <2> SUFFICES ASSUME CommandsInv PROVE NumbersArrive
    OBVIOUS
  <2>1. ASSUME NEW x \in DOMAIN sent, NEW s, s = sent[x], NEW call, call = Call(s)
        PROVE  \A i \in DOMAIN s.list : RightNumbers(call, i, s.list[i])
    BY <2>1, SentIs DEF Sound, Right
  <2> QED
    BY <2>1 DEF NumbersArrive, RightNumbers, RightNumber, Arrives
<1> QED
  BY <1>1, InvHolds, PTL

\* libcouchbase reads the texts of the call, though the arguments, the Command
\* that was on the stack and other calls' blocks are gone (getBufBackedString,
\* makePersistent).
THEOREM TextsArrive == Spec => []TextIntact
<1>1. CommandsInv => TextIntact
  <2> SUFFICES ASSUME CommandsInv PROVE TextIntact
    OBVIOUS
  <2>1. ASSUME NEW x \in DOMAIN sent, NEW s, s = sent[x], NEW call, call = Call(s)
        PROVE  \A i \in DOMAIN s.list : RightTexts(call, i, s.list[i])
    BY <2>1, SentIs DEF Sound, Right
  <2> QED
    BY <2>1 DEF TextIntact, RightTexts, HashText, TextOf
<1> QED
  BY <1>1, InvHolds, PTL

\* An error rejects the call it is found in, unless it is the unknown format of
\* a get (Command::process, GetCommand::handleSingle).
THEOREM ErrorsStop == Spec => []ErrorsReject
<1>1. CommandsInv => ErrorsReject
  <2> SUFFICES ASSUME CommandsInv PROVE ErrorsReject
    OBVIOUS
  <2>1. ASSUME NEW x \in DOMAIN sent, NEW s, s = sent[x], NEW call, call = Call(s), s.err
        PROVE  \E i \in DOMAIN call.keys : Tolerated(call, i)
    BY <2>1, SentIs DEF Sound
  <2> QED
    BY <2>1 DEF ErrorsReject, Tolerated
<1> QED
  BY <1>1, InvHolds, PTL

-----------------------------------------------------------------------------
(* The values that come back.  CommandsInv says what a call is sent as, and    *)
(* BackInv what the cluster and the cookies make of it.                        *)

\* A Command knows the formats that its keys ask for; so does the cookie of one
\* that waits.
FormatsKept ==
  /\ cmd # NoCommand => AsAsked(cmd.call, cmd.keyOptions, cmd.next - 1)
  /\ \A i \in DOMAIN pending :
       AsAsked(pending[i].call, pending[i].cookie, Len(pending[i].call.keys))

\* What is sent is sent in the order of the calls.
InOrder ==
  /\ connected /\ cmd # NoCommand => pending = <<>>
  /\ \A z \in Range(sent) : \A c \in Commands : z.number < c.number

\* The places of a key in a store.
IsStore(s) == Call(s).kind = "store"
Places(s, key) == {j \in DOMAIN Call(s).keys : AsText(Call(s).keys[j]) = key}

\* The last place of a key in the last store of it.
Latest(s, key, i) ==
  /\ IsStore(s) /\ i \in Places(s, key) /\ \A j \in Places(s, key) : j <= i
  /\ \A z \in Range(sent) : IsStore(z) /\ Places(z, key) # {} => z.number <= s.number

\* The cluster has what is there.
Has(key, lcb) ==
  key \in DOMAIN item /\ item[key] = [bytes |-> lcb.bytes, flags |-> lcb.flags]

KeepsLatest ==
  \A s \in Range(sent) : \A i \in DOMAIN Call(s).keys :
    LET key == AsText(Call(s).keys[i])
    IN Latest(s, key, i) => Has(key, s.list[i])

\* What was got, a call that was sent has got.
GotBySent == \A g \in got : \E s \in Range(sent) : s.number = g.number

BackInv == FormatsKept /\ InOrder /\ KeepsLatest /\ GotBySent /\ StoredComesBack

\* The last store before a call.
LEMMA LastStoreIs ==
  ASSUME NEW s, NEW key, NEW i, NEW number
  PROVE  LastStore(s, key, i, number) <=>
           /\ IsStore(s) /\ s.number < number
           /\ i \in Places(s, key) /\ \A j \in Places(s, key) : j <= i
           /\ \A z \in Range(sent) :
                IsStore(z) /\ z.number < number /\ Places(z, key) # {} => z.number <= s.number
BY DEF LastStore, IsStore, Places

\* When all that was sent was sent before, it is the latest.
LEMMA LastIsLatest ==
  ASSUME NEW number, \A z \in Range(sent) : z.number < number,
         NEW s \in Range(sent), NEW key, NEW i, LastStore(s, key, i, number)
  PROVE  Latest(s, key, i)
BY LastStoreIs DEF Latest

\* The formats that a call asks for under a key.
Asked(call, key) ==
  {FormatOf(call, j) : j \in {j \in DOMAIN call.keys : AsText(call.keys[j]) = key}}

\* A value that was got is the one of place i of a store.
ComesBack(g, s, i) ==
  LET spec == FormatOf(Call(s), i)
  IN /\ LastStore(s, g.key, i, g.number)
     /\ Asked(Call(g), g.key) \subseteq {AUTO, spec}
     /\ Given(Call(s).params[i], "flags") => spec \in Asked(Call(g), g.key) \ {AUTO}
     => g.value = InForm(Call(s).params[i].f.value, spec)

LEMMA ComesBackIs ==
  StoredComesBack <=>
    \A g \in got : \A s \in Range(sent) : \A i \in DOMAIN Call(s).keys : ComesBack(g, s, i)
BY DEF StoredComesBack, ComesBack, Asked

\* One more call was sent.
LEMMA SentMore ==
  ASSUME NEW S, sent \in Seq(S), NEW s, sent' = Append(sent, s)
  PROVE  Range(sent') = Range(sent) \cup {s}
<1>1. PICK n : n = Len(sent)
  OBVIOUS
<1>2. /\ n \in Nat /\ DOMAIN sent = 1..n /\ DOMAIN sent' = 1..(n + 1)
      /\ sent'[n + 1] = s /\ \A i \in 1..n : sent'[i] = sent[i]
  BY <1>1
<1>3. ASSUME NEW z \in Range(sent')
      PROVE  z \in Range(sent) \cup {s}
  <2>1. PICK i \in 1..(n + 1) : z = sent'[i]
    BY <1>2, <1>3 DEF Range
  <2>2. CASE i = n + 1
    BY <1>2, <2>1, <2>2
  <2>3. CASE i # n + 1
    <3>1. i \in 1..n
      BY <1>2, <2>3
    <3> QED
      BY <1>2, <2>1, <3>1 DEF Range
  <2> QED
    BY <2>2, <2>3
<1>4. \A i \in 1..n : i \in DOMAIN sent'
  BY <1>2
<1>5. n + 1 \in DOMAIN sent'
  BY <1>2
<1>6. ASSUME NEW z \in Range(sent) \cup {s}
      PROVE  z \in Range(sent')
  <2>1. CASE z \in Range(sent)
    BY <1>2, <1>4, <2>1 DEF Range
  <2>2. CASE z = s
    BY <1>2, <1>5, <2>2 DEF Range
  <2> QED
    BY <1>6, <2>1, <2>2
<1> QED
  BY <1>3, <1>6

\* The last place of a key in what libcouchbase is given.
LastPlace(list, key, i) ==
  i \in DOMAIN list /\ list[i].key = key /\ \A j \in DOMAIN list : list[j].key = key => j <= i

\* A store leaves the last of each key in the cluster, and all other keys alone.
LEMMA StoreIs ==
  ASSUME NEW c, Execute(c), c.call.kind = "store", NEW list, list = Executed(c, heap).list,
         DOMAIN list \subseteq Nat
  PROVE  /\ \A k, i : LastPlace(list, k, i) => Has(k, list[i])'
         /\ \A k \in DOMAIN item : (\A j \in DOMAIN list : list[j].key # k) =>
              k \in DOMAIN item' /\ item'[k] = item[k]
<1> DEFINE keys == [i \in DOMAIN list |-> list[i].key]
           last(k) == CHOOSE i \in DOMAIN list :
                        keys[i] = k /\ \A j \in DOMAIN list : keys[j] = k => j <= i
           ks == Range(keys)
<1>1. list = [i \in DOMAIN GetList(c, heap) |-> AsRead(GetList(c, heap)[i], heap)]
  BY DEF Executed
<1>2. item' = [k \in DOMAIN item \cup ks |->
                 IF k \in ks
                   THEN [bytes |-> list[last(k)].bytes, flags |-> list[last(k)].flags]
                   ELSE item[k]]
  BY <1>1 DEF Execute
<1>3. \A k : k \in ks <=> \E j \in DOMAIN list : list[j].key = k
  BY DEF Range
<1>4. ASSUME NEW k, NEW i, LastPlace(list, k, i)
      PROVE  k \in ks /\ last(k) = i
  <2>1. i \in DOMAIN list /\ keys[i] = k /\ \A j \in DOMAIN list : keys[j] = k => j <= i
    BY <1>4 DEF LastPlace
  <2>2. last(k) \in DOMAIN list /\ keys[last(k)] = k
        /\ \A j \in DOMAIN list : keys[j] = k => j <= last(k)
    BY <2>1
  <2>3. last(k) <= i /\ i <= last(k) /\ i \in Nat /\ last(k) \in Nat
    BY <2>1, <2>2
  <2>4. k \in ks
    BY <1>3, <2>1
  <2> HIDE DEF last, ks, keys
  <2>5. last(k) = i
    BY <2>3
  <2> QED
    BY <2>4, <2>5
<1> HIDE DEF ks, last
<1>5. ASSUME NEW k, NEW i, LastPlace(list, k, i)
      PROVE  Has(k, list[i])'
  <2>1. k \in ks /\ last(k) = i
    BY <1>4, <1>5
  <2> QED
    BY <1>2, <2>1 DEF Has
<1> QED
  BY <1>2, <1>3, <1>5

\* What is not a store leaves the cluster alone.
LEMMA NoStoreIs ==
  ASSUME NEW c, Execute(c), c.call.kind # "store"
  PROVE  item' = item
BY DEF Execute

\* What is got is what the cluster has.
LEMMA GotIs ==
  ASSUME NEW c, Execute(c), NEW g \in got', g \notin got
  PROVE  /\ g.number = c.number /\ g.key \in DOMAIN item
         /\ g.value = Returned(g.key, c.cookie) /\ c.call.kind \in {"get", "lock"}
<1> DEFINE list == [i \in DOMAIN GetList(c, heap) |-> AsRead(GetList(c, heap)[i], heap)]
           keys == [i \in DOMAIN list |-> list[i].key]
           ks == Range(keys) \cap DOMAIN item
<1>1. got' = IF c.call.kind \in {"get", "lock"}
               THEN got \cup {[number |-> c.number, key |-> k, value |-> Returned(k, c.cookie)]
                              : k \in ks}
               ELSE got
  BY DEF Execute
<1>2. ks \subseteq DOMAIN item
  OBVIOUS
<1> HIDE DEF ks
<1>3. c.call.kind \in {"get", "lock"}
  BY <1>1
<1>4. PICK k \in ks : g = [number |-> c.number, key |-> k, value |-> Returned(k, c.cookie)]
  BY <1>1, <1>3
<1> QED
  BY <1>2, <1>3, <1>4

\* The parts of CommandsInv that are needed here.
LEMMA SentFacts ==
  ASSUME CommandsInv
  PROVE  /\ made \in Nat /\ \E S : sent \in Seq(S)
         /\ \A z \in Range(sent) : z.number \in 1..made /\ Sound(plan[z.number], z)
<1>1. made \in Nat
  BY PlanIs DEF CommandsInv
<1> QED
  BY <1>1 DEF CommandsInv, AllSound, Range

\* What the places of a key in a store look like to libcouchbase.
LEMMA PlacesAre ==
  ASSUME NEW s, NEW call, call = Call(s), Sound(call, s), call.kind = "store",
         NEW key, NEW i, i \in Places(s, key), \A j \in Places(s, key) : j <= i
  PROVE  LastPlace(s.list, key, i)
<1>1. /\ DOMAIN s.list = DOMAIN call.keys
      /\ \A j \in DOMAIN s.list : s.list[j].key = AsText(call.keys[j])
  BY DEF Sound, Right, RightTexts
<1> QED
  BY <1>1 DEF Places, LastPlace

\* A Command is executed: the call s is sent after all others, and the cookie
\* knows the formats of its keys.
InTurnSent(c, s) ==
  /\ Execute(c) /\ s = Executed(c, heap) /\ s.number = c.number
  /\ c.number \in 1..made /\ c.call = plan[c.number] /\ Sound(c.call, s)
  /\ \A z \in Range(sent) : z.number < c.number
  /\ AsAsked(c.call, c.cookie, Len(c.call.keys))

\* The history of what was sent, one longer.
LEMMA SentThen ==
  ASSUME CommandsInv, UNCHANGED plan, NEW c, NEW s, InTurnSent(c, s)
  PROVE  /\ Range(sent') = Range(sent) \cup {s} /\ Call(s) = c.call
         /\ \A z : Call(z)' = Call(z)
<1>1. sent' = Append(sent, s)
  BY ExecuteIs DEF InTurnSent
<1> QED
  BY <1>1, SentFacts, SentMore DEF InTurnSent, Call

\* The cluster has what was stored last.
LEMMA ExecuteKeepsLatest ==
  ASSUME CommandsInv, KeepsLatest, UNCHANGED plan, NEW c, NEW s, InTurnSent(c, s)
  PROVE  KeepsLatest'
<1>1. /\ Range(sent') = Range(sent) \cup {s} /\ Call(s) = c.call
      /\ \A z : Call(z)' = Call(z)
  BY SentThen
<1>2. ASSUME NEW t \in Range(sent'), NEW i \in DOMAIN Call(t).keys,
             NEW key, key = AsText(Call(t).keys[i]), Latest(t, key, i)'
      PROVE  Has(key, t.list[i])'
  <2>1. /\ IsStore(t) /\ i \in Places(t, key) /\ \A j \in Places(t, key) : j <= i
        /\ \A z \in Range(sent') : IsStore(z) /\ Places(z, key) # {} => z.number <= t.number
    BY <1>1, <1>2 DEF Latest, IsStore, Places
  <2>2. CASE t = s
    <3>1. LastPlace(s.list, key, i) /\ c.call.kind = "store"
      BY <1>1, <2>1, <2>2, PlacesAre DEF IsStore, InTurnSent
    <3>2. PICK list : list = Executed(c, heap).list
      OBVIOUS
    <3>3. s.list = list /\ DOMAIN list \subseteq Nat
      BY <3>2 DEF InTurnSent, Sound
    <3>4. Has(key, list[i])'
      BY <3>1, <3>2, <3>3, StoreIs DEF InTurnSent
    <3> QED
      BY <2>2, <3>3, <3>4
  <2>3. CASE t \in Range(sent)
    <3>1. Latest(t, key, i)
      BY <1>1, <2>1 DEF Latest
    <3>2. key \in DOMAIN item /\ item[key] = [bytes |-> t.list[i].bytes, flags |-> t.list[i].flags]
      BY <1>2, <2>3, <3>1 DEF KeepsLatest, Has
    <3>3. key \in DOMAIN item' /\ item'[key] = item[key]
      <4>1. CASE c.call.kind # "store"
        BY <3>2, <4>1, NoStoreIs DEF InTurnSent
      <4>2. CASE c.call.kind = "store"
        <5>1. t.number \in Nat /\ s.number \in Nat /\ t.number < s.number
          BY <2>3, SentFacts DEF InTurnSent
        <5>2. Places(s, key) = {}
          BY <1>1, <2>1, <4>2, <5>1 DEF IsStore
        <5>3. PICK list : list = Executed(c, heap).list
          OBVIOUS
        <5>4. /\ DOMAIN list = DOMAIN c.call.keys /\ DOMAIN list \subseteq Nat
              /\ \A j \in DOMAIN list : list[j].key = AsText(c.call.keys[j])
          BY <4>2, <5>3 DEF InTurnSent, Sound, Right, RightTexts
        <5>5. \A j \in DOMAIN list : list[j].key # key
          BY <1>1, <5>2, <5>4 DEF Places
        <5> QED
          BY <3>2, <4>2, <5>3, <5>4, <5>5, StoreIs DEF InTurnSent
      <4> QED
        BY <4>1, <4>2
    <3> QED
      BY <3>2, <3>3 DEF Has
  <2> QED
    BY <1>1, <1>2, <2>2, <2>3
<1> QED
  BY <1>1, <1>2 DEF KeepsLatest

\* A get returns what is there in the format that was asked for.
LEMMA ReturnedIs ==
  ASSUME NEW call, NEW options, AsAsked(call, options, Len(call.keys)),
         call.kind \in {"get", "lock"}, DOMAIN call.keys = 1..Len(call.keys),
         NEW key, NEW spec, Asked(call, key) \subseteq {AUTO, spec}
  PROVE  /\ key \in DOMAIN options => options[key] = spec /\ spec # AUTO
         /\ key \notin DOMAIN options => Asked(call, key) \subseteq {AUTO}
<1>1. ASSUME key \in DOMAIN options
      PROVE  options[key] = spec /\ spec # AUTO
  <2>1. PICK i \in 1..Len(call.keys) : /\ AsText(call.keys[i]) = key
                                       /\ options[key] = FormatOf(call, i) /\ options[key] # AUTO
    BY <1>1 DEF AsAsked, Chosen
  <2>2. FormatOf(call, i) \in Asked(call, key)
    BY <2>1 DEF Asked
  <2> QED
    BY <2>1, <2>2
<1>2. ASSUME key \notin DOMAIN options, NEW spec2 \in Asked(call, key)
      PROVE  spec2 = AUTO
  <2>1. PICK j \in DOMAIN call.keys : AsText(call.keys[j]) = key /\ spec2 = FormatOf(call, j)
    BY <1>2 DEF Asked
  <2> QED
    BY <1>2, <2>1 DEF AsAsked, NotesFormat
<1> QED
  BY <1>1, <1>2

\* So the values that come back are those that were stored.
LEMMA ExecuteComesBack ==
  ASSUME CommandsInv, KeepsLatest, GotBySent, StoredComesBack, UNCHANGED plan,
         NEW c, NEW s, InTurnSent(c, s)
  PROVE  StoredComesBack'
<1>1. /\ Range(sent') = Range(sent) \cup {s} /\ Call(s) = c.call
      /\ \A z : Call(z)' = Call(z)
  BY SentThen
<1>2. /\ s.number = c.number /\ c.number \in Nat /\ Sound(c.call, s) /\ Execute(c)
      /\ \A z \in Range(sent) : z.number \in Nat /\ z.number < c.number /\ Sound(Call(z), z)
  BY SentFacts DEF InTurnSent, Call
<1>3. ASSUME NEW g \in got', NEW t \in Range(sent'), NEW i \in DOMAIN Call(t).keys,
             NEW spec, spec = FormatOf(Call(t), i), NEW v, v = Call(t).params[i].f.value,
             LastStore(t, g.key, i, g.number)', Asked(Call(g), g.key) \subseteq {AUTO, spec},
             Given(Call(t).params[i], "flags") => spec \in Asked(Call(g), g.key) \ {AUTO}
      PROVE  g.value = InForm(v, spec)
  <2>1. /\ IsStore(t) /\ t.number < g.number
        /\ i \in Places(t, g.key) /\ \A j \in Places(t, g.key) : j <= i
        /\ \A z \in Range(sent') :
             IsStore(z) /\ z.number < g.number /\ Places(z, g.key) # {} => z.number <= t.number
    BY <1>1, <1>3 DEF LastStore, IsStore, Places
  <2>2. g.number <= c.number /\ g.number \in Nat
    <3>1. CASE g \in got
      BY <1>2, <3>1 DEF GotBySent
    <3>2. CASE g \notin got
      BY <1>2, <1>3, <3>2, GotIs
    <3> QED
      BY <3>1, <3>2
  <2>3. t \in Range(sent)
    BY <1>1, <1>2, <2>1, <2>2
  <2>4. LastStore(t, g.key, i, g.number)
    BY <1>1, <2>1, LastStoreIs
  <2>5. CASE g \in got
    <3>1. ComesBack(g, t, i)
      BY <1>3, <2>3, <2>5, ComesBackIs
    <3> QED
      BY <1>3, <2>4, <3>1 DEF ComesBack
  <2>6. CASE g \notin got
    <3>1. PICK key, lcb : key = g.key /\ lcb = t.list[i]
      OBVIOUS
    <3>2. /\ g.number = c.number /\ key \in DOMAIN item /\ Call(g) = c.call
          /\ g.value = Returned(key, c.cookie) /\ c.call.kind \in {"get", "lock"}
      BY <1>1, <1>2, <1>3, <2>6, <3>1, GotIs DEF Call
    <3>3. Latest(t, key, i)
      BY <1>2, <2>3, <2>4, <3>1, <3>2, LastIsLatest
    <3>4. AsText(Call(t).keys[i]) = key
      BY <2>1, <3>1 DEF Places
    <3>5. item[key] = [bytes |-> lcb.bytes, flags |-> lcb.flags]
      BY <1>3, <2>3, <3>1, <3>3, <3>4 DEF KeepsLatest, Has
    <3>6. /\ spec # AUTO => Restores(lcb.bytes, spec, v, spec)
          /\ ~Given(Call(t).params[i], "flags") => Restores(lcb.bytes, lcb.flags, v, spec)
      <4>1. RightForm(Call(t), i, lcb)
        BY <1>2, <1>3, <2>3, <3>1 DEF Sound, Right
      <4> QED
        BY <1>3, <2>1, <4>1 DEF RightForm, IsStore
    <3>7. /\ key \in DOMAIN c.cookie => c.cookie[key] = spec /\ spec # AUTO
          /\ key \notin DOMAIN c.cookie => Asked(c.call, key) \subseteq {AUTO}
      <4>1. PICK call, options : call = c.call /\ options = c.cookie
        OBVIOUS
      <4>2. AsAsked(call, options, Len(call.keys)) /\ DOMAIN call.keys = 1..Len(call.keys)
        BY <4>1 DEF InTurnSent, Sound
      <4>3. Asked(call, key) \subseteq {AUTO, spec} /\ call.kind \in {"get", "lock"}
        BY <1>3, <3>1, <3>2, <4>1
      <4>4. /\ key \in DOMAIN options => options[key] = spec /\ spec # AUTO
            /\ key \notin DOMAIN options => Asked(call, key) \subseteq {AUTO}
        BY <4>2, <4>3, ReturnedIs
      <4> QED
        BY <4>1, <4>4
    <3>8. Returned(key, c.cookie) =
            Decode(lcb.bytes, IF key \in DOMAIN c.cookie THEN c.cookie[key] ELSE lcb.flags)
      BY <3>5 DEF Returned
    <3>9. CASE key \in DOMAIN c.cookie
      BY <3>2, <3>6, <3>7, <3>8, <3>9 DEF Restores
    <3>10. CASE key \notin DOMAIN c.cookie
      <4>1. ~Given(Call(t).params[i], "flags")
        BY <1>3, <3>1, <3>2, <3>7, <3>10
      <4> QED
        BY <3>2, <3>6, <3>8, <3>10, <4>1 DEF Restores
    <3> QED
      BY <3>9, <3>10
  <2> QED
    BY <2>5, <2>6
<1> QED
  BY <1>1, <1>3 DEF StoredComesBack, Asked

\* What is got was asked for by a call that was sent, now or before.
LEMMA ExecuteGot ==
  ASSUME CommandsInv, GotBySent, UNCHANGED plan, NEW c, NEW s, InTurnSent(c, s)
  PROVE  GotBySent'
<1>1. Range(sent') = Range(sent) \cup {s} /\ s.number = c.number /\ Execute(c)
  BY SentThen DEF InTurnSent
<1>2. ASSUME NEW g \in got'
      PROVE  \E z \in Range(sent') : z.number = g.number
  <2>1. CASE g \in got
    BY <1>1, <2>1 DEF GotBySent
  <2>2. CASE g \notin got
    BY <1>1, <1>2, <2>2, GotIs
  <2> QED
    BY <2>1, <2>2
<1> QED
  BY <1>2 DEF GotBySent

\* A Command whose keys are all processed is sent in its turn.
LEMMA SentInTurn ==
  ASSUME NEW c, Execute(c), Fine(c, heap), c.next > Len(c.call.keys),
         c.number \in 1..made, c.call = plan[c.number],
         \A z \in Range(sent) : z.number < c.number,
         AsAsked(c.call, c.cookie, Len(c.call.keys)), NEW s, s = Executed(c, heap)
  PROVE  InTurnSent(c, s)
BY ExecutedIs DEF InTurnSent

\* All of this stays while nothing is executed.
LEMMA BackSame ==
  ASSUME UNCHANGED <<plan, sent, item, got>>, KeepsLatest, GotBySent, StoredComesBack
  PROVE  KeepsLatest' /\ GotBySent' /\ StoredComesBack'
<1>1. KeepsLatest'
  BY DEF KeepsLatest, Latest, Has, IsStore, Places, Call
<1>2. GotBySent'
  BY DEF GotBySent
<1>3. StoredComesBack'
  BY DEF StoredComesBack, LastStore, Call
<1> QED
  BY <1>1, <1>2, <1>3

\* Nothing was stored or got at first.
LEMMA InitBack == Init => BackInv
<1> SUFFICES ASSUME Init PROVE BackInv
  OBVIOUS
<1>1. /\ cmd = NoCommand /\ pending = <<>> /\ sent = <<>> /\ got = {} /\ connected = FALSE
  BY DEF Init
<1>2. Range(sent) = {} /\ DOMAIN pending = {}
  BY <1>1 DEF Range
<1> QED
  BY <1>1, <1>2 DEF BackInv, FormatsKept, InOrder, KeepsLatest, GotBySent, StoredComesBack

\* A call is made: it is later than all that was sent.
LEMMA MakeCallBack == CommandsInv /\ BackInv /\ MakeCall => BackInv'
<1> SUFFICES ASSUME CommandsInv, BackInv, MakeCall PROVE BackInv'
  OBVIOUS
<1>1. PICK r, call, c : /\ call = plan[made + 1] /\ r = Initialize(call) /\ c = r.cmd
  OBVIOUS
<1>2. /\ cmd = NoCommand /\ made < Len(plan) /\ (connected => pending = <<>>)
      /\ UNCHANGED <<plan, connected, pending, item, sent, got>>
  BY DEF MakeCall, InLoop
<1>3. cmd' = NoCommand \/ (r.ok /\ cmd' = c)
  BY <1>1 DEF MakeCall, BailOut
<1>4. made \in Nat /\ plan \in Plans /\ made + 1 \in 1..Len(plan) /\ Len(plan) \in Nat
  BY <1>2, PlanIs DEF CommandsInv
<1>5. Sensible(call) /\ HeapOK(heap)
  BY <1>1, <1>4, PlanIs DEF CommandsInv, Live, Owners
<1>6. r.ok => c.number = made + 1 /\ c.next = 1 /\ c.keyOptions = <<>>
  BY <1>1, <1>5, InitializeIs
<1>7. FormatsKept'
  <2>1. cmd' # NoCommand => AsAsked(cmd'.call, cmd'.keyOptions, cmd'.next - 1)
    <3>1. ASSUME r.ok, cmd' = c
          PROVE  AsAsked(cmd'.call, cmd'.keyOptions, cmd'.next - 1)
      <4>1. DOMAIN cmd'.keyOptions = {} /\ 1..(cmd'.next - 1) = {}
        BY <1>6, <3>1
      <4> QED
        BY <4>1 DEF AsAsked, Chosen
    <3> QED
      BY <1>3, <3>1
  <2> QED
    BY <1>2, <2>1 DEF BackInv, FormatsKept
<1>8. InOrder'
  <2>1. \A z \in Range(sent) : z.number < made + 1
    BY <1>4, SentFacts
  <2>2. Commands' \subseteq Commands \cup {c} /\ (c \in Commands' \ Commands => c.number = made + 1)
    BY <1>2, <1>3, <1>6 DEF Commands
  <2> QED
    BY <1>2, <2>1, <2>2 DEF BackInv, InOrder
<1> QED
  BY <1>2, <1>7, <1>8, BackSame DEF BackInv

\* A key is processed, and its format is kept.
LEMMA ProcessKeyBack == CommandsInv /\ BackInv /\ ProcessKey => BackInv'
<1> SUFFICES ASSUME CommandsInv, BackInv, ProcessKey PROVE BackInv'
  OBVIOUS
<1>1. PICK c, h, r, e, d : /\ c = cmd /\ h = heap /\ r = ProcessSingle(c, h, c.next)
                           /\ e = r.cmd /\ d = [e EXCEPT !.next = @ + 1]
  OBVIOUS
<1>2. /\ c # NoCommand /\ ~(c.next > Len(c.call.keys))
      /\ UNCHANGED <<plan, connected, pending, item, sent, got>>
  BY <1>1 DEF ProcessKey, InLoop, Processed
<1>3. cmd' = NoCommand \/ (r.ok /\ cmd' = d)
  BY <1>1 DEF ProcessKey, BailOut
<1>4. c \in Commands /\ Fine(c, h) /\ IsParsed(c.hashkey, c.call.options, "hashkey")
  BY <1>1, <1>2, WaitingAre DEF CommandsInv, Live, OnStack
<1>5. c.next <= Len(c.call.keys)
  BY <1>2, <1>4 DEF Fine, Sensible
<1>6. AsAsked(c.call, c.keyOptions, c.next - 1)
  BY <1>1, <1>2 DEF BackInv, FormatsKept
<1>7. r.ok => d.number = c.number /\ AsAsked(d.call, d.keyOptions, d.next - 1)
  <2>1. PICK g : g = r.heap
    OBVIOUS
  <2>2. /\ Grew(c, h, e, g) /\ SameCall(c, e)
        /\ r.ok => \A x : x = [e EXCEPT !.next = @ + 1] =>
             /\ Fine(x, g) /\ Owned(x) = Owned(e)
             /\ x.at = c.at /\ x.number = c.number /\ x.call = c.call /\ x.hashkey = c.hashkey
             /\ AsAsked(c.call, c.keyOptions, c.next - 1) =>
                  AsAsked(x.call, x.keyOptions, x.next - 1)
    BY <1>1, <1>4, <1>5, <2>1, FineNext
  <2> QED
    BY <1>1, <1>6, <2>2
<1>8. FormatsKept'
  BY <1>2, <1>3, <1>7 DEF BackInv, FormatsKept
<1>9. InOrder'
  <2>1. Commands' \subseteq Commands \cup {d} /\ (d \in Commands' \ Commands => d.number = c.number)
    BY <1>2, <1>3, <1>7 DEF Commands
  <2>2. connected' /\ cmd' # NoCommand => pending' = <<>>
    BY <1>1, <1>2 DEF BackInv, InOrder
  <2> QED
    BY <1>2, <1>4, <2>1, <2>2 DEF BackInv, InOrder
<1> QED
  BY <1>2, <1>8, <1>9, BackSame DEF BackInv

\* A connected handle has no other Command, and executes this one.
LEMMA ExecuteNowBack == CommandsInv /\ BackInv /\ ExecuteNow => BackInv'
<1> SUFFICES ASSUME CommandsInv, BackInv, ExecuteNow PROVE BackInv'
  OBVIOUS
<1>1. PICK c, d, s : c = cmd /\ d = WithCookie(c) /\ s = Executed(d, heap)
  OBVIOUS
<1>2. /\ c # NoCommand /\ c.next > Len(c.call.keys) /\ connected /\ Execute(d)
      /\ cmd' = NoCommand /\ UNCHANGED <<plan, made, connected, pending>>
  BY <1>1 DEF ExecuteNow, InLoop, Processed
<1>3. c \in Commands /\ Fine(c, heap) /\ c.number \in 1..made /\ c.call = plan[c.number]
  BY <1>1, <1>2, WaitingAre DEF CommandsInv, Live, OfCalls
<1>4. /\ Fine(d, heap) /\ d.number = c.number /\ d.call = c.call /\ d.next = c.next
      /\ d.cookie = c.keyOptions
  BY <1>1, <1>3, CookieIs
<1>5. AsAsked(d.call, d.cookie, Len(d.call.keys))
  <2>1. c.next \in Nat /\ c.next <= Len(c.call.keys) + 1 /\ Len(c.call.keys) \in Nat
    BY <1>3 DEF Fine, Sensible
  <2>2. c.next - 1 = Len(c.call.keys)
    BY <1>2, <2>1
  <2>3. AsAsked(c.call, c.keyOptions, c.next - 1)
    BY <1>1, <1>2 DEF BackInv, FormatsKept
  <2> QED
    BY <1>4, <2>2, <2>3
<1>6. \A z \in Range(sent) : z.number < d.number
  BY <1>3, <1>4 DEF BackInv, InOrder
<1>7. InTurnSent(d, s)
  BY <1>1, <1>2, <1>3, <1>4, <1>5, <1>6, SentInTurn
<1>8. KeepsLatest' /\ GotBySent' /\ StoredComesBack'
  BY <1>2, <1>7, ExecuteKeepsLatest, ExecuteGot, ExecuteComesBack DEF BackInv
<1>9. pending = <<>> /\ Commands' = {}
  <2>1. pending = <<>>
    BY <1>1, <1>2 DEF BackInv, InOrder
  <2> QED
    BY <1>2, <2>1 DEF Commands, Range
<1>10. FormatsKept' /\ InOrder'
  BY <1>2, <1>9 DEF FormatsKept, InOrder
<1> QED
  BY <1>8, <1>10 DEF BackInv

\* The options of the keys go to the cookie of the copy.
LEMMA EnqueueBack == CommandsInv /\ BackInv /\ Enqueue => BackInv'
<1> SUFFICES ASSUME CommandsInv, BackInv, Enqueue PROVE BackInv'
  OBVIOUS
<1>1. PICK c, slot, list : c = cmd /\ slot = EmptySlot("hashkey") /\ list = CopyList(c.list)
  OBVIOUS
<1>2. PICK d : d = CopyOf(c, list, slot)
  OBVIOUS
<1>3. c \in Commands /\ c # NoCommand /\ c.next > Len(c.call.keys) /\ ~connected
  BY <1>1, WaitingAre DEF CommandsInv, Enqueue, Processed, InLoop
<1>4. Fine(c, heap)
  BY <1>3 DEF CommandsInv, Live
<1>5. PICK given : Good(c, heap, given)
  BY <1>4 DEF Fine
<1>6. IsCommand(c) /\ IsList(c.list) /\ c.list.ncmds \in Nat
  BY <1>5 DEF Good, Ready, HasList, IsCommand
<1>7. d = [WithCookie(c) EXCEPT !.at = "copy", !.list = CopyList(@),
                                !.keyOptions = <<>>, !.hashkey = slot]
  <2>1. PICK e : e = WithCookie(c)
    OBVIOUS
  <2>2. e = [c EXCEPT !.cookie = c.keyOptions] /\ e.list = c.list
    BY <1>6, <2>1 DEF WithCookie, IsCommand
  <2> QED
    BY <1>1, <1>2, <1>6, <2>1, <2>2 DEF CopyOf, IsCommand
<1>8. /\ pending' = Append(pending, d) /\ cmd' = NoCommand
      /\ UNCHANGED <<plan, connected, item, sent, got>>
  BY <1>1, <1>7 DEF Enqueue
<1>9. d.call = c.call /\ d.number = c.number /\ d.cookie = c.keyOptions
  <2>1. IsList(list)
    BY <1>1, <1>6, CopyListIs
  <2> QED
    BY <1>2, <1>6, <2>1, CopyOfIs
<1>10. AsAsked(d.call, d.cookie, Len(d.call.keys))
  <2>1. c.next \in Nat /\ c.next <= Len(c.call.keys) + 1 /\ Len(c.call.keys) \in Nat
    BY <1>4 DEF Fine, Sensible
  <2>2. c.next - 1 = Len(c.call.keys)
    BY <1>3, <2>1
  <2>3. AsAsked(c.call, c.keyOptions, c.next - 1)
    BY <1>1, <1>3 DEF BackInv, FormatsKept
  <2> QED
    BY <1>9, <2>2, <2>3
<1>11. PICK S : pending \in Seq(S)
  BY DEF CommandsInv, Waiting
<1>12. PICK n : n = Len(pending)
  OBVIOUS
<1>13. /\ n \in Nat /\ DOMAIN pending = 1..n /\ DOMAIN pending' = 1..(n + 1)
       /\ pending'[n + 1] = d /\ \A i \in 1..n : pending'[i] = pending[i]
  BY <1>8, <1>11, <1>12
<1>14. ASSUME NEW i \in 1..(n + 1)
       PROVE  pending'[i] = d \/ (i \in DOMAIN pending /\ pending'[i] = pending[i])
  BY <1>13, <1>14
<1>15. FormatsKept'
  BY <1>8, <1>10, <1>13, <1>14 DEF BackInv, FormatsKept
<1>16. InOrder'
  <2>1. \A e \in Commands' : e = d \/ e \in Commands
    BY <1>8, <1>13, <1>14 DEF Commands, Range
  <2> QED
    BY <1>3, <1>8, <1>9, <2>1 DEF BackInv, InOrder
<1> QED
  BY <1>8, <1>15, <1>16, BackSame DEF BackInv

\* Only the handle is changed when the configuration arrives.
LEMMA ConnectBack == CommandsInv /\ BackInv /\ Connect => BackInv'
<1> SUFFICES ASSUME BackInv, Connect PROVE BackInv'
  OBVIOUS
<1>1. cmd = NoCommand /\ UNCHANGED <<plan, cmd, pending, item, sent, got>>
  BY DEF Connect, InLoop
<1>2. Commands' = Commands
  BY <1>1 DEF Commands
<1> QED
  BY <1>1, <1>2, BackSame DEF BackInv, FormatsKept, InOrder

\* The copy that has waited longest is executed before all others.
LEMMA RunNextBack == CommandsInv /\ BackInv /\ RunNext => BackInv'
<1> SUFFICES ASSUME CommandsInv, BackInv, RunNext PROVE BackInv'
  OBVIOUS
<1>1. PICK c, s, n : c = Head(pending) /\ s = Executed(c, heap) /\ n = Len(pending)
  OBVIOUS
<1>2. /\ cmd = NoCommand /\ pending # <<>> /\ Execute(c) /\ pending' = Tail(pending)
      /\ UNCHANGED <<plan, made, connected, cmd>>
  BY <1>1 DEF RunNext, InLoop
<1>3. PICK S : pending \in Seq(S)
  BY DEF CommandsInv, Waiting
<1>4. /\ n \in Nat \ {0} /\ DOMAIN pending = 1..n /\ c = pending[1]
      /\ DOMAIN pending' = 1..(n - 1) /\ \A i \in 1..(n - 1) : pending'[i] = pending[i + 1]
  BY <1>1, <1>2, <1>3
<1>5. 1 \in DOMAIN pending /\ c \in Range(pending)
  BY <1>4 DEF Range
<1>6. /\ c \in Commands /\ Fine(c, heap) /\ c.number \in 1..made /\ c.call = plan[c.number]
      /\ c.next > Len(c.call.keys)
  BY <1>4, <1>5 DEF CommandsInv, Live, OfCalls, Waiting, Commands
<1>7. AsAsked(c.call, c.cookie, Len(c.call.keys))
  BY <1>4, <1>5 DEF BackInv, FormatsKept
<1>8. \A z \in Range(sent) : z.number < c.number
  BY <1>6 DEF BackInv, InOrder
<1>9. InTurnSent(c, s)
  BY <1>1, <1>2, <1>6, <1>7, <1>8, SentInTurn
<1>10. KeepsLatest' /\ GotBySent' /\ StoredComesBack'
  BY <1>2, <1>9, ExecuteKeepsLatest, ExecuteGot, ExecuteComesBack DEF BackInv
<1>11. FormatsKept'
  <2>1. \A i \in 1..(n - 1) : i + 1 \in DOMAIN pending
    BY <1>4
  <2> QED
    BY <1>2, <1>4, <2>1 DEF BackInv, FormatsKept
<1>12. InOrder'
  <2>1. ASSUME NEW e \in Commands'
        PROVE  e \in Commands /\ c.number < e.number
    <3>1. e \in Range(pending')
      BY <1>2, <2>1 DEF Commands
    <3>2. PICK i \in 1..(n - 1) : e = pending'[i]
      BY <1>4, <3>1 DEF Range
    <3>3. i + 1 \in DOMAIN pending /\ 1 < i + 1 /\ e = pending[i + 1]
      BY <1>4, <3>2
    <3>4. c.number < e.number
      BY <1>4, <1>5, <3>3 DEF CommandsInv, Waiting
    <3>5. e \in Range(pending)
      BY <3>3 DEF Range
    <3> QED
      BY <3>4, <3>5 DEF Commands
  <2>2. Range(sent') = Range(sent) \cup {s} /\ s.number = c.number
    BY <1>2, <1>9, SentThen DEF InTurnSent
  <2> QED
    BY <1>2, <2>1, <2>2 DEF BackInv, InOrder
<1> QED
  BY <1>10, <1>11, <1>12 DEF BackInv

\* What was stored last under a key is what a get of it returns, in the order
\* of the calls, for all formats, and though the Commands may have waited: the
\* bytes and flags of a store, the options of the keys and the cookie that
\* takes them along fit together (ValueFormat::encode and decode,
\* setCookieKeyOption, createCookie and makePersistent).
THEOREM ValuesComeBack == Spec => []StoredComesBack
<1>1. CommandsInv /\ BackInv /\ [Next]_vars => BackInv'
  <2>1. CommandsInv /\ BackInv /\ UNCHANGED vars => BackInv'
    <3> SUFFICES ASSUME BackInv, UNCHANGED vars PROVE BackInv'
      OBVIOUS
    <3>1. UNCHANGED <<plan, connected, cmd, pending, item, sent, got>>
      BY DEF vars
    <3>2. Commands' = Commands
      BY <3>1 DEF Commands
    <3> QED
      BY <3>1, <3>2, BackSame DEF BackInv, FormatsKept, InOrder
  <2> QED
    BY <2>1, MakeCallBack, ProcessKeyBack, ExecuteNowBack, EnqueueBack, ConnectBack, RunNextBack
       DEF Next
<1>2. BackInv => StoredComesBack
  BY DEF BackInv
<1> QED
  BY <1>1, <1>2, InitBack, InvHolds, PTL DEF Spec
=============================================================================
