---------------------------- MODULE BufferProofs ----------------------------
(***************************************************************************)
(* What BufferList owes those who hold pointers into it, proved for every  *)
(* size of a block, every sequence of requests, and texts of every length. *)
(***************************************************************************)
EXTENDS BufferList, TLAPS

Sizes == UNION {[S -> Nat] : S \in SUBSET (Nat \ {NoBlock})}
BufPointers == [block : Nat \ {NoBlock}, from : Nat, len : Nat \ {0}]
Lists == [blocks : SUBSET (Nat \ {NoBlock}), cur : Nat, used : Nat, allocated : Nat]

\* The sizes of the blocks when one more may have been allocated.
Extended(size, fresh, n) ==
  IF n = 0 THEN size
           ELSE [x \in DOMAIN size \cup {fresh} |-> IF x \in DOMAIN size THEN size[x] ELSE n]

-----------------------------------------------------------------------------
(* One lemma for each place where getBuffer finds room. *)

\* A string that is too long for a shared block gets one of its own (lines
\* 42-46), which nothing else points to.
LEMMA OwnBlockSound ==
  ASSUME NEW b \in Lists, NEW size \in Sizes, NEW given \in SUBSET BufPointers,
         NEW len \in Nat \ {0}, NEW fresh \in Nat \ {NoBlock}, fresh \notin DOMAIN size,
         ListSound(b, size, given)
  PROVE  LET g == OwnBlock(b, len, fresh)
         IN /\ ListSound(g.list, Extended(size, fresh, g.size), given \cup {g.ptr})
            /\ g.list \in Lists /\ g.ptr \in BufPointers \ given
PROOF
<1> DEFINE ptr == Pointer(fresh, 0, len)
           list == [b EXCEPT !.blocks = @ \cup {fresh}]
           bigger == Extended(size, fresh, len)
<1>1. ptr \in BufPointers /\ ptr.block = fresh /\ ptr.from = 0 /\ ptr.len = len
  BY DEF Pointer, BufPointers
<1>2. /\ list \in Lists /\ list.blocks = b.blocks \cup {fresh} /\ list.cur = b.cur
      /\ list.used = b.used /\ list.allocated = b.allocated
  BY DEF Lists
<1>3. /\ DOMAIN bigger = DOMAIN size \cup {fresh} /\ bigger[fresh] = len
      /\ \A x \in DOMAIN size : bigger[x] = size[x]
  BY DEF Extended
<1>4. \A p \in given : p.block \in DOMAIN size /\ p \in BufPointers
  BY DEF ListSound
<1>5. OwnBlock(b, len, fresh) = [list |-> list, ptr |-> ptr, size |-> len]
  BY DEF OwnBlock
<1> HIDE DEF ptr, list, bigger
<1>6. ListSound(list, bigger, given \cup {ptr})
  <2>1. list.blocks \subseteq DOMAIN bigger
    BY <1>2, <1>3 DEF ListSound
  <2>2. list.cur # NoBlock => list.cur \in list.blocks /\ bigger[list.cur] = list.allocated
    BY <1>2, <1>3 DEF ListSound
  <2>3. ASSUME NEW p \in given \cup {ptr}
        PROVE  /\ p.block \in list.blocks
               /\ p.from + p.len <= bigger[p.block]
               /\ p.block = list.cur => p.from + p.len <= list.used
    <3>1. CASE p \in given
      BY <3>1, <1>2, <1>3, <1>4 DEF ListSound
    <3>2. CASE p = ptr
      BY <3>2, <1>1, <1>2, <1>3 DEF ListSound, Lists
    <3> QED BY <3>1, <3>2
  <2>4. ASSUME NEW p \in given \cup {ptr}, NEW q \in given \cup {ptr}, p # q
        PROVE  Apart(p, q)
    BY <2>4, <1>1, <1>4 DEF ListSound, Apart
  <2> QED BY <2>1, <2>2, <2>3, <2>4 DEF ListSound
<1>7. ptr \notin given
  BY <1>1, <1>4
<1> QED BY <1>1, <1>2, <1>5, <1>6, <1>7 DEF bigger

\* What is taken from the current block begins where all that was taken from it
\* before ends, and leaves at least one byte (lines 56-59).
LEMMA CurrentBlockSound ==
  ASSUME NEW b \in Lists, NEW size \in Sizes, NEW given \in SUBSET BufPointers,
         NEW len \in Nat \ {0},
         b.cur # NoBlock, b.allocated - b.used > len,
         ListSound(b, size, given)
  PROVE  LET g == CurrentBlock(b, len)
         IN /\ ListSound(g.list, size, given \cup {g.ptr})
            /\ g.list \in Lists /\ g.ptr \in BufPointers \ given
PROOF
<1> DEFINE ptr == Pointer(b.cur, b.used, len)
           list == [b EXCEPT !.used = @ + len]
<1>1. ptr \in BufPointers /\ ptr.block = b.cur /\ ptr.from = b.used /\ ptr.len = len
  BY DEF Pointer, BufPointers, Lists
<1>2. /\ list \in Lists /\ list.blocks = b.blocks /\ list.cur = b.cur
      /\ list.used = b.used + len /\ list.allocated = b.allocated
  BY DEF Lists
<1>3. b.used \in Nat /\ b.allocated \in Nat
  BY DEF Lists
<1>4. \A p \in given : p \in BufPointers /\ p.from \in Nat /\ p.len \in Nat
  BY DEF BufPointers
<1>5. CurrentBlock(b, len) = [list |-> list, ptr |-> ptr, size |-> 0]
  BY DEF CurrentBlock
<1> HIDE DEF ptr, list
<1>6. ListSound(list, size, given \cup {ptr})
  <2>1. list.blocks \subseteq DOMAIN size
    BY <1>2 DEF ListSound
  <2>2. list.cur # NoBlock => list.cur \in list.blocks /\ size[list.cur] = list.allocated
    BY <1>2 DEF ListSound
  <2>3. ASSUME NEW p \in given \cup {ptr}
        PROVE  /\ p.block \in list.blocks
               /\ p.from + p.len <= size[p.block]
               /\ p.block = list.cur => p.from + p.len <= list.used
    <3>1. CASE p \in given
      BY <3>1, <1>2, <1>3, <1>4 DEF ListSound
    <3>2. CASE p = ptr
      BY <3>2, <1>1, <1>2, <1>3 DEF ListSound
    <3> QED BY <3>1, <3>2
  <2>4. ASSUME NEW p \in given \cup {ptr}, NEW q \in given \cup {ptr}, p # q
        PROVE  Apart(p, q)
    <3>1. CASE p \in given /\ q \in given
      BY <2>4, <3>1 DEF ListSound
    <3>2. CASE p \in given /\ q = ptr
      BY <3>2, <1>1, <1>3, <1>4 DEF ListSound, Apart
    <3>3. CASE p = ptr /\ q \in given
      BY <3>3, <1>1, <1>3, <1>4 DEF ListSound, Apart
    <3> QED BY <2>4, <3>1, <3>2, <3>3
  <2> QED BY <2>1, <2>2, <2>3, <2>4 DEF ListSound
<1>7. ptr \notin given
  BY <1>1, <1>3, <1>4 DEF ListSound
<1> QED BY <1>1, <1>2, <1>5, <1>6, <1>7

\* A new current block takes over; what was taken from the old one stays in it
\* (lines 48-54 and 61-64).
LEMMA NextBlockSound ==
  ASSUME NEW b \in Lists, NEW size \in Sizes, NEW given \in SUBSET BufPointers,
         NEW len \in Nat \ {0}, len < b.allocated,
         NEW fresh \in Nat \ {NoBlock}, fresh \notin DOMAIN size,
         ListSound(b, size, given)
  PROVE  LET g == NextBlock(b, len, fresh)
         IN /\ ListSound(g.list, Extended(size, fresh, g.size), given \cup {g.ptr})
            /\ g.list \in Lists /\ g.ptr \in BufPointers \ given
PROOF
<1> DEFINE ptr == Pointer(fresh, 0, len)
           list == [b EXCEPT !.blocks = @ \cup {fresh}, !.cur = fresh, !.used = len]
           bigger == Extended(size, fresh, b.allocated)
<1>1. ptr \in BufPointers /\ ptr.block = fresh /\ ptr.from = 0 /\ ptr.len = len
  BY DEF Pointer, BufPointers
<1>2. /\ list \in Lists /\ list.blocks = b.blocks \cup {fresh} /\ list.cur = fresh
      /\ list.used = len /\ list.allocated = b.allocated
  BY DEF Lists
<1>3. b.allocated \in Nat /\ b.allocated # 0
  BY DEF Lists
<1>4. /\ DOMAIN bigger = DOMAIN size \cup {fresh} /\ bigger[fresh] = b.allocated
      /\ \A x \in DOMAIN size : bigger[x] = size[x]
  BY <1>3 DEF Extended
<1>5. \A p \in given : p.block \in DOMAIN size /\ p \in BufPointers
  BY DEF ListSound
<1>6. NextBlock(b, len, fresh) = [list |-> list, ptr |-> ptr, size |-> b.allocated]
  BY DEF NextBlock
<1> HIDE DEF ptr, list, bigger
<1>7. ListSound(list, bigger, given \cup {ptr})
  <2>1. list.blocks \subseteq DOMAIN bigger
    BY <1>2, <1>4 DEF ListSound
  <2>2. list.cur # NoBlock => list.cur \in list.blocks /\ bigger[list.cur] = list.allocated
    BY <1>2, <1>4
  <2>3. ASSUME NEW p \in given \cup {ptr}
        PROVE  /\ p.block \in list.blocks
               /\ p.from + p.len <= bigger[p.block]
               /\ p.block = list.cur => p.from + p.len <= list.used
    <3>1. CASE p \in given
      BY <3>1, <1>2, <1>4, <1>5 DEF ListSound
    <3>2. CASE p = ptr
      BY <3>2, <1>1, <1>2, <1>3, <1>4
    <3> QED BY <3>1, <3>2
  <2>4. ASSUME NEW p \in given \cup {ptr}, NEW q \in given \cup {ptr}, p # q
        PROVE  Apart(p, q)
    BY <2>4, <1>1, <1>5 DEF ListSound, Apart
  <2> QED BY <2>1, <2>2, <2>3, <2>4 DEF ListSound
<1>8. ptr \notin given
  BY <1>1, <1>5
<1> QED BY <1>1, <1>2, <1>6, <1>7, <1>8 DEF bigger

\* getBuffer hands out memory that is inside one block of the list and apart
\* from all it has handed out before, which stays where it was.
THEOREM GetBufferSound ==
  ASSUME NEW b \in Lists, NEW size \in Sizes, NEW given \in SUBSET BufPointers,
         NEW len \in Nat \ {0}, NEW fresh \in Nat \ {NoBlock}, fresh \notin DOMAIN size,
         ListSound(b, size, given)
  PROVE  LET g == GetBuffer(b, len, fresh)
         IN /\ ListSound(g.list, Extended(size, fresh, g.size), given \cup {g.ptr})
            /\ g.list \in Lists /\ g.ptr \in BufPointers \ given /\ g.ptr.len = len
PROOF
<1>1. b.allocated \in Nat /\ b.used \in Nat /\ len \in Nat /\ len > 0
  BY DEF Lists
<1>2. CASE len >= b.allocated
  <2>1. GetBuffer(b, len, fresh) = OwnBlock(b, len, fresh)
    BY <1>1, <1>2 DEF GetBuffer
  <2>2. OwnBlock(b, len, fresh).ptr.len = len
    BY DEF OwnBlock, Pointer
  <2> QED BY <2>1, <2>2, OwnBlockSound
<1>3. CASE len < b.allocated /\ b.cur # NoBlock /\ b.allocated - b.used > len
  <2>1. GetBuffer(b, len, fresh) = CurrentBlock(b, len)
    BY <1>1, <1>3 DEF GetBuffer
  <2>2. CurrentBlock(b, len).ptr.len = len /\ CurrentBlock(b, len).size = 0
    BY DEF CurrentBlock, Pointer
  <2>3. Extended(size, fresh, 0) = size
    BY DEF Extended
  <2> QED BY <1>3, <2>1, <2>2, <2>3, CurrentBlockSound
<1>4. CASE len < b.allocated /\ ~(b.cur # NoBlock /\ b.allocated - b.used > len)
  <2>1. GetBuffer(b, len, fresh) = NextBlock(b, len, fresh)
    BY <1>1, <1>4 DEF GetBuffer
  <2>2. NextBlock(b, len, fresh).ptr.len = len
    BY DEF NextBlock, Pointer
  <2> QED BY <1>4, <2>1, <2>2, NextBlockSound
<1> QED BY <1>1, <1>2, <1>3, <1>4

-----------------------------------------------------------------------------
(* Texts. *)

\* Blocks of memory whose cells are anything.
Heaps(Cells) == [mem : UNION {[S -> Seq(Cells)] : S \in SUBSET (Nat \ {NoBlock})}, last : Nat]

\* Writing where one pointer points changes nothing of what is read where
\* another one does that is apart from it.
THEOREM WriteKeepsOthers ==
  ASSUME NEW Cells, NEW heap \in Heaps(Cells), NEW text,
         NEW p \in BufPointers, NEW q \in BufPointers,
         p.block \in DOMAIN heap.mem, Apart(p, q),
         q.block \in DOMAIN heap.mem, q.from + q.len <= Len(heap.mem[q.block])
  PROVE  Read(Write(heap, p, text), q) = Read(heap, q)
PROOF
<1> DEFINE old == heap.mem[p.block]
           new == [i \in DOMAIN old |-> IF Covers(p, i) THEN text ELSE old[i]]
           after == Write(heap, p, text)
<1>1. /\ DOMAIN after.mem = DOMAIN heap.mem
      /\ after.mem[p.block] = new
      /\ \A x \in DOMAIN heap.mem : x # p.block => after.mem[x] = heap.mem[x]
  BY DEF Write, Heaps
<1>2. old \in Seq(Cells)
  BY DEF Heaps
<1>3. DOMAIN new = DOMAIN old /\ Len(new) = Len(old)
  BY <1>2
<1>4. p.from \in Nat /\ p.len \in Nat /\ q.from \in Nat /\ q.len \in Nat \ {0}
  BY DEF BufPointers
<1>5. CASE q.block # p.block
  <2>1. after.mem[q.block] = heap.mem[q.block] /\ q.block \in DOMAIN after.mem
    BY <1>1, <1>5
  <2> HIDE DEF new, old, after
  <2> QED BY <1>4, <2>1 DEF Read, after
<1>6. CASE q.block = p.block
  <2>1. ASSUME NEW i \in DOMAIN old, Covers(q, i)
        PROVE  new[i] = old[i]
    <3>1. i \in Int
      BY <1>2
    <3>2. ~Covers(p, i)
      BY <1>4, <1>6, <2>1, <3>1 DEF Covers, Apart
    <3> QED BY <3>2
  <2>2. q.from + 1 \in DOMAIN old /\ Covers(q, q.from + 1)
    BY <1>2, <1>4, <1>6 DEF Covers
  <2> HIDE DEF new, old, after
  <2>3. \A c : (\A i \in DOMAIN new : Covers(q, i) => new[i] = c)
                 <=> (\A i \in DOMAIN old : Covers(q, i) => old[i] = c)
    BY <1>3, <2>1
  <2>4. new[q.from + 1] = old[q.from + 1]
    BY <2>1, <2>2
  <2>5. after.mem[q.block] = new /\ heap.mem[q.block] = old /\ q.block \in DOMAIN after.mem
    BY <1>1, <1>6 DEF old
  <2> QED BY <1>3, <1>4, <2>3, <2>4, <2>5 DEF Read, after
<1> QED BY <1>5, <1>6

\* A text is read where it was written: with the pointer it was written with,
\* which may say one byte more, the NUL, than the one it is read with.
THEOREM WrittenIsRead ==
  ASSUME NEW Cells, NEW heap \in Heaps(Cells), NEW text,
         NEW p \in BufPointers, NEW q \in BufPointers,
         p.block \in DOMAIN heap.mem, p.from + p.len <= Len(heap.mem[p.block]),
         q.block = p.block, q.from = p.from, q.len <= p.len, text.n = q.len
  PROVE  Read(Write(heap, p, text), q) = text
PROOF
<1> DEFINE old == heap.mem[p.block]
           new == [i \in DOMAIN old |-> IF Covers(p, i) THEN text ELSE old[i]]
           after == Write(heap, p, text)
<1>1. DOMAIN after.mem = DOMAIN heap.mem /\ after.mem[p.block] = new
  BY DEF Write, Heaps
<1>2. old \in Seq(Cells)
  BY DEF Heaps
<1>3. DOMAIN new = DOMAIN old /\ Len(new) = Len(old)
  BY <1>2
<1>4. p.from \in Nat /\ p.len \in Nat /\ q.len \in Nat \ {0}
  BY DEF BufPointers
<1>5. \A i \in DOMAIN new : Covers(q, i) => new[i] = text
  BY <1>2, <1>4 DEF Covers
<1>6. q.from + 1 \in DOMAIN old /\ Covers(q, q.from + 1)
  BY <1>2, <1>4 DEF Covers
<1>7. new[q.from + 1] = text
  BY <1>3, <1>5, <1>6
<1>8. Len(new) = Len(heap.mem[p.block])
  BY <1>3
<1> HIDE DEF new, old, after
<1>9. after.mem[q.block] = new /\ q.block \in DOMAIN after.mem
  BY <1>1
<1> QED BY <1>4, <1>5, <1>7, <1>8, <1>9 DEF Read, after

-----------------------------------------------------------------------------
(* The heap. *)

HeapOK(h) == (\E Cells : h \in Heaps(Cells)) /\ DOMAIN h.mem \subseteq 1..h.last

SizeOf(h) == [x \in DOMAIN h.mem |-> Len(h.mem[x])]

\* What the type of a heap says.
LEMMA HeapIs ==
  ASSUME NEW h, HeapOK(h)
  PROVE  /\ h.last \in Nat /\ DOMAIN h.mem \subseteq Nat \ {NoBlock}
         /\ h.last + 1 \in Nat \ {NoBlock} /\ h.last + 1 \notin DOMAIN h.mem
         /\ \A x \in DOMAIN h.mem : x \in 1..h.last /\ Len(h.mem[x]) \in Nat
         /\ SizeOf(h) \in Sizes /\ DOMAIN SizeOf(h) = DOMAIN h.mem
         /\ h = [mem |-> h.mem, last |-> h.last]
         /\ h.mem = [x \in DOMAIN h.mem |-> h.mem[x]]
<1>1. PICK Cells : h \in Heaps(Cells)
  BY DEF HeapOK
<1>2. PICK S \in SUBSET (Nat \ {NoBlock}) : h.mem \in [S -> Seq(Cells)]
  BY <1>1 DEF Heaps
<1>3. h.last \in Nat /\ h = [mem |-> h.mem, last |-> h.last] /\ DOMAIN h.mem \subseteq 1..h.last
  BY <1>1 DEF Heaps, HeapOK
<1>4. \A x \in DOMAIN h.mem : x \in 1..h.last /\ Len(h.mem[x]) \in Nat
  BY <1>2, <1>3
<1>5. SizeOf(h) \in [S -> Nat] /\ DOMAIN SizeOf(h) = DOMAIN h.mem
  BY <1>2, <1>4 DEF SizeOf
<1>6. SizeOf(h) \in Sizes
  BY <1>5 DEF Sizes
<1> QED
  BY <1>2, <1>3, <1>4, <1>5, <1>6 DEF NoBlock

\* A heap that is put together anew.
LEMMA MakeHeap ==
  ASSUME NEW S \in SUBSET Nat, NEW last \in Nat, S \subseteq 1..last, NEW Cells,
         NEW mem \in [S -> Seq(Cells)]
  PROVE  HeapOK([mem |-> mem, last |-> last])
<1>1. S \in SUBSET (Nat \ {NoBlock})
  BY DEF NoBlock
<1>2. mem \in UNION {[T -> Seq(Cells)] : T \in SUBSET (Nat \ {NoBlock})}
  BY <1>1
<1>3. [mem |-> mem, last |-> last] \in Heaps(Cells)
  BY <1>2 DEF Heaps
<1> QED
  BY <1>3 DEF HeapOK

\* new gives a block that was not there, and leaves the others alone.
LEMMA AllocateIs ==
  ASSUME NEW h, HeapOK(h), NEW S, NEW cells \in Seq(S), NEW g, g = Allocate(h, cells)
  PROVE  /\ HeapOK(g) /\ g.last = h.last + 1
         /\ DOMAIN g.mem = DOMAIN h.mem \cup {h.last + 1} /\ g.mem[h.last + 1] = cells
         /\ \A x \in DOMAIN h.mem : g.mem[x] = h.mem[x]
<1>1. PICK Cells : h \in Heaps(Cells)
  BY DEF HeapOK
<1>2. PICK T \in SUBSET (Nat \ {NoBlock}) : h.mem \in [T -> Seq(Cells)]
  BY <1>1 DEF Heaps
<1>3. h.last \in Nat /\ h.last + 1 \notin DOMAIN h.mem /\ DOMAIN h.mem \subseteq 1..h.last
  BY HeapIs DEF HeapOK
<1> DEFINE new == h.last + 1
           mem == [b \in T \cup {new} |-> IF b \in T THEN h.mem[b] ELSE cells]
<1>4. g = [mem |-> mem, last |-> new]
  BY <1>2 DEF Allocate
<1>5. cells \in Seq(Cells \cup S) /\ \A s \in Seq(Cells) : s \in Seq(Cells \cup S)
  OBVIOUS
<1>6. mem \in [T \cup {new} -> Seq(Cells \cup S)]
  BY <1>2, <1>5
<1>7. T \cup {new} \in SUBSET Nat /\ new \in Nat /\ T \cup {new} \subseteq 1..new
  BY <1>2, <1>3
<1>8. HeapOK(g)
  BY <1>4, <1>6, <1>7, MakeHeap
<1> QED
  BY <1>2, <1>3, <1>4, <1>8

\* delete[] takes blocks away, and leaves the others alone.
LEMMA FreeIs ==
  ASSUME NEW h, HeapOK(h), NEW B, NEW g, g = Free(h, B)
  PROVE  /\ HeapOK(g) /\ g.last = h.last
         /\ DOMAIN g.mem = DOMAIN h.mem \ B
         /\ \A x \in DOMAIN g.mem : g.mem[x] = h.mem[x]
<1>1. PICK Cells : h \in Heaps(Cells)
  BY DEF HeapOK
<1>2. PICK T \in SUBSET (Nat \ {NoBlock}) : h.mem \in [T -> Seq(Cells)]
  BY <1>1 DEF Heaps
<1>3. /\ h.last \in Nat /\ DOMAIN h.mem \subseteq 1..h.last
      /\ h = [mem |-> h.mem, last |-> h.last]
  BY HeapIs DEF HeapOK
<1> DEFINE mem == [b \in T \ B |-> h.mem[b]]
<1>4. g = [mem |-> mem, last |-> h.last]
  BY <1>2, <1>3 DEF Free
<1>5. mem \in [T \ B -> Seq(Cells)]
  BY <1>2
<1>6. T \ B \in SUBSET Nat /\ T \ B \subseteq 1..h.last
  BY <1>2, <1>3
<1>7. HeapOK(g)
  BY <1>3, <1>4, <1>5, <1>6, MakeHeap
<1> QED
  BY <1>2, <1>3, <1>4, <1>7

\* A text is written into the block it is written into.
LEMMA WriteIs ==
  ASSUME NEW h, HeapOK(h), NEW p, p.block \in DOMAIN h.mem, NEW text,
         NEW g, g = Write(h, p, text)
  PROVE  /\ HeapOK(g) /\ g.last = h.last
         /\ DOMAIN g.mem = DOMAIN h.mem
         /\ \A x \in DOMAIN h.mem : x # p.block => g.mem[x] = h.mem[x]
         /\ SizeOf(g) = SizeOf(h)
<1>1. PICK Cells : h \in Heaps(Cells)
  BY DEF HeapOK
<1>2. PICK T \in SUBSET (Nat \ {NoBlock}) : h.mem \in [T -> Seq(Cells)]
  BY <1>1 DEF Heaps
<1>3. /\ h.last \in Nat /\ DOMAIN h.mem \subseteq 1..h.last
      /\ h = [mem |-> h.mem, last |-> h.last]
  BY HeapIs DEF HeapOK
<1> DEFINE old == h.mem[p.block]
           new == [i \in DOMAIN old |-> IF Covers(p, i) THEN text ELSE old[i]]
           mem == [h.mem EXCEPT ![p.block] = new]
<1>4. g = [mem |-> mem, last |-> h.last]
  BY <1>3 DEF Write
<1>5. old \in Seq(Cells)
  BY <1>2
<1>6. new \in Seq(Cells \cup {text}) /\ Len(new) = Len(old)
  <2>1. PICK n, S : n = Len(old) /\ S = Cells \cup {text}
    OBVIOUS
  <2>2. n \in Nat /\ DOMAIN old = 1..n /\ \A i \in 1..n : old[i] \in S
    BY <1>5, <2>1
  <2>3. new = [i \in 1..n |-> IF Covers(p, i) THEN text ELSE old[i]]
    BY <2>2
  <2>4. \A i \in 1..n : (IF Covers(p, i) THEN text ELSE old[i]) \in S
    BY <2>1, <2>2
  <2> HIDE DEF new, old
  <2>5. new \in Seq(S) /\ Len(new) = n
    BY <2>2, <2>3, <2>4
  <2> QED
    BY <2>1, <2>5
<1>7. \A s \in Seq(Cells) : s \in Seq(Cells \cup {text})
  OBVIOUS
<1> HIDE DEF old, new
<1>8. mem \in [T -> Seq(Cells \cup {text})]
  BY <1>2, <1>6, <1>7
<1> HIDE DEF mem
<1>13. T \in SUBSET Nat /\ T \subseteq 1..h.last
  BY <1>2, <1>3
<1>9. HeapOK(g)
  BY <1>3, <1>4, <1>8, <1>13, MakeHeap
<1>10. DOMAIN g.mem = DOMAIN h.mem /\ g.mem[p.block] = new
       /\ \A x \in DOMAIN h.mem : x # p.block => g.mem[x] = h.mem[x]
  BY <1>2, <1>4 DEF mem
<1>11. \A x \in DOMAIN h.mem : Len(g.mem[x]) = Len(h.mem[x])
  BY <1>6, <1>10 DEF old
<1>12. SizeOf(g) = SizeOf(h)
  BY <1>10, <1>11 DEF SizeOf
<1> QED
  BY <1>3, <1>4, <1>9, <1>10, <1>12

\* What is read depends on one block.
LEMMA ReadSame ==
  ASSUME NEW h, NEW g, NEW p \in BufPointers, p.block \in DOMAIN h.mem,
         p.block \in DOMAIN g.mem, g.mem[p.block] = h.mem[p.block]
  PROVE  Read(g, p) = Read(h, p)
<1>1. p.len # 0
  BY DEF BufPointers
<1> QED
  BY <1>1 DEF Read

-----------------------------------------------------------------------------
(* A BufferList in the heap. *)

\* What is given points into the list's blocks, apart from each other.
Room(b, h, given) ==
  /\ HeapOK(h) /\ b \in Lists /\ given \in SUBSET BufPointers
  /\ ListSound(b, SizeOf(h), given)

\* The list took new blocks, changed no others, and what was given reads as before.
Kept(b, h, given, b2, h2) ==
  /\ b.blocks \subseteq b2.blocks /\ DOMAIN h.mem \subseteq DOMAIN h2.mem
  /\ b2.blocks \ b.blocks = DOMAIN h2.mem \ DOMAIN h.mem
  /\ \A x \in DOMAIN h.mem \ b.blocks : h2.mem[x] = h.mem[x]
  /\ \A q \in given : Read(h2, q) = Read(h, q)

\* Nothing is kept by itself.
LEMMA KeptSelf ==
  ASSUME NEW b, NEW h, NEW given
  PROVE  Kept(b, h, given, b, h)
BY DEF Kept

\* What is kept twice is kept.
LEMMA KeptTwice ==
  ASSUME NEW b, NEW h, NEW given, NEW b2, NEW h2, NEW given2, NEW b3, NEW h3,
         b.blocks \subseteq DOMAIN h.mem,
         given \subseteq given2, Kept(b, h, given, b2, h2), Kept(b2, h2, given2, b3, h3)
  PROVE  Kept(b, h, given, b3, h3)
<1>1. /\ b.blocks \subseteq b3.blocks /\ DOMAIN h.mem \subseteq DOMAIN h3.mem
      /\ b3.blocks \ b.blocks = DOMAIN h3.mem \ DOMAIN h.mem
  BY DEF Kept
<1>2. ASSUME NEW x \in DOMAIN h.mem \ b.blocks
      PROVE  h3.mem[x] = h.mem[x]
  <2>1. x \in DOMAIN h2.mem \ b2.blocks
    BY DEF Kept
  <2> QED
    BY <2>1 DEF Kept
<1>3. \A q \in given : Read(h3, q) = Read(h, q)
  BY DEF Kept
<1> QED
  BY <1>1, <1>2, <1>3 DEF Kept

\* Who holds fewer pointers is owed no more.
LEMMA RoomForLess ==
  ASSUME NEW b, NEW h, NEW given, NEW less, less \subseteq given, Room(b, h, given)
  PROVE  Room(b, h, less)
BY DEF Room, ListSound

\* The blocks of a list are there, and so is what was given.
LEMMA RoomIs ==
  ASSUME NEW b, NEW h, NEW given, Room(b, h, given)
  PROVE  /\ HeapOK(h) /\ b \in Lists /\ b.blocks \subseteq DOMAIN h.mem
         /\ \A q \in given : /\ q \in BufPointers /\ q.block \in b.blocks
                             /\ q.from + q.len <= Len(h.mem[q.block])
<1>1. DOMAIN SizeOf(h) = DOMAIN h.mem /\ \A x \in DOMAIN h.mem : SizeOf(h)[x] = Len(h.mem[x])
  BY DEF SizeOf
<1> QED
  BY <1>1 DEF Room, ListSound

\* getBuffer allocates the block it adds to the list.
LEMMA GetBufferBlocks ==
  ASSUME NEW b \in Lists, NEW len \in Nat \ {0}, NEW fresh
  PROVE  /\ GetBuffer(b, len, fresh).size \in Nat
         /\ GetBuffer(b, len, fresh).list.blocks =
              b.blocks \cup (IF GetBuffer(b, len, fresh).size > 0 THEN {fresh} ELSE {})
<1>1. b.allocated \in Nat /\ b.used \in Nat /\ len > 0
  BY DEF Lists
<1>2. CASE len >= b.allocated
  <2>1. GetBuffer(b, len, fresh) = OwnBlock(b, len, fresh)
    BY <1>1, <1>2 DEF GetBuffer
  <2> QED
    BY <1>1, <2>1 DEF OwnBlock, Lists
<1>3. CASE len < b.allocated /\ b.cur # NoBlock /\ b.allocated - b.used > len
  <2>1. GetBuffer(b, len, fresh) = CurrentBlock(b, len)
    BY <1>1, <1>3 DEF GetBuffer
  <2> QED
    BY <1>1, <2>1 DEF CurrentBlock, Lists
<1>4. CASE len < b.allocated /\ ~(b.cur # NoBlock /\ b.allocated - b.used > len)
  <2>1. GetBuffer(b, len, fresh) = NextBlock(b, len, fresh)
    BY <1>1, <1>4 DEF GetBuffer
  <2>2. b.allocated > 0
    BY <1>1, <1>4
  <2>3. /\ NextBlock(b, len, fresh).size = b.allocated
        /\ NextBlock(b, len, fresh).list.blocks = b.blocks \cup {fresh}
    BY DEF NextBlock, Lists
  <2> QED
    BY <1>1, <2>1, <2>2, <2>3
<1> QED
  BY <1>1, <1>2, <1>3, <1>4

\* A text was put into a list.
TextPut(b, h, given, len, text, put) ==
  /\ Room(put.list, put.heap, given \cup {put.ptr})
  /\ Kept(b, h, given, put.list, put.heap)
  /\ put.ptr \in BufPointers \ given /\ put.ptr.len = len
  /\ \A q \in BufPointers :
       /\ q.block = put.ptr.block /\ q.from = put.ptr.from
       /\ q.len <= len /\ text.n = q.len
       => Read(put.heap, q) = text

\* A text that is put into a list is found there, also without the NUL that
\* may follow it, and what was given before is as it was.
LEMMA PutTextIs ==
  ASSUME NEW b, NEW h, NEW given, Room(b, h, given),
         NEW len \in Nat \ {0}, NEW text, NEW put, put = PutText(h, b, len, text)
  PROVE  TextPut(b, h, given, len, text, put)
<1> DEFINE fresh == h.last + 1
           g == GetBuffer(b, len, fresh)
           h1 == IF g.size > 0 THEN Allocate(h, [i \in 1..g.size |-> Garbage]) ELSE h
           h2 == Write(h1, g.ptr, text)
<1>1. /\ HeapOK(h) /\ b \in Lists /\ given \in SUBSET BufPointers
      /\ ListSound(b, SizeOf(h), given) /\ b.blocks \subseteq DOMAIN h.mem
      /\ \A q \in given : q \in BufPointers /\ q.block \in DOMAIN h.mem
  BY RoomIs DEF Room
<1>2. /\ fresh \in Nat \ {NoBlock} /\ fresh \notin DOMAIN h.mem
      /\ SizeOf(h) \in Sizes /\ DOMAIN SizeOf(h) = DOMAIN h.mem
  BY <1>1, HeapIs
<1> HIDE DEF fresh
<1>3. g.size \in Nat /\ g.list.blocks = b.blocks \cup (IF g.size > 0 THEN {fresh} ELSE {})
  BY <1>1, GetBufferBlocks
<1>4. /\ ListSound(g.list, Extended(SizeOf(h), fresh, g.size), given \cup {g.ptr})
      /\ g.list \in Lists /\ g.ptr \in BufPointers \ given /\ g.ptr.len = len
  BY <1>1, <1>2, GetBufferSound
<1> HIDE DEF g, h1
<1>5. /\ HeapOK(h1) /\ SizeOf(h1) = Extended(SizeOf(h), fresh, g.size)
      /\ DOMAIN h1.mem = DOMAIN h.mem \cup (IF g.size > 0 THEN {fresh} ELSE {})
      /\ \A x \in DOMAIN h.mem : h1.mem[x] = h.mem[x]
  <2>1. CASE g.size > 0
    <3> DEFINE cells == [i \in 1..g.size |-> Garbage]
    <3>1. cells \in Seq({Garbage}) /\ Len(cells) = g.size
      BY <1>3
    <3> HIDE DEF cells
    <3>2. h1 = Allocate(h, cells)
      BY <2>1 DEF cells, h1
    <3>3. /\ HeapOK(h1) /\ DOMAIN h1.mem = DOMAIN h.mem \cup {fresh} /\ h1.mem[fresh] = cells
          /\ \A x \in DOMAIN h.mem : h1.mem[x] = h.mem[x]
      BY <1>1, <3>1, <3>2, AllocateIs DEF fresh
    <3>4. SizeOf(h1) = Extended(SizeOf(h), fresh, g.size)
      BY <1>2, <2>1, <3>1, <3>3 DEF SizeOf, Extended
    <3> QED
      BY <2>1, <3>3, <3>4
  <2>2. CASE g.size = 0
    BY <1>1, <2>2 DEF Extended, h1
  <2> QED
    BY <1>3, <2>1, <2>2
<1>6. /\ Room(g.list, h1, given \cup {g.ptr}) /\ g.ptr.block \in DOMAIN h1.mem
      /\ \A q \in given \cup {g.ptr} : /\ q \in BufPointers /\ q.block \in DOMAIN h1.mem
                                       /\ q.from + q.len <= Len(h1.mem[q.block])
  <2>1. Room(g.list, h1, given \cup {g.ptr})
    BY <1>1, <1>4, <1>5 DEF Room
  <2> QED
    BY <2>1, RoomIs
<1>7. /\ HeapOK(h2) /\ DOMAIN h2.mem = DOMAIN h1.mem /\ SizeOf(h2) = SizeOf(h1)
      /\ \A x \in DOMAIN h1.mem : x # g.ptr.block => h2.mem[x] = h1.mem[x]
  BY <1>5, <1>6, WriteIs
<1>8. PICK Cells : h1 \in Heaps(Cells)
  BY <1>5 DEF HeapOK
<1>9. ASSUME NEW q \in given
      PROVE  Read(h2, q) = Read(h, q)
  <2>1. Apart(g.ptr, q)
    BY <1>4 DEF ListSound
  <2>2. Read(h2, q) = Read(h1, q)
    BY <1>4, <1>6, <1>8, <2>1, WriteKeepsOthers
  <2>3. Read(h1, q) = Read(h, q)
    BY <1>1, <1>5, <1>6, ReadSame
  <2> QED
    BY <2>2, <2>3
<1>10. ASSUME NEW q \in BufPointers, q.block = g.ptr.block, q.from = g.ptr.from,
              q.len <= len, text.n = q.len
       PROVE  Read(h2, q) = text
  BY <1>4, <1>6, <1>8, <1>10, WrittenIsRead
<1>11. put.list = g.list /\ put.ptr = g.ptr /\ put.heap = h2
  <2>1. g.ptr # NULL
    BY <1>4 DEF BufPointers, NULL, Pointer
  <2> QED
    BY <2>1 DEF PutText, g, h1, fresh
<1> HIDE DEF h2
<1>12. Room(g.list, h2, given \cup {g.ptr})
  BY <1>6, <1>7 DEF Room
<1>13. Kept(b, h, given, g.list, h2)
  <2>1. b.blocks \subseteq g.list.blocks /\ DOMAIN h.mem \subseteq DOMAIN h2.mem
        /\ g.list.blocks \ b.blocks = DOMAIN h2.mem \ DOMAIN h.mem
    BY <1>1, <1>2, <1>3, <1>5, <1>7
  <2>2. g.ptr.block \in g.list.blocks
    BY <1>6, RoomIs
  <2>3. ASSUME NEW x \in DOMAIN h.mem \ b.blocks
        PROVE  h2.mem[x] = h.mem[x]
    <3>1. x # g.ptr.block
      BY <1>2, <1>3, <2>2
    <3> QED
      BY <1>5, <1>7, <3>1
  <2> QED
    BY <1>9, <2>1, <2>3 DEF Kept
<1> QED
  BY <1>4, <1>10, <1>11, <1>12, <1>13 DEF TextPut

-----------------------------------------------------------------------------
(* A Command that asks for one buffer after the other. *)

VARIABLES
  bufs,     \* its BufferList
  sizes,    \* the size of every block
  handed    \* the pointers it has got

RequestsInit == bufs = NewBufferList /\ sizes = [x \in {} |-> 0] /\ handed = {}

Get(len, fresh) ==
  LET g == GetBuffer(bufs, len, fresh)
  IN /\ bufs' = g.list
     /\ handed' = handed \cup {g.ptr}
     /\ sizes' = Extended(sizes, fresh, g.size)

RequestsNext ==
  \E len \in Nat \ {0}, fresh \in Nat \ {NoBlock} : fresh \notin DOMAIN sizes /\ Get(len, fresh)

Requests == RequestsInit /\ [][RequestsNext]_<<bufs, sizes, handed>>

ListInv ==
  /\ bufs \in Lists /\ sizes \in Sizes /\ handed \in SUBSET BufPointers
  /\ ListSound(bufs, sizes, handed)

\* However many strings a Command has, and of whatever lengths, no two overlap
\* and none leaves its block (BufferList, and BuffersSound of Commands).
THEOREM BuffersCorrect == Requests => []ListSound(bufs, sizes, handed)
PROOF
<1>1. RequestsInit => ListInv
  <2> SUFFICES ASSUME RequestsInit PROVE ListInv
    OBVIOUS
  <2>1. bufs \in Lists /\ bufs.blocks = {} /\ bufs.cur = NoBlock
    BY SizeAssumption DEF RequestsInit, NewBufferList, Lists, NoBlock
  <2>2. sizes \in Sizes
    BY DEF RequestsInit, Sizes
  <2> QED BY <2>1, <2>2 DEF RequestsInit, ListInv, ListSound
<1>2. ListInv /\ [RequestsNext]_<<bufs, sizes, handed>> => ListInv'
  <2>1. ASSUME ListInv, NEW len \in Nat \ {0}, NEW fresh \in Nat \ {NoBlock},
               fresh \notin DOMAIN sizes, Get(len, fresh)
        PROVE  ListInv'
    <3> DEFINE g == GetBuffer(bufs, len, fresh)
    <3>1. /\ ListSound(g.list, Extended(sizes, fresh, g.size), handed \cup {g.ptr})
          /\ g.list \in Lists /\ g.ptr \in BufPointers
      BY <2>1, GetBufferSound DEF ListInv
    <3>2. bufs' = g.list /\ handed' = handed \cup {g.ptr} /\ sizes' = Extended(sizes, fresh, g.size)
      BY <2>1 DEF Get
    <3>3. g.size \in Nat
      BY <2>1 DEF ListInv, Lists, GetBuffer, OwnBlock, CurrentBlock, NextBlock
    <3> HIDE DEF g
    <3>4. sizes' \in Sizes
      BY <2>1, <3>2, <3>3 DEF ListInv, Sizes, Extended
    <3>5. ListSound(bufs, sizes, handed)'
      BY <3>1, <3>2 DEF ListSound
    <3> QED BY <2>1, <3>1, <3>2, <3>4, <3>5 DEF ListInv
  <2>2. CASE UNCHANGED <<bufs, sizes, handed>>
    BY <2>2 DEF ListInv, ListSound
  <2> QED BY <2>1, <2>2 DEF RequestsNext
<1>3. ListInv => ListSound(bufs, sizes, handed)
  BY DEF ListInv
<1> QED BY <1>1, <1>2, <1>3, PTL DEF Requests
=============================================================================
