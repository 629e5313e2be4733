----------------------------- MODULE BufferList -----------------------------
(***************************************************************************)
(* BufferList: the strings of one command, carved out of a few blocks that *)
(* are freed together.  The memory around it is modelled too, because what *)
(* matters of a pointer is what is found where it points:                  *)
(*                                                                         *)
(*   heap.mem    the blocks that are allocated, each a sequence of cells   *)
(*   heap.last   the block allocated last                                  *)
(*                                                                         *)
(* A cell holds the whole text it is part of; text.n is its length.  A     *)
(* text is read back only if every cell of it still holds it.              *)
(***************************************************************************)
EXTENDS Integers, Sequences, FiniteSets

CONSTANT DefaultSize    \* BufferList::defaultSize

ASSUME SizeAssumption == DefaultSize \in Nat \ {0}

NoBlock == 0

\* A pointer with the length of what it points to.
Pointer(block, from, len) == [block |-> block, from |-> from, len |-> len]
NULL == Pointer(NoBlock, 0, 0)
StaticEmpty == Pointer(-1, 0, 0)      \* the literal ""

NewBufferList ==
  [blocks |-> {}, cur |-> NoBlock, used |-> 0, allocated |-> DefaultSize]

EmptyHeap == [mem |-> <<>>, last |-> NoBlock]

\* new char[size], or new T[size].
Allocate(heap, cells) ==
  [mem |-> [b \in DOMAIN heap.mem \cup {heap.last + 1} |->
              IF b \in DOMAIN heap.mem THEN heap.mem[b] ELSE cells],
   last |-> heap.last + 1]

\* delete[] of every one of the blocks.
Free(heap, blocks) ==
  [heap EXCEPT !.mem = [b \in DOMAIN heap.mem \ blocks |-> heap.mem[b]]]

-----------------------------------------------------------------------------

\* Where getBuffer finds room for len bytes, 0 < len: a block of its own, the
\* current block, or a new current block.  `fresh` names a new block.
OwnBlock(b, len, fresh) ==
  [list |-> [b EXCEPT !.blocks = @ \cup {fresh}],
   ptr |-> Pointer(fresh, 0, len), size |-> len]

\* bytesUsed is not advanced.
BadCurrentBlock(b, len) ==
  [list |-> b, ptr |-> Pointer(b.cur, b.used, len), size |-> 0]

CurrentBlock(b, len) ==
  [list |-> [b EXCEPT !.used = @ + len],
   ptr |-> Pointer(b.cur, b.used, len), size |-> 0]

NextBlock(b, len, fresh) ==
  [list |-> [b EXCEPT !.blocks = @ \cup {fresh}, !.cur = fresh, !.used = len],
   ptr |-> Pointer(fresh, 0, len), size |-> b.allocated]

\* BufferList::getBuffer: the list afterwards, the pointer, and the size of
\* the block that was allocated, if one was.
GetBuffer(b, len, fresh) ==
  CASE len = 0 -> [list |-> b, ptr |-> NULL, size |-> 0]
    [] len > 0 /\ len >= b.allocated -> OwnBlock(b, len, fresh)
    [] len > 0 /\ len < b.allocated /\ b.cur # NoBlock /\ b.allocated - b.used > len ->
         CurrentBlock(b, len)
    [] OTHER -> NextBlock(b, len, fresh)

\* It keeps its blocks.
BadMovedFrom(b) == b

\* The list that BufferList(BufferList&) leaves behind.
MovedFrom(b) == [b EXCEPT !.blocks = {}, !.cur = NoBlock, !.used = 0, !.allocated = 0]

-----------------------------------------------------------------------------
(* Texts in memory. *)

Garbage == [t |-> "garbage", n |-> 0, s |-> ""]
EmptyText == [t |-> "string", n |-> 0, s |-> ""]

Covers(p, i) == p.from < i /\ i <= p.from + p.len

\* Writes a text where p points.
Write(heap, p, text) ==
  [heap EXCEPT !.mem[p.block] =
     [i \in DOMAIN @ |-> IF Covers(p, i) THEN text ELSE @[i]]]

\* What a reader of p->len bytes finds there.
Read(heap, p) ==
  CASE p.len = 0 -> EmptyText
    [] p.len # 0 /\ p.block \notin DOMAIN heap.mem -> Garbage
    [] OTHER ->
         LET block == heap.mem[p.block]
             first == block[p.from + 1]
         IN IF /\ p.from + p.len <= Len(block) /\ first.n = p.len
               /\ \A i \in DOMAIN block : Covers(p, i) => block[i] = first
              THEN first ELSE Garbage

\* getBuffer(len) and the copy of a text to what it returns.
PutText(heap, b, len, text) ==
  LET g == GetBuffer(b, len, heap.last + 1)
      h == IF g.size > 0 THEN Allocate(heap, [i \in 1..g.size |-> Garbage]) ELSE heap
  IN [list |-> g.list, ptr |-> g.ptr,
      heap |-> IF g.ptr = NULL THEN h ELSE Write(h, g.ptr, text)]

-----------------------------------------------------------------------------
(* What a list owes those who hold pointers into it. *)

Apart(p, q) == p.block # q.block \/ p.from + p.len <= q.from \/ q.from + q.len <= p.from

\* size is the size of each allocated block, given the pointers handed out.
ListSound(b, size, given) ==
  /\ b.blocks \subseteq DOMAIN size
  /\ b.cur # NoBlock => b.cur \in b.blocks /\ size[b.cur] = b.allocated
  /\ \A p \in given :
       /\ p.block \in b.blocks
       /\ p.from + p.len <= size[p.block]
       /\ p.block = b.cur => p.from + p.len <= b.used
  /\ \A p, q \in given : p # q => Apart(p, q)
=============================================================================
