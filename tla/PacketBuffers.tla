---------------------------- MODULE PacketBuffers ----------------------------
(***************************************************************************)
(* The boot loader's packet buffers (skbuff.c): a table of sk_buff whose    *)
(* `used' field is the whole of the bookkeeping, searched round robin from  *)
(* skb_cur.  A pool is a record of the buffers in use and of skb_cur.       *)
(***************************************************************************)
EXTENDS Naturals, FiniteSets

CONSTANT NBufs            \* SKBUFF_SIZE

Bufs == 0 .. NBufs - 1
NoBuf == NBufs            \* NULL

Pools == [used : SUBSET Bufs, cur : Bufs]

\* Mutation: the search does not wrap.
NextBufNoWrap(b) == b + 1

NextBuf(b) == (b + 1) % NBufs

\* The distance the search has to go from skb_cur to buffer b.
Ahead(p, b) == (b + NBufs - p.cur) % NBufs

\* The buffer alloc_skb returns when nothing interrupts it.
Found(p) == CHOOSE b \in Bufs \ p.used :
              \A c \in Bufs \ p.used : Ahead(p, b) <= Ahead(p, c)

Alloc(p) == [used |-> p.used \cup {Found(p)}, cur |-> NextBuf(Found(p))]

\* alloc_skb has no other end than a free buffer: it spins while there is none.
CanAlloc(p, n) == Cardinality(Bufs \ p.used) >= n

Free(p, b) == [p EXCEPT !.used = @ \ {b}]
=============================================================================
