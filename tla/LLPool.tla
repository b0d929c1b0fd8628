------------------------------- MODULE LLPool -------------------------------
(***************************************************************************)
(* The linked-list pools of bm_server.c.  An entry is named by the order   *)
(* in which it was first allocated.  Removing an entry puts it on a free   *)
(* list, from which the next item takes it again; whoever kept a pointer   *)
(* to it then reads the new item.                                          *)
(***************************************************************************)
EXTENDS Naturals, Sequences, SequencesExt

(* head: the entries in use, latest first; free: those to be used again,   *)
(* latest first; data: what each entry holds, removed ones included.       *)
newLLPool == [head |-> <<>>, free |-> <<>>, data |-> <<>>]

Entries(pool) == ToSet(pool.head)

(* The entry the next item is going to be put in.                          *)
NextEntry(pool) ==
  IF pool.free # <<>> THEN Head(pool.free) ELSE Len(pool.data) + 1

LLPoolAddItem(pool, item) ==
  [head |-> <<NextEntry(pool)>> \o pool.head,
   free |-> IF pool.free # <<>> THEN Tail(pool.free) ELSE <<>>,
   data |-> IF pool.free # <<>> THEN [pool.data EXCEPT ![Head(pool.free)] = item]
                                ELSE Append(pool.data, item)]

(* The elements of s that are in S, in their order.  (SelectSeq with a     *)
(* definition the proofs can expand.)                                      *)
Within(s, S) ==
  LET kept[i \in 0..Len(s)] ==
        IF i = 0 THEN <<>>
        ELSE IF s[i] \in S THEN Append(kept[i - 1], s[i])
        ELSE kept[i - 1]
  IN  kept[Len(s)]

Without(s, S) == Within(s, ToSet(s) \ S)

(* A loop over the pool that removes some of its entries: one by one they  *)
(* leave the list and go to the front of the free list.                    *)
RemoveAll(pool, entries) ==
  [pool EXCEPT !.head = Without(@, entries),
               !.free = Reverse(Within(pool.head, entries)) \o @]

IsLLPool(pool, Items) ==
  /\ pool \in [head : Seq(DOMAIN pool.data), free : Seq(DOMAIN pool.data), data : Seq(Items)]
  /\ IsInjective(pool.head) /\ IsInjective(pool.free)
  /\ Entries(pool) \cap ToSet(pool.free) = {}
  /\ Entries(pool) \cup ToSet(pool.free) = DOMAIN pool.data
=============================================================================
