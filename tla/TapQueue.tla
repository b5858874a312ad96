------------------------------- MODULE TapQueue -------------------------------
(***************************************************************************)
(* The circular queue of the Windows driver (mem.c): a fixed array data,   *)
(* the index base of its oldest element and its size.  The driver keeps    *)
(* packets, read IRPs and injected packets in three of them.               *)
(*                                                                         *)
(* A slot that no element occupies holds None here; the C array keeps the  *)
(* old pointer there, which nothing reads.  max_size, a statistic, is left *)
(* out.                                                                    *)
(***************************************************************************)
EXTENDS Integers, Sequences

CONSTANT None                           \* the NULL that pop returns

Queues(S, cap) ==
  [base : 0 .. cap - 1, size : 0 .. cap,
   data : [0 .. cap - 1 -> S \cup {None}]]

\* QUEUE_ADD_INDEX: one conditional subtraction, not a modulus.
AddIndex(cap, var, inc) ==
  IF var + inc >= cap THEN var + inc - cap ELSE var + inc

\* The elements from the oldest to the newest.
Contents(cap, q) ==
  [i \in 1 .. q.size |-> q.data[AddIndex(cap, q.base, i - 1)]]

QueueInit(cap) ==
  [base |-> 0, size |-> 0, data |-> [i \in 0 .. cap - 1 |-> None]]

QueueFull(cap, q) == q.size = cap

QueuePush(cap, q, item) ==
  [q EXCEPT !.data[AddIndex(cap, q.base, q.size)] = item,
            !.size = @ + 1]

Oldest(q) == q.data[q.base]

QueuePop(cap, q) ==
  [q EXCEPT !.base = AddIndex(cap, @, 1),
            !.size = @ - 1,
            !.data[q.base] = None]

\* One turn of the loop of QueueExtract: the element at src is dropped or
\* moved to dest.
ExtractStep(cap, item, s, data) ==
  IF data[s.src] = item
    THEN [s EXCEPT !.size = @ - 1, !.src = AddIndex(cap, @, 1)]
    ELSE [s EXCEPT !.dest = AddIndex(cap, @, 1),
                   !.src = AddIndex(cap, @, 1),
                   !.kept = [@ EXCEPT ![s.dest] = data[s.src]]]

\* The elements but item, moved up in place.  The loop reads data[src] before
\* any move could overwrite it (dest never passes src), so reading the old
\* array is reading the array.
QueueExtract(cap, q, item) ==
  LET init == [src |-> q.base, dest |-> q.base, size |-> q.size,
               kept |-> [i \in 0 .. cap - 1 |-> None]]
      loop[n \in 0 .. q.size] ==
        IF n = 0 THEN init ELSE ExtractStep(cap, item, loop[n - 1], q.data)
      last == loop[q.size]
  IN  [base |-> q.base, size |-> last.size, data |-> last.kept]

=============================================================================
