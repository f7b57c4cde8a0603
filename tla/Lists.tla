------------------------------- MODULE Lists -------------------------------
(***************************************************************************)
(* A list with an element put in or taken out at a position: what the      *)
(* pointer surgery of insert and remove (src/fi/faultq.cc) leaves.  They   *)
(* are written on Sequences alone because SequencesExt extends Bags, whose *)
(* presence in the context slows every proof obligation down many times.   *)
(***************************************************************************)
EXTENDS Integers, Sequences, Functions

\* s with e at position i; what was at i and after it moves up by one.
InsertedAt(s, i, e) == SubSeq(s, 1, i - 1) \o <<e>> \o SubSeq(s, i, Len(s))

\* s without its element at position i.
RemovedAt(s, i) == SubSeq(s, 1, i - 1) \o SubSeq(s, i + 1, Len(s))
=============================================================================
