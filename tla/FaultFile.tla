------------------------------ MODULE FaultFile ------------------------------
(***************************************************************************)
(* How the fault file is read (Fi_System::getFromFile of fi_system.cc and  *)
(* the constructors of the fault classes).  A file is a sequence of words  *)
(* separated by white space, with or without white space after the last    *)
(* word.  A stream over it has a position and the two error bits.          *)
(*                                                                         *)
(* The words are given: which of them are integers, times, changes, and    *)
(* what they stand for.                                                    *)
(***************************************************************************)
EXTENDS Lists, FiniteSetsExt

CONSTANTS
  IntWord,     \* words that read as an int
  WhenWord,    \* words that begin with Inst, Tick or Addr
  WhatWord,    \* words that begin with Immd, Mask, Flip, All0 or All1
  RegDecWord   \* words that begin with Src or Dst

\* The classes getFromFile knows; the first three are constructed and not queued.
Plain == {"CPUInjectedFault", "InjectedFault", "O3CPUInjectedFault"}
Class ==
  Plain \cup {"RegisterInjectedFault", "MemoryInjectedFault", "PCInjectedFault",
             "GeneralFetchInjectedFault", "OpCodeInjectedFault",
             "RegisterDecodingInjectedFault", "IEWStageInjectedFault"}

\* The fields a constructor reads, in this order.
Base == <<"when", "what", "thread", "where", "occ">>

Layout ==
  [class \in Class |->
     Base \o CASE class = "InjectedFault" -> <<>>
               [] class = "RegisterInjectedFault" -> <<"tcontext", "regtype", "reg">>
               [] class = "MemoryInjectedFault" -> <<"tcontext", "offset", "register">>
               [] class = "RegisterDecodingInjectedFault" -> <<"tcontext", "regdec">>
               [] OTHER -> <<"tcontext">>]

IntField == {"occ", "tcontext", "reg", "offset", "register"}

\* What the parsers of a field accept; anything else ends in assert(0).
Accepts(k) ==
  CASE k = "what" -> WhatWord
    [] k = "when" -> WhenWord
    [] k = "regtype" -> {"int", "float", "misc"}
    [] k = "regdec" -> RegDecWord

Parsed == {"what", "when", "regtype", "regdec"}

-----------------------------------------------------------------------------
(* What a file says: the objects that were written into it.  An object is  *)
(* a class, or another word, with the words of its fields.                 *)

\* The file that is not there.
NoFile == [objects |-> <<>>, words |-> <<>>, whole |-> TRUE, blank |-> FALSE, exists |-> FALSE]

FieldsOf(o) ==
  [k \in Range(Layout[o.class]) |->
     o.fields[CHOOSE i \in 1 .. Len(o.fields) : Layout[o.class][i] = k]]

-----------------------------------------------------------------------------
(* Streams.                                                                *)

\* ifstream::open clears the error bits of the stream, or sets failbit if there is
\* no such file.
open(f) == [file |-> f, pos |-> 0, eof |-> FALSE, fail |-> ~f.exists]

good(s) == ~s.eof /\ ~s.fail

\* The next word has been taken; at the very end of the file that sets eofbit.
Advance(s) ==
  [s EXCEPT !.pos = @ + 1, !.eof = s.pos + 1 = Len(s.file.words) /\ ~s.file.blank]

\* There is no next word.
Exhausted(s) == [s EXCEPT !.eof = TRUE, !.fail = TRUE]

Empty == ""
Garbage == "uninitialised"

\* os >> check: the stream, and the word or nothing.
ReadWord(s) ==
  CASE ~good(s) -> [s |-> [s EXCEPT !.fail = TRUE], w |-> Empty]
    [] good(s) /\ s.pos = Len(s.file.words) -> [s |-> Exhausted(s), w |-> Empty]
    [] good(s) /\ s.pos < Len(s.file.words) -> [s |-> Advance(s), w |-> s.file.words[s.pos + 1]]

\* How many of the fields in layout can be read from s: up to the end of the file, or
\* to a word that is no int where an int is expected.
Readable(layout, s) ==
  Max({n \in 0 .. Len(layout) :
         n > 0 => /\ good(s) /\ s.pos + n <= Len(s.file.words)
                  /\ \A i \in 1 .. n :
                       layout[i] \in IntField => s.file.words[s.pos + i] \in IntWord})

\* The constructor of a class: the stream after it and the fields.  After a read that
\* fails the stream is not good, and each further read leaves its variable as it was:
\* an empty string, or an int that has no value.  A word that is no int reads as 0.
Construct(class, s) ==
  LET layout == Layout[class]
      n == Readable(layout, s)
      pos == s.pos + n
      more == pos < Len(s.file.words)
      read == n = Len(layout)
  IN [s |-> [s EXCEPT !.pos = pos,
                      !.fail = @ \/ ~read,
                      !.eof = @ \/ (~more /\ (~read \/ ~s.file.blank))],
      got |-> [k \in Range(layout) |->
                 LET i == CHOOSE i \in 1 .. Len(layout) : layout[i] = k
                 IN CASE i <= n -> s.file.words[s.pos + i]
                      [] i = n + 1 /\ good(s) /\ more -> "0"
                      [] i > n /\ k \notin IntField -> Empty
                      [] OTHER -> Garbage]]

\* One of the parsers does not know its word.
Asserts(got) == \E k \in DOMAIN got \cap Parsed : got[k] \notin Accepts(k)

=============================================================================
