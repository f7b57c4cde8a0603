-------------------------- MODULE ExperimentProofs --------------------------
(***************************************************************************)
(* Proofs about the campaign of Experiment, for any fault files, any       *)
(* program and any number of readings, initialisations, instructions and   *)
(* manifestations.                                                         *)
(*                                                                         *)
(* Nothing is assumed of the files: a fault that is in a queue has passed  *)
(* the parsers, which is all that these proofs need to know of reading.    *)
(***************************************************************************)
EXTENDS Experiment, SequenceLemmas

-----------------------------------------------------------------------------
(* The inductive invariant.                                                *)

Running ==
  [stage : {"main", "fetch", "decode", "iew"}, a : Address, w : MachInst,
   si : SUBSET MachInst, hit : BOOLEAN]

IsProc(p) ==
  p = [faults |-> p.faults, instMap |-> p.instMap, pages |-> p.pages, inst |-> p.inst,
       inits |-> p.inits, insts |-> p.insts, hits |-> p.hits, scars |-> p.scars]

\* A fault whose constructor has not ended in an assertion.
IsFault(f) ==
  /\ f = [class |-> f.class, got |-> f.got, left |-> f.left, by |-> f.by]
  /\ f.got.what \in WhatWord

\* The queued faults are the ones that reading n has brought.
FaultsOK(s, n) ==
  /\ s \in Seq(Range(s))
  /\ \A i \in DOMAIN s : IsFault(s[i]) /\ s[i].by = n

IsMap(m) == m = [w \in MachInst |-> m[w]]

\* Pages name instructions of instMap, and an instruction there is what decoding gives
\* or bears a mark.
CacheOK(instMap, pages, scars) ==
  /\ IsMap(instMap)
  /\ pages \in [Address -> SUBSET MachInst]
  /\ scars \in [MachInst -> SUBSET Nat]
  /\ \A a \in Address : \A w \in pages[a] : instMap[w] # {}
  /\ \A w \in MachInst : instMap[w] # {} /\ scars[w] = {} => instMap[w] = {decodeInst[w]}

\* The instruction under way is that of the program until a fault changes it.
InstOK(inst, instMap) ==
  inst # NoInst =>
    /\ inst \in Running
    /\ ~inst.hit => inst.w = Program[inst.a]
    /\ inst.stage \in {"decode", "iew"} => inst.si = {inst.w} /\ instMap[inst.w] # {}

\* Before the first init_fi_system the guest runs nothing that the hooks see.
FirstOK(inits, inst, scars) ==
  inits = 0 => inst = NoInst /\ \A w \in MachInst : scars[w] = {}

GoodProc(p) ==
  /\ IsProc(p)
  /\ p.inits \in 0 .. MaxInits /\ p.insts \in 0 .. MaxInsts /\ p.hits \in 0 .. MaxHits
  /\ CacheOK(p.instMap, p.pages, p.scars)
  /\ InstOK(p.inst, p.instMap)
  /\ FirstOK(p.inits, p.inst, p.scars)

\* The marks of a process that was initialised once are of its own reading.
OwnMarks(p, n) == p.inits = 1 => \A w \in MachInst : p.scars[w] \subseteq {n}

\* A checkpoint is taken in init_fi_system.
ImageOK ==
  image.saved =>
    /\ check /\ image = [saved |-> TRUE, proc |-> image.proc]
    /\ GoodProc(image.proc) /\ image.proc.inst = NoInst /\ image.proc.inits < MaxInits

ExpInv ==
  /\ pc \in {"down", "read", "guest", "aborted"} /\ check \in BOOLEAN /\ reads \in 0 .. MaxReads
  /\ GoodProc(proc) /\ FaultsOK(proc.faults, reads) /\ OwnMarks(proc, reads)
  /\ ImageOK
  /\ CorruptsAsNamed

-----------------------------------------------------------------------------
(* What a fault does to a value.                                           *)

LEMMA HighBits ==
  ASSUME NEW w \in Nat, NEW out
  PROVE  /\ High(w, out) \in Value(w)
         /\ w = Wide => High(w, out) = {k \in Bits(w) : k \in out}
BY WidthsAssumption DEF High, Value, Bits

\* The changed value has the bits that the value has.
LEMMA ManifestType ==
  ASSUME NEW w \in Nat, NEW in \in Value(w), NEW what,
         what.type \in {"Immd", "Mask", "Flip", "All"}, what.n \in Int
  PROVE  manifest(w, in, what) \in Value(w)
<1>1. CASE what.type = "Immd"
  BY <1>1, HighBits DEF manifest, IMMD
<1>2. CASE what.type = "Mask"
  BY <1>2, HighBits DEF manifest, XOR, Xor, Value
<1>3. CASE what.type = "Flip"
  <2>1. what.n \in 1 .. w => what.n - 1 \in Bits(w)
    BY DEF Bits
  <2> QED BY <1>3, <2>1 DEF manifest, FLIP, Xor, Value
<1>4. CASE what.type = "All"
  BY <1>4 DEF manifest, ALL, Value
<1> QED BY <1>1, <1>2, <1>3, <1>4

\* manifest does what the four names say to a value of 64 bits, and Flip and All do so
\* to a value of any width.
LEMMA ManifestNamed ==
  ASSUME NEW w \in Nat, NEW in \in Value(w), NEW what,
         what.type \in {"Immd", "Mask", "Flip", "All"}, what.n \in Int,
         w = Wide \/ what.type \in {"Flip", "All"}
  PROVE  manifest(w, in, what) = Named(w, in, what)
<1>1. CASE what.type = "Immd"
  BY <1>1, HighBits DEF manifest, IMMD, Named
<1>2. CASE what.type = "Mask"
  <2>1. High(w, what.bits) = {k \in Bits(w) : k \in what.bits}
    BY <1>2, HighBits
  <2>2. XOR(w, in, what.bits) = {k \in Bits(w) : (k \in in) # (k \in what.bits)}
    BY <2>1 DEF XOR, Xor, Value
  <2> QED BY <1>2, <2>2 DEF manifest, Named
<1>3. CASE what.type = "Flip"
  <2>1. FLIP(w, in, what.n) = {k \in Bits(w) : (k \in in) # (k = what.n - 1)}
    <3>1. CASE what.n \in 1 .. w
      <4>1. what.n - 1 \in Bits(w)
        BY <3>1 DEF Bits
      <4> QED BY <3>1, <4>1 DEF FLIP, Xor, Value
    <3>2. CASE what.n \notin 1 .. w
      <4>1. \A k \in Bits(w) : k # what.n - 1
        BY <3>2 DEF Bits
      <4> QED BY <3>2, <4>1 DEF FLIP, Value
    <3> QED BY <3>1, <3>2
  <2> QED BY <1>3, <2>1 DEF manifest, Named
<1>4. CASE what.type = "All"
  BY <1>4 DEF manifest, ALL, Named
<1> QED BY <1>1, <1>2, <1>3, <1>4

LEMMA CastType ==
  ASSUME NEW what \in What
  PROVE  Cast(what).type = what.type /\ Cast(what).n \in Int
<1>1. ByteBits \in Nat
  BY WidthsAssumption
<1>2. 2^ByteBits \in Int /\ 2^ByteBits > 0
  BY <1>1, WidthsAssumption
<1>3. what.n % 2^ByteBits \in Int
  BY <1>2 DEF What
<1> QED BY <1>3 DEF Cast, What

\* insertBits changes the opcode and nothing else of an instruction.
LEMMA OpCodeInserted ==
  ASSUME NEW in \in MachInst, NEW out
  PROVE  /\ insertBits(in, out) \in MachInst
         /\ OpCode(insertBits(in, out)) = {k \in Bits(OpBits) : k \in out}
         /\ \A k \in Bits(InstBits - OpBits) : k \in insertBits(in, out) <=> k \in in
<1>1. /\ InstBits \in Nat /\ OpBits \in 1 .. InstBits
      /\ \A k \in in : k \in Bits(InstBits)
  BY WidthsAssumption DEF MachInst, Value
<1>2. insertBits(in, out) \in MachInst
  BY <1>1 DEF insertBits, MachInst, Value
<1>3. ASSUME NEW k \in Bits(OpBits)
      PROVE  k + (InstBits - OpBits) \in insertBits(in, out) <=> k \in out
  <2> DEFINE j == k + (InstBits - OpBits)
  <2>1. /\ j \in Bits(InstBits) /\ j >= InstBits - OpBits /\ ~(j < InstBits - OpBits)
        /\ j - (InstBits - OpBits) = k
    BY <1>1 DEF Bits
  <2> HIDE DEF j
  <2>2. j \in insertBits(in, out) <=> k \in out
    BY <2>1 DEF insertBits
  <2> QED BY <2>2 DEF j
<1>4. ASSUME NEW k \in Bits(InstBits - OpBits) PROVE k \in insertBits(in, out) <=> k \in in
  BY <1>1 DEF insertBits, Bits
<1> QED BY <1>2, <1>3, <1>4 DEF OpCode

LEMMA OpCodeNamed ==
  ASSUME NEW in \in MachInst, NEW what, what.type \in {"Immd", "Mask"}
  PROVE  /\ manifestOpCode(in, what) \in MachInst
         /\ OpCode(manifestOpCode(in, what)) = Named(OpBits, OpCode(in), what)
         /\ \A k \in Bits(InstBits - OpBits) : k \in manifestOpCode(in, what) <=> k \in in
<1>1. CASE what.type = "Immd"
  BY <1>1, OpCodeInserted DEF manifestOpCode, Named
<1>2. CASE what.type = "Mask"
  <2> DEFINE x == Xor(OpCode(in), what.bits)
  <2>1. {k \in Bits(OpBits) : k \in x} = {k \in Bits(OpBits) : (k \in OpCode(in)) # (k \in what.bits)}
    BY DEF Xor
  <2>2. manifestOpCode(in, what) = insertBits(in, x)
    BY <1>2 DEF manifestOpCode
  <2>3. Named(OpBits, OpCode(in), what) = {k \in Bits(OpBits) : k \in x}
    BY <1>2, <2>1 DEF Named
  <2> HIDE DEF x
  <2> QED BY <2>2, <2>3, OpCodeInserted
<1> QED BY <1>1, <1>2

-----------------------------------------------------------------------------
(* The faults that a reading brings.                                       *)

LEMMA FrontOfJoined ==
  ASSUME NEW S, NEW s \in Seq(S), NEW t \in Seq(S), NEW i \in 1 .. Len(s)
  PROVE  (s \o t)[i] = s[i] /\ i \in DOMAIN (s \o t)
OBVIOUS

\* Every constructor reads what the fault is to do.
LEMMA WhatRead == \A class \in Class : "what" \in Range(Layout[class])
<1> SUFFICES ASSUME NEW class \in Class PROVE "what" \in Range(Layout[class])
  OBVIOUS
<1> DEFINE t == CASE class = "InjectedFault" -> <<>>
                  [] class = "RegisterInjectedFault" -> <<"tcontext", "regtype", "reg">>
                  [] class = "MemoryInjectedFault" -> <<"tcontext", "offset", "register">>
                  [] class = "RegisterDecodingInjectedFault" -> <<"tcontext", "regdec">>
                  [] OTHER -> <<"tcontext">>
<1>1. Layout[class] = Base \o t
  BY DEF Layout
<1> DEFINE S == {"when", "what", "thread", "where", "occ", "tcontext", "regtype", "reg", "offset",
                 "register", "regdec"}
<1>2. Base \in Seq(S)
  BY DEF Base
<1>3. Len(Base) = 5
  BY DEF Base
<1>4. Base[2] = "what"
  BY DEF Base
<1>5. t \in Seq(S)
  <2>1. <<>> \in Seq(S) /\ <<"tcontext">> \in Seq(S) /\ <<"tcontext", "regdec">> \in Seq(S)
    OBVIOUS
  <2>2. <<"tcontext", "regtype", "reg">> \in Seq(S)
    OBVIOUS
  <2>3. <<"tcontext", "offset", "register">> \in Seq(S)
    OBVIOUS
  <2> HIDE DEF S
  <2> QED BY <2>1, <2>2, <2>3, Zenon
<1> HIDE DEF t, S
<1>6. /\ (Base \o t)[2] = Base[2]
      /\ 2 \in DOMAIN (Base \o t)
  <2>1. 2 \in 1 .. Len(Base)
    BY <1>3
  <2> QED BY <1>2, <1>5, <2>1, FrontOfJoined, Zenon
<1> QED BY <1>1, <1>4, <1>6 DEF Range

\* A fault that is queued has passed the parser of what it does.
LEMMA QueuedFault ==
  ASSUME NEW class \in Class, NEW s, ~Asserts(Construct(class, s).got),
         NEW f \in Queued(class, Construct(class, s).got)
  PROVE  IsFault(f) /\ f.by = reads
<1> DEFINE got == Construct(class, s).got
<1>1. DOMAIN got = Range(Layout[class])
  BY DEF Construct
<1> HIDE DEF got
<1>2. "what" \in DOMAIN got \cap Parsed
  BY <1>1, WhatRead DEF Parsed
<1>3. got["what"] \in WhatWord
  BY <1>2 DEF Asserts, Accepts, got
<1>4. PICK n : f = [class |-> class, got |-> got, left |-> n, by |-> reads]
  BY DEF Queued, got
<1> QED BY <1>3, <1>4 DEF IsFault

LEMMA ListOfItsElements ==
  ASSUME NEW S, NEW s \in Seq(S)
  PROVE  s \in Seq(Range(s))
BY DEF Range

\* A fault is added to the queue.
LEMMA FaultQueued ==
  ASSUME NEW s, NEW n, FaultsOK(s, n), NEW f, IsFault(f), f.by = n
  PROVE  FaultsOK(Append(s, f), n)
<1> DEFINE S == Range(s) \cup {f}
           t == Append(s, f)
<1>1. s \in Seq(S) /\ f \in S
  BY DEF FaultsOK
<1> HIDE DEF S
<1>2. t \in Seq(S) /\ Len(t) = Len(s) + 1 /\ t[Len(s) + 1] = f
      /\ \A i \in 1 .. Len(s) : t[i] = s[i]
  BY <1>1
<1>3. DOMAIN t = 1 .. Len(s) + 1 /\ DOMAIN s = 1 .. Len(s) /\ Len(s) \in Nat
  BY <1>1, <1>2
<1> HIDE DEF t
<1>4. ASSUME NEW i \in DOMAIN t PROVE IsFault(t[i]) /\ t[i].by = n
  <2>1. i = Len(s) + 1 \/ i \in 1 .. Len(s)
    BY <1>3
  <2> QED BY <1>2, <1>3, <2>1 DEF FaultsOK
<1>5. FaultsOK(t, n)
  BY <1>2, <1>4, ListOfItsElements DEF FaultsOK
<1> QED BY <1>5 DEF t

\* A fault that has manifested for the last time leaves the queue.
LEMMA FaultRemoved ==
  ASSUME NEW s, NEW n, FaultsOK(s, n), NEW i \in DOMAIN s
  PROVE  FaultsOK(RemovedAt(s, i), n)
<1> DEFINE S == Range(s)
           t == RemovedAt(s, i)
<1>1. s \in Seq(S) /\ i \in 1 .. Len(s)
  BY DEF FaultsOK
<1>2. t \in Seq(S)
  BY <1>1 DEF RemovedAt
<1> HIDE DEF t
<1>3. ASSUME NEW j \in DOMAIN t PROVE IsFault(t[j]) /\ t[j].by = n
  <2>1. t[j] \in S
    BY <1>2
  <2>2. PICK k \in DOMAIN s : t[j] = s[k]
    BY <2>1 DEF Range
  <2> QED BY <2>2 DEF FaultsOK
<1>4. FaultsOK(t, n)
  BY <1>2, <1>3, ListOfItsElements DEF FaultsOK
<1> QED BY <1>4 DEF t

\* Or it stays, to manifest once less.
LEMMA FaultStays ==
  ASSUME NEW s, NEW n, FaultsOK(s, n), NEW i \in DOMAIN s
  PROVE  FaultsOK([s EXCEPT ![i].left = @ - 1], n)
<1> DEFINE f == s[i]
           g == [f EXCEPT !.left = f.left - 1]
           t == [s EXCEPT ![i] = g]
           S == Range(s) \cup {g}
<1>1. s \in Seq(S) /\ i \in 1 .. Len(s)
  BY DEF FaultsOK
<1>2. IsFault(g) /\ g.by = n
  BY DEF FaultsOK, IsFault
<1> HIDE DEF g
<1>3. t \in Seq(S) /\ DOMAIN t = DOMAIN s
  BY <1>1
<1>4. ASSUME NEW j \in DOMAIN s PROVE IsFault(t[j]) /\ t[j].by = n
  <2>1. t[j] = IF j = i THEN g ELSE s[j]
    BY <1>1
  <2> QED BY <1>2, <2>1 DEF FaultsOK
<1> HIDE DEF t
<1>5. FaultsOK(t, n)
  BY <1>3, <1>4, ListOfItsElements DEF FaultsOK
<1> QED BY <1>5 DEF t, g

-----------------------------------------------------------------------------
(* Processes.                                                              *)

LEMMA NoFaults == \A n : FaultsOK(<<>>, n)
BY DEF FaultsOK, Range

\* A process that has just been started.
LEMMA NewProcGood == GoodProc(NewProc) /\ NewProc.faults = <<>> /\ \A n : OwnMarks(NewProc, n)
<1>1. IsProc(NewProc)
  BY DEF IsProc, NewProc
<1>2. /\ NewProc.faults = <<>> /\ NewProc.inst = NoInst
      /\ NewProc.inits = 0 /\ NewProc.insts = 0 /\ NewProc.hits = 0
      /\ NewProc.instMap = [w \in MachInst |-> {}] /\ NewProc.scars = [w \in MachInst |-> {}]
      /\ NewProc.pages = [a \in Address |-> {}]
  BY DEF NewProc
<1>3. CacheOK([w \in MachInst |-> {}], [a \in Address |-> {}], [w \in MachInst |-> {}])
  BY DEF CacheOK, IsMap
<1> QED BY <1>1, <1>2, <1>3, BoundsAssumption DEF GoodProc, InstOK, FirstOK, OwnMarks

\* reset, in the process that executes init_fi_system or in a restored one.
LEMMA ResetGood ==
  ASSUME NEW p, GoodProc(p), p.inst = NoInst, p.inits < MaxInits, NEW q,
         q = [p EXCEPT !.faults = <<>>, !.inits = @ + 1, !.insts = 0, !.hits = 0]
  PROVE  GoodProc(q) /\ q.faults = <<>> /\ \A n : OwnMarks(q, n)
<1>1. IsProc(p) /\ p.inits \in 0 .. MaxInits
  BY DEF GoodProc
<1>2. q = [faults |-> <<>>, instMap |-> p.instMap, pages |-> p.pages, inst |-> p.inst,
           inits |-> p.inits + 1, insts |-> 0, hits |-> 0, scars |-> p.scars]
  BY <1>1, Zenon DEF IsProc
<1>3. IsProc(q)
  BY <1>2, Zenon DEF IsProc
<1>4. /\ q.faults = <<>> /\ q.inst = NoInst /\ q.instMap = p.instMap /\ q.pages = p.pages
      /\ q.scars = p.scars /\ q.inits = p.inits + 1 /\ q.insts = 0 /\ q.hits = 0
  BY <1>2
<1>5. q.inits \in 0 .. MaxInits /\ q.inits # 0 /\ (q.inits = 1 => p.inits = 0)
  BY <1>1, <1>4, BoundsAssumption
<1>6. q.inits = 1 => \A w \in MachInst : q.scars[w] = {}
  BY <1>4, <1>5 DEF GoodProc, FirstOK
<1> QED BY <1>3, <1>4, <1>5, <1>6, BoundsAssumption
        DEF GoodProc, InstOK, FirstOK, OwnMarks

\* The process that a fault has manifested in.
LEMMA RescheduleGood ==
  ASSUME NEW p, GoodProc(p), NEW n, FaultsOK(p.faults, n), OwnMarks(p, n),
         NEW i \in DOMAIN p.faults, p.hits < MaxHits, NEW q, q = check4reschedule(p, i)
  PROVE  GoodProc(q) /\ FaultsOK(q.faults, n) /\ OwnMarks(q, n)
<1> DEFINE s == IF p.faults[i].left = 1 THEN RemovedAt(p.faults, i)
                                        ELSE [p.faults EXCEPT ![i].left = @ - 1]
<1>1. IsProc(p) /\ p.hits \in 0 .. MaxHits
  BY DEF GoodProc
<1>2. FaultsOK(s, n)
  BY FaultRemoved, FaultStays
<1>3. q = [p EXCEPT !.faults = s, !.hits = @ + 1]
  BY Zenon DEF check4reschedule
<1> HIDE DEF s
<1>4. q = [faults |-> s, instMap |-> p.instMap, pages |-> p.pages, inst |-> p.inst,
           inits |-> p.inits, insts |-> p.insts, hits |-> p.hits + 1, scars |-> p.scars]
  BY <1>1, <1>3, Zenon DEF IsProc
<1>5. IsProc(q)
  BY <1>4 DEF IsProc
<1>6. /\ q.faults = s /\ q.inst = p.inst /\ q.instMap = p.instMap /\ q.pages = p.pages
      /\ q.scars = p.scars /\ q.inits = p.inits /\ q.insts = p.insts /\ q.hits = p.hits + 1
  BY <1>4
<1>7. q.hits \in 0 .. MaxHits
  BY <1>1, <1>6, BoundsAssumption
<1> QED BY <1>2, <1>5, <1>6, <1>7, Zenon DEF GoodProc, OwnMarks

-----------------------------------------------------------------------------
(* Reading, and the campaign.                                              *)

LEMMA StepInv ==
  ASSUME ExpInv, UNCHANGED <<check, image>>,
         pc' \in {"down", "read", "guest", "aborted"}, reads' \in 0 .. MaxReads,
         GoodProc(proc'), FaultsOK(proc'.faults, reads'), OwnMarks(proc', reads'),
         CorruptsAsNamed'
  PROVE  ExpInv'
BY Zenon DEF ExpInv, ImageOK

LEMMA NothingChanged == last' = NoChange => CorruptsAsNamed'
BY DEF CorruptsAsNamed, NoChange

LEMMA OpensInv ==
  ASSUME ExpInv, NEW p, Opens(p), UNCHANGED <<check, image>>,
         GoodProc(p), p.faults = <<>>, \A n : OwnMarks(p, n)
  PROVE  ExpInv'
<1>1. pc' = "read" /\ proc' = p /\ reads' = reads + 1 /\ last' = NoChange /\ reads < MaxReads
  BY DEF Opens
<1>2. reads' \in 0 .. MaxReads
  BY <1>1, BoundsAssumption DEF ExpInv
<1>3. FaultsOK(proc'.faults, reads')
  BY <1>1, NoFaults
<1> QED BY <1>1, <1>2, <1>3, NothingChanged, StepInv

LEMMA BootInv == ASSUME ExpInv, Boot PROVE ExpInv'
BY NewProcGood, OpensInv DEF Boot

LEMMA RestoreInv == ASSUME ExpInv, Restore PROVE ExpInv'
<1>1. /\ GoodProc(image.proc) /\ image.proc.inst = NoInst /\ image.proc.inits < MaxInits
      /\ reset(image.proc) /\ UNCHANGED <<check, image>>
  BY DEF Restore, ExpInv, ImageOK
<1>2. PICK q : q = [image.proc EXCEPT !.faults = <<>>, !.inits = @ + 1, !.insts = 0, !.hits = 0]
  OBVIOUS
<1>3. Opens(q)
  BY <1>1, <1>2, Zenon DEF reset
<1>4. GoodProc(q) /\ q.faults = <<>> /\ \A n : OwnMarks(q, n)
  BY <1>1, <1>2, ResetGood, Zenon
<1> QED BY <1>1, <1>3, <1>4, OpensInv, Zenon

LEMMA InitFiInv == ASSUME ExpInv, init_fi_system PROVE ExpInv'
<1>1. /\ GoodProc(proc) /\ proc.inst = NoInst /\ proc.inits < MaxInits /\ UNCHANGED check
  BY DEF init_fi_system, ExpInv
<1>2. CASE reset(proc) /\ UNCHANGED image
  <2>1. PICK q : q = [proc EXCEPT !.faults = <<>>, !.inits = @ + 1, !.insts = 0, !.hits = 0]
    OBVIOUS
  <2>2. Opens(q)
    BY <1>2, <2>1, Zenon DEF reset
  <2>3. GoodProc(q) /\ q.faults = <<>> /\ \A n : OwnMarks(q, n)
    BY <1>1, <2>1, ResetGood, Zenon
  <2> QED BY <1>1, <1>2, <2>2, <2>3, OpensInv, Zenon
<1>3. CASE /\ check /\ image' = [saved |-> TRUE, proc |-> proc] /\ pc' = "down"
           /\ proc' = NewProc /\ last' = NoChange /\ UNCHANGED <<input, reads>>
  <2>1. image'.proc = proc /\ image' = [saved |-> TRUE, proc |-> image'.proc]
    BY <1>3
  <2>2. ImageOK'
    BY <1>1, <1>3, <2>1, Zenon DEF ImageOK
  <2>3. FaultsOK(proc'.faults, reads')
    BY <1>3, NewProcGood, NoFaults, Zenon
  <2>4. pc' \in {"down", "read", "guest", "aborted"} /\ check' \in BOOLEAN /\ reads' \in 0 .. MaxReads
    BY <1>1, <1>3, Zenon DEF ExpInv
  <2> QED BY <1>3, <2>2, <2>3, <2>4, NewProcGood, NothingChanged, Zenon DEF ExpInv
<1> QED BY <1>2, <1>3, Zenon DEF init_fi_system

LEMMA StopInv == ASSUME ExpInv, Stop PROVE ExpInv'
<1>1. pc' = "down" /\ proc' = NewProc /\ last' = NoChange /\ UNCHANGED <<check, image, reads>>
  BY DEF Stop
<1>2. FaultsOK(proc'.faults, reads')
  BY <1>1, NewProcGood, NoFaults
<1>3. reads' \in 0 .. MaxReads
  BY <1>1 DEF ExpInv
<1> QED BY <1>1, <1>2, <1>3, NewProcGood, NothingChanged, StepInv

LEMMA EndReadInv == ASSUME ExpInv, EndRead PROVE ExpInv'
<1>1. pc' = "guest" /\ last' = NoChange /\ UNCHANGED <<check, proc, image, reads>>
  BY DEF EndRead
<1> QED BY <1>1, NothingChanged, StepInv DEF ExpInv

LEMMA ReadObjectInv == ASSUME ExpInv, ReadObject PROVE ExpInv'
<1>1. last' = NoChange /\ UNCHANGED <<check, image, reads>> /\ pc = "read"
  BY DEF ReadObject
<1>2. CASE pc' \in {pc, "aborted"} /\ UNCHANGED proc
  BY <1>1, <1>2, NothingChanged, StepInv DEF ExpInv
<1>3. ASSUME NEW class \in Class, NEW s, ~Asserts(Construct(class, s).got),
             NEW f \in Queued(class, Construct(class, s).got),
             proc' = [proc EXCEPT !.faults = Append(@, f)], UNCHANGED pc
      PROVE  ExpInv'
  <2>1. IsProc(proc) /\ FaultsOK(proc.faults, reads)
    BY DEF ExpInv, GoodProc
  <2>2. FaultsOK(Append(proc.faults, f), reads)
    BY <1>3, <2>1, QueuedFault, FaultQueued
  <2>3. PICK t : t = Append(proc.faults, f)
    BY Zenon
  <2>4. proc' = [faults |-> t, instMap |-> proc.instMap, pages |-> proc.pages,
                 inst |-> proc.inst, inits |-> proc.inits, insts |-> proc.insts,
                 hits |-> proc.hits, scars |-> proc.scars]
    BY <1>3, <2>1, <2>3, Zenon DEF IsProc
  <2>5. IsProc(proc')
    BY <2>4 DEF IsProc
  <2>6. /\ proc'.faults = t /\ proc'.instMap = proc.instMap /\ proc'.pages = proc.pages
        /\ proc'.inst = proc.inst /\ proc'.inits = proc.inits /\ proc'.insts = proc.insts
        /\ proc'.hits = proc.hits /\ proc'.scars = proc.scars
    BY <2>4
  <2>7. GoodProc(proc') /\ OwnMarks(proc', reads) /\ FaultsOK(proc'.faults, reads)
    BY <2>2, <2>3, <2>5, <2>6, Zenon DEF ExpInv, GoodProc, OwnMarks
  <2>8. pc' \in {"down", "read", "guest", "aborted"} /\ reads' \in 0 .. MaxReads
    BY <1>1, <1>3 DEF ExpInv
  <2> QED BY <1>1, <2>7, <2>8, NothingChanged, StepInv, Zenon
<1>4. \/ pc' \in {pc, "aborted"} /\ UNCHANGED proc
      \/ \E class \in Class : \E s :
           /\ ~Asserts(Construct(class, s).got) /\ UNCHANGED pc
           /\ \E f \in Queued(class, Construct(class, s).got) :
                proc' = [proc EXCEPT !.faults = Append(@, f)]
  BY Zenon DEF ReadObject
<1> QED BY <1>2, <1>3, <1>4, Zenon

-----------------------------------------------------------------------------
(* The instructions of the guest.                                          *)

\* The instruction under way becomes x.
LEMMA InstGood ==
  ASSUME NEW p, GoodProc(p), NEW x, InstOK(x, p.instMap), p.inits # 0 \/ x = NoInst,
         NEW q, q = [p EXCEPT !.inst = x]
  PROVE  /\ GoodProc(q) /\ q.faults = p.faults /\ q.hits = p.hits
         /\ \A n : OwnMarks(p, n) => OwnMarks(q, n)
<1>1. IsProc(p)
  BY DEF GoodProc
<1>2. q = [faults |-> p.faults, instMap |-> p.instMap, pages |-> p.pages, inst |-> x,
           inits |-> p.inits, insts |-> p.insts, hits |-> p.hits, scars |-> p.scars]
  BY <1>1 DEF IsProc
<1>3. IsProc(q)
  BY <1>2, Zenon DEF IsProc
<1>4. /\ q.faults = p.faults /\ q.instMap = p.instMap /\ q.pages = p.pages /\ q.inst = x
      /\ q.inits = p.inits /\ q.insts = p.insts /\ q.hits = p.hits /\ q.scars = p.scars
  BY <1>2
<1>5. FirstOK(q.inits, q.inst, q.scars)
  BY <1>4, Zenon DEF GoodProc, FirstOK
<1>6. GoodProc(q)
  BY <1>3, <1>4, <1>5, Zenon DEF GoodProc
<1>7. \A n : OwnMarks(p, n) => OwnMarks(q, n)
  BY <1>4, Zenon DEF OwnMarks
<1> QED BY <1>4, <1>6, <1>7

\* An instruction is under way in a process that has been initialised.
LEMMA UnderWay ==
  ASSUME NEW p, GoodProc(p), p.inst.stage \in {"main", "fetch", "decode", "iew"}
  PROVE  /\ p.inst \in Running /\ p.inst # NoInst /\ p.inits # 0 /\ InstOK(p.inst, p.instMap)
BY DEF GoodProc, InstOK, FirstOK, NoInst

LEMMA NoInstOK == \A m : InstOK(NoInst, m)
BY DEF InstOK

LEMMA MovesOn ==
  ASSUME NEW x \in Running, NEW m, InstOK(x, m), x # NoInst,
         NEW s \in {"fetch", "iew"}, s = "iew" => x.stage = "decode",
         NEW y, y = [x EXCEPT !.stage = s]
  PROVE  InstOK(y, m)
<1>1. y \in Running /\ y.a = x.a /\ y.w = x.w /\ y.si = x.si /\ y.hit = x.hit /\ y.stage = s
  BY DEF Running
<1> QED BY <1>1 DEF InstOK

\* A step that changes the process only.
LEMMA ProceedsInv ==
  ASSUME ExpInv, NEW q, Proceeds(q), GoodProc(q), FaultsOK(q.faults, reads), OwnMarks(q, reads),
         CorruptsAsNamed'
  PROVE  ExpInv'
<1>1. proc' = q /\ UNCHANGED <<pc, check, image, reads>>
  BY DEF Proceeds
<1>2. pc' \in {"down", "read", "guest", "aborted"} /\ reads' \in 0 .. MaxReads
  BY <1>1 DEF ExpInv
<1> QED BY <1>1, <1>2, StepInv

\* A step that changes the instruction under way only.
LEMMA InstStepInv ==
  ASSUME ExpInv, NEW x, Proceeds([proc EXCEPT !.inst = x]), last' = NoChange,
         InstOK(x, proc.instMap), proc.inits # 0 \/ x = NoInst
  PROVE  ExpInv'
<1>1. PICK q : q = [proc EXCEPT !.inst = x]
  OBVIOUS
<1>2. GoodProc(proc) /\ FaultsOK(proc.faults, reads) /\ OwnMarks(proc, reads)
  BY DEF ExpInv
<1>3. GoodProc(q) /\ q.faults = proc.faults /\ OwnMarks(q, reads)
  BY <1>1, <1>2, InstGood, Zenon
<1>4. FaultsOK(q.faults, reads) /\ Proceeds(q) /\ CorruptsAsNamed'
  BY <1>1, <1>2, <1>3, NothingChanged, Zenon
<1> QED BY <1>3, <1>4, ProceedsInv

LEMMA StageStepInv ==
  ASSUME ExpInv, last' = NoChange, NEW s \in {"fetch", "iew"},
         proc.inst.stage = (IF s = "fetch" THEN "main" ELSE "decode"),
         Proceeds([proc EXCEPT !.inst.stage = s])
  PROVE  ExpInv'
<1>1. GoodProc(proc)
  BY DEF ExpInv
<1>2. proc.inst \in Running /\ proc.inst # NoInst /\ proc.inits # 0 /\ InstOK(proc.inst, proc.instMap)
  BY <1>1, UnderWay
<1>3. PICK y : y = [proc.inst EXCEPT !.stage = s]
  BY Zenon
<1>4. s = "iew" => proc.inst.stage = "decode"
  OBVIOUS
<1>5. InstOK(y, proc.instMap)
  BY <1>2, <1>3, <1>4, MovesOn, Zenon
<1>6. Proceeds([proc EXCEPT !.inst = y])
  BY <1>3, Zenon
<1> QED BY <1>2, <1>5, <1>6, InstStepInv, Zenon

LEMMA RetireInv == ASSUME ExpInv, Retire PROVE ExpInv'
BY NoInstOK, InstStepInv DEF Retire

LEMMA StartInv == ASSUME ExpInv, NEW a \in Address, Start(a) PROVE ExpInv'
<1>1. /\ IsProc(proc) /\ GoodProc(proc) /\ FaultsOK(proc.faults, reads) /\ OwnMarks(proc, reads)
      /\ proc.inits > 0 /\ proc.insts < MaxInsts /\ proc.insts \in 0 .. MaxInsts
      /\ last' = NoChange
  BY DEF Start, ExpInv, GoodProc
<1> DEFINE x == [stage |-> "main", a |-> a, w |-> Program[a], si |-> {}, hit |-> FALSE]
<1>2. InstOK(x, proc.instMap)
  BY ProgramAssumption DEF InstOK, Running
<1>3. Proceeds([proc EXCEPT !.insts = @ + 1, !.inst = x])
  BY DEF Start
<1> HIDE DEF x
<1>4. PICK q : q = [proc EXCEPT !.insts = @ + 1, !.inst = x]
  OBVIOUS
<1>5. q = [faults |-> proc.faults, instMap |-> proc.instMap, pages |-> proc.pages, inst |-> x,
           inits |-> proc.inits, insts |-> proc.insts + 1, hits |-> proc.hits,
           scars |-> proc.scars]
  BY <1>1, <1>4, Zenon DEF IsProc
<1>6. IsProc(q)
  BY <1>5 DEF IsProc
<1>7. /\ q.faults = proc.faults /\ q.instMap = proc.instMap /\ q.pages = proc.pages
      /\ q.inst = x /\ q.inits = proc.inits /\ q.insts = proc.insts + 1
      /\ q.hits = proc.hits /\ q.scars = proc.scars
  BY <1>5
<1>8. q.insts \in 0 .. MaxInsts /\ q.inits # 0
  BY <1>1, <1>7, BoundsAssumption
<1>9. GoodProc(q) /\ OwnMarks(q, reads) /\ FaultsOK(q.faults, reads)
  BY <1>1, <1>2, <1>6, <1>7, <1>8, Zenon DEF GoodProc, FirstOK, OwnMarks
<1>10. Proceeds(q) /\ CorruptsAsNamed'
  BY <1>1, <1>3, <1>4, NothingChanged, Zenon
<1> QED BY <1>9, <1>10, ProceedsInv

-----------------------------------------------------------------------------
(* The decode cache.                                                       *)

\* instMap m and pages g become n and h: the instruction w at a is found, or decoded.
Enters(m, g, a, w, n, h) ==
  /\ IsMap(n) /\ \A v \in MachInst : v # w => n[v] = m[v]
  /\ m[w] # {} => n[w] = m[w]
  /\ m[w] = {} => n[w] = {decodeInst[w]}
  /\ h \in [Address -> SUBSET MachInst] /\ h[a] = {w}
  /\ \A b \in Address : b # a => h[b] = g[b]

LEMMA CachedOK ==
  ASSUME NEW m, NEW g, NEW r, CacheOK(m, g, r), NEW a \in Address, NEW w \in MachInst, NEW n, NEW h,
         Enters(m, g, a, w, n, h)
  PROVE  CacheOK(n, h, r) /\ n[w] # {}
<1> USE DEF Enters
<1>1. /\ g \in [Address -> SUBSET MachInst]
      /\ \A b \in Address : \A v \in g[b] : m[v] # {}
      /\ \A v \in MachInst : m[v] # {} /\ r[v] = {} => m[v] = {decodeInst[v]}
  BY DEF CacheOK
<1>2. n[w] # {} /\ \A v \in MachInst : m[v] # {} => n[v] # {}
  OBVIOUS
<1>3. ASSUME NEW b \in Address, NEW v \in h[b] PROVE n[v] # {}
  <2>1. v \in MachInst
    OBVIOUS
  <2> QED BY <1>1, <1>2, <2>1
<1>4. ASSUME NEW v \in MachInst, n[v] # {}, r[v] = {} PROVE n[v] = {decodeInst[v]}
  BY <1>1, <1>4
<1> QED BY <1>2, <1>3, <1>4 DEF CacheOK

LEMMA DecodeInv == ASSUME ExpInv, decode PROVE ExpInv'
<1>1. /\ IsProc(proc) /\ GoodProc(proc) /\ FaultsOK(proc.faults, reads) /\ OwnMarks(proc, reads)
      /\ CacheOK(proc.instMap, proc.pages, proc.scars)
      /\ proc.inst.stage = "fetch" /\ last' = NoChange
  BY DEF decode, ExpInv, GoodProc
<1>2. proc.inst \in Running /\ proc.inst # NoInst /\ proc.inits # 0 /\ InstOK(proc.inst, proc.instMap)
  BY <1>1, UnderWay
<1>3. PICK a \in Address, w \in MachInst : a = proc.inst.a /\ w = proc.inst.w
  BY <1>2 DEF Running
<1>4. PICK q : q = Cached(a, w)
  OBVIOUS
<1>5. Proceeds(q)
  BY <1>3, <1>4, Zenon DEF decode
<1>6. PICK n, h, x :
        /\ n = [proc.instMap EXCEPT ![w] = IF w \in proc.pages[a] \/ @ # {} THEN @ ELSE {decodeInst[w]}]
        /\ h = [proc.pages EXCEPT ![a] = {w}]
        /\ x = [proc.inst EXCEPT !.si = {w}, !.stage = "decode"]
  BY Zenon
<1>7. q = [faults |-> proc.faults, instMap |-> n, pages |-> h, inst |-> x, inits |-> proc.inits,
           insts |-> proc.insts, hits |-> proc.hits, scars |-> proc.scars]
  BY <1>1, <1>4, <1>6, Zenon DEF Cached, IsProc
<1>8. IsProc(q)
  BY <1>7 DEF IsProc
<1>9. /\ q.faults = proc.faults /\ q.instMap = n /\ q.pages = h /\ q.inst = x
      /\ q.inits = proc.inits /\ q.insts = proc.insts /\ q.hits = proc.hits
      /\ q.scars = proc.scars
  BY <1>7
<1>10. CacheOK(n, h, proc.scars) /\ n[w] # {}
  <2>1. PICK m, g, r : m = proc.instMap /\ g = proc.pages /\ r = proc.scars
    OBVIOUS
  <2>2. CacheOK(m, g, r)
    BY <1>1, <2>1
  <2>3. /\ m = [v \in MachInst |-> m[v]] /\ g \in [Address -> SUBSET MachInst]
        /\ w \in g[a] => m[w] # {}
    BY <2>2 DEF CacheOK, IsMap
  <2>4. n = [m EXCEPT ![w] = IF w \in g[a] \/ @ # {} THEN @ ELSE {decodeInst[w]}]
    BY <1>6, <2>1
  <2>5. /\ IsMap(n) /\ \A v \in MachInst : v # w => n[v] = m[v]
        /\ m[w] # {} => n[w] = m[w]
        /\ m[w] = {} => n[w] = {decodeInst[w]}
    BY <2>3, <2>4 DEF IsMap
  <2>6. h = [g EXCEPT ![a] = {w}]
    BY <1>6, <2>1
  <2>7. /\ h \in [Address -> SUBSET MachInst] /\ h[a] = {w}
        /\ \A b \in Address : b # a => h[b] = g[b]
    BY <2>3, <2>6
  <2>8. CacheOK(n, h, r) /\ n[w] # {}
    <3>1. Enters(m, g, a, w, n, h)
      BY <2>5, <2>7, Zenon DEF Enters
    <3> QED BY <2>2, <3>1, CachedOK, Zenon
  <2> QED BY <2>1, <2>8
<1>11. InstOK(x, n)
  <2>1. /\ x \in Running /\ x.si = {w} /\ x.w = w /\ x.a = proc.inst.a /\ x.hit = proc.inst.hit
    BY <1>2, <1>3, <1>6, Zenon DEF Running
  <2> QED BY <1>2, <1>3, <1>10, <2>1 DEF InstOK
<1>12. GoodProc(q) /\ OwnMarks(q, reads) /\ FaultsOK(q.faults, reads)
  BY <1>1, <1>2, <1>8, <1>9, <1>10, <1>11, Zenon DEF GoodProc, FirstOK, OwnMarks
<1> QED BY <1>1, <1>5, <1>12, NothingChanged, ProceedsInv

\* A decode fault of reading k changes the decoded instruction of w and leaves its mark.
Marks(m, r, w, k, n, t) ==
  (\E d : n = [m EXCEPT ![w] = {d}]) /\ t = [r EXCEPT ![w] = @ \cup {k}]

LEMMA MarkedOK ==
  ASSUME NEW m, NEW g, NEW r, CacheOK(m, g, r), NEW w \in MachInst, NEW k \in Nat, NEW n, NEW t,
         Marks(m, r, w, k, n, t)
  PROVE  /\ CacheOK(n, g, t) /\ \A v \in MachInst : m[v] # {} => n[v] # {}
         /\ \A v \in MachInst : t[v] \subseteq r[v] \cup {k}
<1>0. PICK d : n = [m EXCEPT ![w] = {d}]
  BY Zenon DEF Marks
<1>1. /\ IsMap(m) /\ g \in [Address -> SUBSET MachInst]
      /\ r \in [MachInst -> SUBSET Nat]
      /\ \A b \in Address : \A v \in g[b] : m[v] # {}
      /\ \A v \in MachInst : m[v] # {} /\ r[v] = {} => m[v] = {decodeInst[v]}
  BY DEF CacheOK
<1>2. /\ IsMap(n) /\ \A v \in MachInst : v # w => n[v] = m[v]
      /\ n[w] = {d}
  BY <1>0, <1>1, Zenon DEF IsMap
<1>3. /\ t \in [MachInst -> SUBSET Nat] /\ \A v \in MachInst : v # w => t[v] = r[v]
      /\ t[w] = r[w] \cup {k}
  BY <1>1 DEF Marks
<1>4. \A v \in MachInst : m[v] # {} => n[v] # {}
  BY <1>2
<1>5. ASSUME NEW b \in Address, NEW v \in g[b] PROVE n[v] # {}
  <2>1. v \in MachInst
    BY <1>1
  <2> QED BY <1>1, <1>4, <2>1
<1>6. ASSUME NEW v \in MachInst, n[v] # {}, t[v] = {} PROVE n[v] = {decodeInst[v]}
  <2>1. v # w
    BY <1>3, <1>6
  <2> QED BY <1>1, <1>2, <1>3, <1>6, <2>1
<1>7. \A v \in MachInst : t[v] \subseteq r[v] \cup {k}
  BY <1>3
<1> QED BY <1>1, <1>2, <1>3, <1>4, <1>5, <1>6, <1>7 DEF CacheOK

-----------------------------------------------------------------------------
(* The faults.                                                             *)

LEMMA FaultWhat ==
  ASSUME ExpInv, NEW i \in DOMAIN proc.faults
  PROVE  WhatOfFault(i) \in What
BY WordsAssumption, Zenon DEF ExpInv, FaultsOK, IsFault, WhatOfFault

LEMMA NamedChange ==
  ASSUME NEW c, NEW w, NEW in, NEW out, NEW what,
         last' = [made |-> TRUE, class |-> c, w |-> w, in |-> in, out |-> out, what |-> what],
         c # "OpCodeInjectedFault" /\ (w = Wide \/ what.type \in {"Flip", "All"}) =>
           out = Named(w, in, IF c = "MemoryInjectedFault" THEN Cast(what) ELSE what),
         c = "OpCodeInjectedFault" =>
           /\ OpCode(out) = Named(OpBits, OpCode(in), what)
           /\ \A k \in Bits(InstBits - OpBits) : k \in out <=> k \in in
  PROVE  CorruptsAsNamed'
<1>1. /\ last'.class = c /\ last'.w = w /\ last'.in = in /\ last'.out = out /\ last'.what = what
  OBVIOUS
<1> QED BY <1>1, Zenon DEF CorruptsAsNamed

\* A value of w bits, not of the opcode and not a byte, has been changed by manifest.
LEMMA ManifestChange ==
  ASSUME ExpInv, NEW i \in DOMAIN proc.faults, NEW w \in Nat, NEW in \in Value(w),
         proc.faults[i].class \notin {"OpCodeInjectedFault", "MemoryInjectedFault"},
         last' = Changed(i, w, in, manifest(w, in, WhatOfFault(i)))
  PROVE  CorruptsAsNamed'
<1>1. PICK what \in What : what = WhatOfFault(i)
  BY FaultWhat
<1>2. PICK c : c = proc.faults[i].class
  OBVIOUS
<1>3. PICK out : out = manifest(w, in, what)
  OBVIOUS
<1>4. w = Wide \/ what.type \in {"Flip", "All"} => out = Named(w, in, what)
  BY <1>3, ManifestNamed DEF What
<1>5. last' = [made |-> TRUE, class |-> c, w |-> w, in |-> in, out |-> out, what |-> what]
  BY <1>1, <1>2, <1>3, Zenon DEF Changed
<1>6. c # "OpCodeInjectedFault" /\ c # "MemoryInjectedFault"
  BY <1>2
<1> QED BY <1>4, <1>5, <1>6, NamedChange

LEMMA ByteChange ==
  ASSUME ExpInv, NEW i \in DOMAIN proc.faults, NEW in \in Value(ByteBits),
         proc.faults[i].class = "MemoryInjectedFault",
         last' = Changed(i, ByteBits, in, manifestByte(in, WhatOfFault(i)))
  PROVE  CorruptsAsNamed'
<1>1. PICK what \in What : what = WhatOfFault(i)
  BY FaultWhat
<1>2. PICK b : b = Cast(what)
  OBVIOUS
<1>3. PICK out : out = manifest(ByteBits, in, b)
  OBVIOUS
<1>4. b.type = what.type /\ b.n \in Int /\ what.type \in {"Immd", "Mask", "Flip", "All"}
  BY <1>2, CastType DEF What
<1>5. ByteBits = Wide \/ what.type \in {"Flip", "All"} => out = Named(ByteBits, in, b)
  BY <1>3, <1>4, ManifestNamed, WidthsAssumption
<1>6. last' = [made |-> TRUE, class |-> "MemoryInjectedFault", w |-> ByteBits, in |-> in,
               out |-> out, what |-> what]
  BY <1>1, <1>2, <1>3, Zenon DEF Changed, manifestByte
<1> QED BY <1>2, <1>5, <1>6, NamedChange

\* Fault i of the process p has manifested.
LEMMA HitInv ==
  ASSUME ExpInv, NEW p, NEW i \in DOMAIN p.faults, GoodProc(p), FaultsOK(p.faults, reads),
         OwnMarks(p, reads), p.hits < MaxHits, Proceeds(check4reschedule(p, i)), CorruptsAsNamed'
  PROVE  ExpInv'
<1>1. PICK q : q = check4reschedule(p, i)
  OBVIOUS
<1>2. GoodProc(q) /\ FaultsOK(q.faults, reads) /\ OwnMarks(q, reads)
  BY <1>1, RescheduleGood, Zenon
<1>3. Proceeds(q)
  BY <1>1
<1> QED BY <1>2, <1>3, ProceedsInv, Zenon

LEMMA PlainHitInv ==
  ASSUME ExpInv, NEW i \in DOMAIN proc.faults, proc.hits < MaxHits,
         Proceeds(check4reschedule(proc, i)), CorruptsAsNamed'
  PROVE  ExpInv'
<1>1. GoodProc(proc) /\ FaultsOK(proc.faults, reads) /\ OwnMarks(proc, reads)
  BY DEF ExpInv
<1> QED BY <1>1, HitInv, Zenon

LEMMA RegisterInv ==
  ASSUME ExpInv, NEW i \in DOMAIN proc.faults, ProcessRegister(i) PROVE ExpInv'
<1>1. PICK in \in Value(Wide) : last' = Changed(i, Wide, in, manifest(Wide, in, WhatOfFault(i)))
  BY DEF ProcessRegister
<1>2. /\ proc.hits < MaxHits /\ Proceeds(check4reschedule(proc, i))
      /\ proc.faults[i].class \notin {"OpCodeInjectedFault", "MemoryInjectedFault"}
  BY DEF ProcessRegister, Due
<1>3. CorruptsAsNamed'
  BY <1>1, <1>2, ManifestChange, WidthsAssumption
<1> QED BY <1>2, <1>3, PlainHitInv

LEMMA MemoryInv ==
  ASSUME ExpInv, NEW i \in DOMAIN proc.faults, ProcessMemory(i) PROVE ExpInv'
<1>1. /\ proc.hits < MaxHits /\ Proceeds(check4reschedule(proc, i))
      /\ proc.faults[i].class = "MemoryInjectedFault"
  BY DEF ProcessMemory, Due
<1>2. CorruptsAsNamed'
  BY <1>1, ByteChange, NothingChanged DEF ProcessMemory
<1> QED BY <1>1, <1>2, PlainHitInv

LEMMA IEWInv ==
  ASSUME ExpInv, NEW i \in DOMAIN proc.faults, ProcessIEW(i) PROVE ExpInv'
<1>1. /\ proc.hits < MaxHits /\ Proceeds(check4reschedule(proc, i))
      /\ proc.faults[i].class \notin {"OpCodeInjectedFault", "MemoryInjectedFault"}
  BY DEF ProcessIEW, Due
<1>2. CASE last' = NoChange
  BY <1>1, <1>2, NothingChanged, PlainHitInv
<1>3. ASSUME NEW w \in {InstBits, Wide}, NEW in \in Value(w),
             last' = Changed(i, w, in, manifest(w, in, WhatOfFault(i)))
      PROVE  ExpInv'
  <2>1. w \in Nat
    BY WidthsAssumption
  <2>2. CorruptsAsNamed'
    BY <1>1, <1>3, <2>1, ManifestChange
  <2> QED BY <1>1, <2>2, PlainHitInv
<1> QED BY <1>2, <1>3 DEF ProcessIEW

\* A fault of the fetch stage has changed the instruction to w.
LEMMA RefetchedInv ==
  ASSUME ExpInv, NEW i \in DOMAIN proc.faults, proc.hits < MaxHits, proc.inst.stage = "fetch",
         NEW w \in MachInst, Refetched(i, w), CorruptsAsNamed'
  PROVE  ExpInv'
<1>1. GoodProc(proc) /\ IsProc(proc) /\ FaultsOK(proc.faults, reads) /\ OwnMarks(proc, reads)
  BY DEF ExpInv, GoodProc
<1>2. proc.inst \in Running /\ proc.inits # 0
  BY <1>1, UnderWay
<1>3. PICK x : x = [proc.inst EXCEPT !.w = w, !.hit = TRUE]
  OBVIOUS
<1>4. x \in Running /\ x.hit /\ x.stage = "fetch"
  BY <1>2, <1>3, Zenon DEF Running
<1>5. InstOK(x, proc.instMap)
  BY <1>4 DEF InstOK
<1>6. PICK q : q = [proc EXCEPT !.inst = x]
  BY Zenon
<1>7. [proc EXCEPT !.inst.w = w, !.inst.hit = TRUE] = q
  BY <1>1, <1>3, <1>6, Zenon DEF IsProc
<1>8. GoodProc(q) /\ q.faults = proc.faults /\ q.hits = proc.hits /\ OwnMarks(q, reads)
  BY <1>1, <1>2, <1>5, <1>6, InstGood, Zenon
<1>9. Proceeds(check4reschedule(q, i))
  BY <1>7, Zenon DEF Refetched
<1>10. i \in DOMAIN q.faults /\ q.hits < MaxHits /\ FaultsOK(q.faults, reads)
  BY <1>1, <1>8
<1> QED BY <1>8, <1>9, <1>10, HitInv, Zenon

LEMMA FetchInv ==
  ASSUME ExpInv, NEW i \in DOMAIN proc.faults, ProcessFetch(i) PROVE ExpInv'
<1>1. /\ proc.hits < MaxHits /\ proc.inst.stage = "fetch"
      /\ proc.faults[i].class \notin {"OpCodeInjectedFault", "MemoryInjectedFault"}
  BY DEF ProcessFetch, Due
<1>2. PICK in \in MachInst : in = proc.inst.w
  BY <1>1, UnderWay DEF ExpInv, Running
<1>3. PICK w : w = manifest(InstBits, in, WhatOfFault(i))
  OBVIOUS
<1>4. w \in MachInst
  BY <1>3, FaultWhat, ManifestType, WidthsAssumption DEF What, MachInst
<1>5. Refetched(i, w)
  BY <1>2, <1>3, Zenon DEF ProcessFetch
<1>6. last' = Changed(i, InstBits, in, manifest(InstBits, in, WhatOfFault(i)))
  BY <1>2, <1>3, <1>5, Zenon DEF Refetched
<1>7. in \in Value(InstBits) /\ InstBits \in Nat
  BY WidthsAssumption DEF MachInst
<1>8. CorruptsAsNamed'
  BY <1>1, <1>6, <1>7, ManifestChange
<1> QED BY <1>1, <1>4, <1>5, <1>8, RefetchedInv

LEMMA OpCodeInv ==
  ASSUME ExpInv, NEW i \in DOMAIN proc.faults, ProcessOpCode(i) PROVE ExpInv'
<1>1. /\ proc.hits < MaxHits /\ proc.inst.stage = "fetch"
      /\ proc.faults[i].class = "OpCodeInjectedFault"
  BY DEF ProcessOpCode, Due
<1>2. CASE WhatOfFault(i).type \in {"Immd", "Mask"}
  <2>1. PICK in \in MachInst : in = proc.inst.w
    BY <1>1, UnderWay DEF ExpInv, Running
  <2>2. PICK what \in What : what = WhatOfFault(i)
    BY FaultWhat
  <2>3. PICK w : w = manifestOpCode(in, what)
    OBVIOUS
  <2>4. /\ w \in MachInst
        /\ OpCode(w) = Named(OpBits, OpCode(in), what)
        /\ \A k \in Bits(InstBits - OpBits) : k \in w <=> k \in in
    BY <1>2, <2>2, <2>3, OpCodeNamed
  <2>5. Refetched(i, w)
    BY <1>2, <2>1, <2>2, <2>3, Zenon DEF ProcessOpCode
  <2>6. last' = [made |-> TRUE, class |-> "OpCodeInjectedFault", w |-> InstBits, in |-> in,
                 out |-> w, what |-> what]
    BY <1>1, <2>1, <2>2, <2>5, Zenon DEF Refetched, Changed
  <2>7. CorruptsAsNamed'
    BY <2>4, <2>6, NamedChange
  <2> QED BY <1>1, <2>4, <2>5, <2>7, RefetchedInv
<1>3. CASE WhatOfFault(i).type \notin {"Immd", "Mask"}
  <2>1. pc' = "aborted" /\ last' = NoChange /\ UNCHANGED <<check, proc, image, reads>>
    BY <1>3 DEF ProcessOpCode
  <2>2. /\ GoodProc(proc') /\ FaultsOK(proc'.faults, reads') /\ OwnMarks(proc', reads')
        /\ reads' \in 0 .. MaxReads
    BY <2>1 DEF ExpInv
  <2> QED BY <2>1, <2>2, NothingChanged, StepInv
<1> QED BY <1>2, <1>3

\* q is the process p with the mark of reading k on its instruction w.
MarksProc(p, w, k, q) ==
  \E n, t : Marks(p.instMap, p.scars, w, k, n, t) /\ q = [p EXCEPT !.instMap = n, !.scars = t]

LEMMA MarkGood ==
  ASSUME NEW p, GoodProc(p), NEW k \in Nat, OwnMarks(p, k), p.inits # 0, NEW w \in MachInst,
         NEW q, MarksProc(p, w, k, q)
  PROVE  GoodProc(q) /\ OwnMarks(q, k) /\ q.faults = p.faults /\ q.hits = p.hits
<1>0. PICK n, t : Marks(p.instMap, p.scars, w, k, n, t) /\ q = [p EXCEPT !.instMap = n, !.scars = t]
  BY Zenon DEF MarksProc
<1>1. IsProc(p) /\ CacheOK(p.instMap, p.pages, p.scars) /\ InstOK(p.inst, p.instMap)
  BY DEF GoodProc
<1>2. q = [faults |-> p.faults, instMap |-> n, pages |-> p.pages, inst |-> p.inst,
           inits |-> p.inits, insts |-> p.insts, hits |-> p.hits, scars |-> t]
  BY <1>0, <1>1, Zenon DEF IsProc
<1>3. IsProc(q)
  BY <1>2 DEF IsProc
<1>4. /\ q.faults = p.faults /\ q.instMap = n /\ q.pages = p.pages /\ q.inst = p.inst
      /\ q.inits = p.inits /\ q.insts = p.insts /\ q.hits = p.hits /\ q.scars = t
  BY <1>2
<1>5. /\ CacheOK(n, p.pages, t) /\ \A v \in MachInst : p.instMap[v] # {} => n[v] # {}
      /\ \A v \in MachInst : t[v] \subseteq p.scars[v] \cup {k}
  BY <1>0, <1>1, MarkedOK
<1>6. InstOK(p.inst, n)
  BY <1>1, <1>5 DEF InstOK, Running
<1>7. FirstOK(p.inits, p.inst, t)
  BY DEF FirstOK
<1>8. GoodProc(q)
  BY <1>3, <1>4, <1>5, <1>6, <1>7 DEF GoodProc
<1>9. OwnMarks(q, k)
  BY <1>4, <1>5 DEF OwnMarks
<1> QED BY <1>4, <1>8, <1>9

LEMMA RegDecInv ==
  ASSUME ExpInv, NEW i \in DOMAIN proc.faults, ProcessRegDec(i) PROVE ExpInv'
<1>0. proc.hits < MaxHits /\ proc.inst.stage = "decode" /\ last' = NoChange
  BY Zenon DEF ProcessRegDec, Due
<1>1. /\ GoodProc(proc) /\ IsProc(proc) /\ FaultsOK(proc.faults, reads) /\ OwnMarks(proc, reads)
      /\ proc.faults[i].by = reads /\ reads \in Nat
  BY BoundsAssumption DEF ExpInv, GoodProc, FaultsOK
<1>2. proc.inst \in Running /\ proc.inits # 0 /\ InstOK(proc.inst, proc.instMap) /\ proc.inst # NoInst
  BY <1>0, <1>1, UnderWay
<1>3. PICK w \in MachInst : proc.inst.si = {w}
  BY <1>0, <1>2 DEF InstOK, Running
<1>4. (CHOOSE v \in proc.inst.si : TRUE) = w
  BY <1>3
<1>5. PICK c, d :
        /\ Proceeds(check4reschedule(
             IF c THEN [proc EXCEPT !.instMap[w] = {d}, !.scars[w] = @ \cup {proc.faults[i].by}]
                  ELSE proc, i))
  BY <1>4, Zenon DEF ProcessRegDec
<1>6. PICK n, t : n = [proc.instMap EXCEPT ![w] = {d}] /\ t = [proc.scars EXCEPT ![w] = @ \cup {reads}]
  BY Zenon
<1>7. PICK q : q = [proc EXCEPT !.instMap = n, !.scars = t]
  OBVIOUS
<1>8. [proc EXCEPT !.instMap[w] = {d}, !.scars[w] = @ \cup {proc.faults[i].by}] = q
  BY <1>1, <1>6, <1>7 DEF IsProc
<1>9. MarksProc(proc, w, reads, q)
  BY <1>6, <1>7, Zenon DEF Marks, MarksProc
<1>10. GoodProc(q) /\ OwnMarks(q, reads) /\ q.faults = proc.faults /\ q.hits = proc.hits
  BY <1>1, <1>2, <1>9, MarkGood
<1>11. CorruptsAsNamed'
  BY <1>0, NothingChanged
<1>12. CASE c
  <2>1. Proceeds(check4reschedule(q, i))
    BY <1>5, <1>8, <1>12, Zenon
  <2>2. i \in DOMAIN q.faults /\ q.hits < MaxHits /\ FaultsOK(q.faults, reads)
    BY <1>0, <1>1, <1>10
  <2> QED BY <1>10, <1>11, <2>1, <2>2, HitInv, Zenon
<1>13. CASE ~c
  <2>1. Proceeds(check4reschedule(proc, i))
    BY <1>5, <1>13, Zenon
  <2> QED BY <1>0, <1>11, <2>1, PlainHitInv
<1> QED BY <1>12, <1>13

LEMMA ProcessFaultInv == ASSUME ExpInv, ProcessFault PROVE ExpInv'
BY RegisterInv, MemoryInv, FetchInv, OpCodeInv, RegDecInv, IEWInv, Zenon DEF ProcessFault

-----------------------------------------------------------------------------
(* The theorems.                                                           *)

LEMMA ExpInitInv == ExpInit => ExpInv
<1> SUFFICES ASSUME ExpInit PROVE ExpInv
  OBVIOUS
<1>1. /\ pc = "down" /\ check \in BOOLEAN /\ proc = NewProc /\ image = NoImage /\ reads = 0
      /\ last = NoChange
  BY DEF ExpInit
<1>2. ImageOK /\ CorruptsAsNamed
  BY <1>1 DEF ImageOK, CorruptsAsNamed, NoImage, NoChange
<1>3. GoodProc(proc) /\ FaultsOK(proc.faults, reads) /\ OwnMarks(proc, reads)
  BY <1>1, NewProcGood, NoFaults
<1> QED BY <1>1, <1>2, <1>3, BoundsAssumption DEF ExpInv

LEMMA ExpNextInv == ExpInv /\ [ExpNext]_xvars => ExpInv'
<1> SUFFICES ASSUME ExpInv, [ExpNext]_xvars PROVE ExpInv'
  OBVIOUS
<1>1. CASE Boot
  BY <1>1, BootInv
<1>2. CASE ReadObject
  BY <1>2, ReadObjectInv
<1>3. CASE EndRead
  BY <1>3, EndReadInv
<1>4. CASE init_fi_system
  BY <1>4, InitFiInv
<1>5. CASE Restore
  BY <1>5, RestoreInv
<1>6. CASE Stop
  BY <1>6, StopInv
<1>7. ASSUME NEW a \in Address, Start(a) PROVE ExpInv'
  BY <1>7, StartInv
<1>8. CASE FetchInst
  BY <1>8, StageStepInv DEF FetchInst
<1>9. CASE decode
  BY <1>9, DecodeInv
<1>10. CASE Execute
  BY <1>10, StageStepInv DEF Execute
<1>11. CASE Retire
  BY <1>11, RetireInv
<1>12. CASE ProcessFault
  BY <1>12, ProcessFaultInv
<1>13. CASE UNCHANGED xvars
  <2>1. /\ pc' = pc /\ check' = check /\ proc' = proc /\ image' = image /\ reads' = reads
        /\ last' = last
    BY <1>13 DEF xvars
  <2> QED BY <2>1, Zenon DEF ExpInv, ImageOK, CorruptsAsNamed
<1> QED BY <1>1, <1>2, <1>3, <1>4, <1>5, <1>6, <1>7, <1>8, <1>9, <1>10, <1>11, <1>12, <1>13, Zenon
        DEF ExpNext

\* The inductive invariant holds in every campaign.
THEOREM CampaignInvariant == ExpSpec => []ExpInv
BY ExpInitInv, ExpNextInv, PTL DEF ExpSpec

LEMMA InvTypes == ExpInv => ExpTypeOK
<1> SUFFICES ASSUME ExpInv PROVE ExpTypeOK
  OBVIOUS
<1>1. /\ GoodProc(proc) /\ CacheOK(proc.instMap, proc.pages, proc.scars)
      /\ proc.inits \in 0 .. MaxInits /\ proc.insts \in 0 .. MaxInsts /\ proc.hits \in 0 .. MaxHits
  BY DEF ExpInv, GoodProc
<1>2. proc.inst.stage \in {"decode", "iew"} => \E w \in proc.inst.si : proc.instMap[w] # {}
  BY <1>1, UnderWay DEF InstOK
<1>3. \A a \in Address : \A w \in proc.pages[a] : proc.instMap[w] # {}
  BY <1>1 DEF CacheOK
<1>4. image.saved => check /\ image.proc.inst = NoInst
  BY DEF ExpInv, ImageOK
<1> QED BY <1>1, <1>2, <1>3, <1>4 DEF ExpInv, ExpTypeOK

LEMMA InvProvenance == ExpInv => Provenance
<1> SUFFICES ASSUME ExpInv, proc.inst.stage \in {"decode", "iew"} PROVE Provenance
  BY DEF Provenance
<1>1. GoodProc(proc) /\ CacheOK(proc.instMap, proc.pages, proc.scars)
  BY DEF ExpInv, GoodProc
<1>2. proc.inst \in Running /\ proc.inst # NoInst /\ InstOK(proc.inst, proc.instMap)
  BY <1>1, UnderWay
<1>3. PICK w \in MachInst : w = proc.inst.w
  BY <1>2 DEF Running
<1>4. /\ proc.inst.si = {w} /\ proc.instMap[w] # {}
      /\ ~proc.inst.hit => w = Program[proc.inst.a]
  BY <1>2, <1>3 DEF InstOK
<1>5. proc.scars[w] = {} => proc.instMap[w] = {decodeInst[w]}
  BY <1>1, <1>4 DEF CacheOK
<1> QED BY <1>3, <1>4, <1>5, Zenon DEF Provenance

\* Type correctness, with the two facts that make the decode cache safe to use: a page
\* names only decoded instructions, and so does an instruction that is past decode.
THEOREM CampaignTypes == ExpSpec => []ExpTypeOK
BY CampaignInvariant, InvTypes, PTL

\* The decode cache, which no reset empties and a restored checkpoint brings back, gives
\* the program's instruction decoded whenever no fault has touched the instruction or
\* its cached decoding.
THEOREM CacheGivesProgram == ExpSpec => []Provenance
BY CampaignInvariant, InvProvenance, PTL

\* An experiment runs with the faults of its own file, and bears the marks of no other
\* one, when the process was initialised once, from boot or from the checkpoint.
THEOREM ExperimentsIsolated == ExpSpec => []Isolated
<1>1. ExpInv => Isolated
  BY DEF ExpInv, FaultsOK, OwnMarks, Isolated
<1> QED BY <1>1, CampaignInvariant, PTL

\* What a manifested fault does to a value of any width is what its type names, for the
\* cases in which the code keeps to the names.
THEOREM ChangesAsNamed == ExpSpec => []CorruptsAsNamed
<1>1. ExpInv => CorruptsAsNamed
  BY DEF ExpInv
<1> QED BY <1>1, CampaignInvariant, PTL
=============================================================================
