----------------------------- MODULE Experiment -----------------------------
(***************************************************************************)
(* A fault injection campaign.  The simulator boots a guest and reads the  *)
(* fault file; when the guest executes init_fi_system                      *)
(* (src/sim/pseudo_inst.cc) the process may be checkpointed by DMTCP and   *)
(* exit, and every experiment is that checkpoint restored, with the fault  *)
(* file read once more.  After that the guest's instructions run through   *)
(* the four hooks, where the faults change registers, memory, instructions *)
(* and decoded instructions.                                               *)
(*                                                                         *)
(* When a fault is due is the subject of FaultInjector; here a queued      *)
(* fault may manifest whenever the hook of its stage is called.  The guest *)
(* activates fault injection only after init_fi_system, as it should.      *)
(***************************************************************************)
EXTENDS FaultFile, Corruption

CONSTANTS
  Files,       \* the fault files of the campaign, or NoFile
  IntOf,       \* IntWord -> the int it reads as
  WhatOf,      \* WhatWord -> the change it describes
  RegDecOf,    \* RegDecWord -> source or destination, which one, the new register
  Address,     \* addresses of the guest's instructions
  Program,     \* address -> machine instruction
  decodeInst,  \* machine instruction -> its source and destination registers
  MaxReads,    \* bound: how often a fault file is read
  MaxInits,    \* bound: init_fi_system per boot
  MaxInsts,    \* bound: instructions after each init_fi_system
  MaxHits      \* bound: manifestations after each init_fi_system

MachInst == Value(InstBits)

ASSUME WordsAssumption ==
  /\ WhatOf \in [WhatWord -> What] /\ DOMAIN IntOf = IntWord /\ "0" \in IntWord
ASSUME BoundsAssumption ==
  MaxReads \in Nat /\ MaxInits \in Nat /\ MaxInsts \in Nat /\ MaxHits \in Nat
ASSUME ProgramAssumption == Program \in [Address -> MachInst] /\ DOMAIN decodeInst = MachInst

VARIABLES
  pc,      \* where the process is: "down", "read", "guest" or "aborted"
  check,   \* check_before_init, a parameter of the campaign
  input,   \* the stream, and the word "check" of getFromFile
  proc,    \* the state of the process that a checkpoint saves
  image,   \* the checkpoint
  reads,   \* how many times a file has been opened
  last     \* history: the change the last step has made to a value

xvars == <<pc, check, input, proc, image, reads, last>>

NoInst == [stage |-> "none"]
NoImage == [saved |-> FALSE]
NoChange == [made |-> FALSE]

\* instMap and decodePages hold a decoded instruction, or the word of one, or nothing.
\* scars is a history: the readings whose faults have changed the decoded instruction.
NewProc ==
  [faults |-> <<>>, instMap |-> [w \in MachInst |-> {}], pages |-> [a \in Address |-> {}],
   inst |-> NoInst, inits |-> 0, insts |-> 0, hits |-> 0, scars |-> [w \in MachInst |-> {}]]

ExpInit ==
  /\ pc = "down"
  /\ check \in BOOLEAN
  /\ input = [s |-> open(NoFile), check |-> Empty]
  /\ proc = NewProc
  /\ image = NoImage
  /\ reads = 0
  /\ last = NoChange

-----------------------------------------------------------------------------
(* Reading the file, from the constructor of Fi_System and from reset.     *)

\* The process p starts to read the file, which the campaign may have replaced by
\* another one at any time since it was last read.
Opens(p) ==
  /\ reads < MaxReads
  /\ proc' = p
  /\ \E f \in Files : input' = [s |-> open(f), check |-> Empty]
  /\ reads' = reads + 1
  /\ pc' = "read"
  /\ last' = NoChange

\* A process is started: the constructor of Fi_System.
Boot ==
  /\ pc = "down"
  /\ Opens(NewProc)
  /\ UNCHANGED <<check, image>>

\* Mutant: the queues are not emptied.
resetKeepsFaults(p) == Opens([p EXCEPT !.inits = @ + 1, !.insts = 0, !.hits = 0])

\* reset: the queues are emptied and the file is read again.
reset(p) == Opens([p EXCEPT !.faults = <<>>, !.inits = @ + 1, !.insts = 0, !.hits = 0])

\* Mutant: only the end of the file ends the loop.
NotAtEnd(s) == ~s.eof

\* The condition of the loop.
Continues(s) == good(s)

\* The fault that a constructor has queued; an occurrence that was not read is any int:
\* 1, or one that is not.
Queued(class, got) ==
  {[class |-> class, got |-> got, left |-> n, by |-> reads] :
     n \in IF got.occ = Garbage THEN {0, 1} ELSE {IntOf[got.occ]}}

\* Mutant: "check" is a new string in each round.
FreshWord(r) == r.w

\* "check" after the read: where there is no word left it still holds the last one.
CheckWord(r) == IF r.w = Empty THEN input.check ELSE r.w

\* One round of the loop: a word is read, and if it is the name of a class an object
\* is constructed.
ReadObject ==
  /\ pc = "read" /\ Continues(input.s)
  /\ \E r \in {ReadWord(input.s)} :
       LET class == CheckWord(r)
       IN \/ /\ class \notin Class
             /\ input' = [s |-> r.s, check |-> class]
             /\ UNCHANGED <<pc, proc>>
          \/ /\ class \in Class
             /\ \E c \in {Construct(class, r.s)} :
                  /\ input' = [s |-> c.s, check |-> class]
                  /\ \/ Asserts(c.got) /\ pc' = "aborted" /\ UNCHANGED proc
                     \/ ~Asserts(c.got) /\ class \in Plain /\ UNCHANGED <<pc, proc>>
                     \/ /\ ~Asserts(c.got) /\ class \notin Plain
                        /\ \E f \in Queued(class, c.got) :
                             proc' = [proc EXCEPT !.faults = Append(@, f)]
                        /\ UNCHANGED pc
  /\ last' = NoChange
  /\ UNCHANGED <<check, image, reads>>

EndRead ==
  /\ pc = "read" /\ ~Continues(input.s)
  /\ pc' = "guest"
  /\ input' = [s |-> open(NoFile), check |-> Empty]
  /\ last' = NoChange
  /\ UNCHANGED <<check, proc, image, reads>>

-----------------------------------------------------------------------------
(* The campaign.                                                           *)

\* The guest executes init_fi_system: dmtcpCheckpoint has created a checkpoint and the
\* process exits, or it is not asked for or has failed and the injector is reset.
init_fi_system ==
  /\ pc = "guest" /\ proc.inst = NoInst /\ proc.inits < MaxInits
  /\ \/ /\ check
        /\ image' = [saved |-> TRUE, proc |-> proc]
        /\ pc' = "down"
        /\ proc' = NewProc
        /\ last' = NoChange
        /\ UNCHANGED <<input, reads>>
     \/ reset(proc) /\ UNCHANGED image
  /\ UNCHANGED check

\* Mutant: a restored process goes on with the faults it was saved with.
RestoreAsSaved ==
  /\ pc = "down" /\ image.saved
  /\ pc' = "guest"
  /\ proc' = [image.proc EXCEPT !.inits = @ + 1]
  /\ last' = NoChange
  /\ UNCHANGED <<check, input, image, reads>>

\* An experiment: dmtcpCheckpoint returns a second time, in the restored process.
Restore ==
  /\ pc = "down" /\ image.saved
  /\ reset(image.proc)
  /\ UNCHANGED <<check, image>>

\* The process ends, or is killed.
Stop ==
  /\ pc # "down"
  /\ pc' = "down"
  /\ proc' = NewProc
  /\ input' = [s |-> open(NoFile), check |-> Empty]
  /\ last' = NoChange
  /\ UNCHANGED <<check, image, reads>>

-----------------------------------------------------------------------------
(* An instruction of the guest: main_fault, fetch_fault, decode,           *)
(* decode_fault and iew_fault, in this order.                              *)

\* The instruction that goes on, everything else left alone.
Proceeds(p) ==
  /\ proc' = p
  /\ UNCHANGED <<pc, check, input, image, reads>>

Start(a) ==
  /\ pc = "guest" /\ proc.inst = NoInst
  /\ proc.inits > 0 /\ proc.insts < MaxInsts
  /\ Proceeds([proc EXCEPT !.insts = @ + 1,
                           !.inst = [stage |-> "main", a |-> a, w |-> Program[a], si |-> {},
                                     hit |-> FALSE]])
  /\ last' = NoChange

FetchInst ==
  /\ pc = "guest" /\ proc.inst.stage = "main"
  /\ Proceeds([proc EXCEPT !.inst.stage = "fetch"])
  /\ last' = NoChange

\* Mutant: a page entry is used whatever instruction it was made for.
CachedByAddress(a, w) ==
  LET si == IF proc.pages[a] # {} THEN CHOOSE v \in proc.pages[a] : TRUE ELSE w
  IN [proc EXCEPT !.pages[a] = {si}, !.inst.si = {si}, !.inst.stage = "decode",
                  !.instMap[si] = IF @ = {} THEN {decodeInst[si]} ELSE @]

\* Mutant: a new decoded instruction is not put into instMap.
CachedInPage(a, w) ==
  [proc EXCEPT !.inst.si = {w}, !.inst.stage = "decode", !.pages[a] = {w}]

\* BasicDecodeCache: the page entry of the address if it is for this instruction, else
\* the entry of the instruction in instMap, else a new one.  Both name the one object
\* that instMap keeps for the instruction.
Cached(a, w) ==
  [proc EXCEPT !.inst.si = {w},
               !.inst.stage = "decode",
               !.pages[a] = {w},
               !.instMap[w] = IF w \in proc.pages[a] \/ @ # {} THEN @ ELSE {decodeInst[w]}]

decode ==
  /\ pc = "guest" /\ proc.inst.stage = "fetch"
  /\ Proceeds(Cached(proc.inst.a, proc.inst.w))
  /\ last' = NoChange

Execute ==
  /\ pc = "guest" /\ proc.inst.stage = "decode"
  /\ Proceeds([proc EXCEPT !.inst.stage = "iew"])
  /\ last' = NoChange

Retire ==
  /\ pc = "guest" /\ proc.inst.stage = "iew"
  /\ Proceeds([proc EXCEPT !.inst = NoInst])
  /\ last' = NoChange

-----------------------------------------------------------------------------
(* The process functions of the faults.                                    *)

\* The process after fault i has manifested once: it goes, or stays for its next time.
check4reschedule(p, i) ==
  LET n == p.faults[i].left
  IN [p EXCEPT !.faults = IF n = 1 THEN RemovedAt(@, i) ELSE [@ EXCEPT ![i].left = n - 1],
               !.hits = @ + 1]

\* Fault i is in the queue of the hook that is called.
Due(i, stage, classes) ==
  /\ pc = "guest" /\ proc.inst.stage = stage
  /\ proc.hits < MaxHits
  /\ i \in DOMAIN proc.faults /\ proc.faults[i].class \in classes

WhatOfFault(i) == WhatOf[proc.faults[i].got.what]

Changed(i, w, in, out) ==
  [made |-> TRUE, class |-> proc.faults[i].class, w |-> w, in |-> in, out |-> out,
   what |-> WhatOfFault(i)]

\* A register or the PC.
ProcessRegister(i) ==
  /\ Due(i, "main", {"RegisterInjectedFault", "PCInjectedFault"})
  /\ Proceeds(check4reschedule(proc, i))
  /\ \E in \in Value(Wide) : last' = Changed(i, Wide, in, manifest(Wide, in, WhatOfFault(i)))

\* A byte of memory, if the address is one of the physical memory.
ProcessMemory(i) ==
  /\ Due(i, "main", {"MemoryInjectedFault"})
  /\ Proceeds(check4reschedule(proc, i))
  /\ \/ \E in \in Value(ByteBits) :
          last' = Changed(i, ByteBits, in, manifestByte(in, WhatOfFault(i)))
     \/ last' = NoChange

\* The instruction becomes w.
Refetched(i, w) ==
  /\ Proceeds(check4reschedule([proc EXCEPT !.inst.w = w, !.inst.hit = TRUE], i))
  /\ last' = Changed(i, InstBits, proc.inst.w, w)

ProcessFetch(i) ==
  /\ Due(i, "fetch", {"GeneralFetchInjectedFault"})
  /\ Refetched(i, manifest(InstBits, proc.inst.w, WhatOfFault(i)))

\* Of the opcode; a Flip or an All ends in assert(0).
ProcessOpCode(i) ==
  /\ Due(i, "fetch", {"OpCodeInjectedFault"})
  /\ IF WhatOfFault(i).type \in {"Immd", "Mask"}
       THEN Refetched(i, manifestOpCode(proc.inst.w, WhatOfFault(i)))
       ELSE /\ pc' = "aborted"
            /\ last' = NoChange
            /\ UNCHANGED <<check, input, proc, image, reads>>

\* A source or destination register of the decoded instruction, if it has that many.
ProcessRegDec(i) ==
  /\ Due(i, "decode", {"RegisterDecodingInjectedFault"})
  /\ LET r == RegDecOf[proc.faults[i].got.regdec]
         w == CHOOSE v \in proc.inst.si : TRUE
         si == CHOOSE d \in proc.instMap[w] : TRUE
     IN Proceeds(check4reschedule(
          IF r.reg < Len(si[r.side])
            THEN [proc EXCEPT !.instMap[w] = {[si EXCEPT ![r.side][r.reg + 1] = r.to]},
                              !.scars[w] = @ \cup {proc.faults[i].by}]
            ELSE proc, i))
  /\ last' = NoChange

\* A value of the execution, of 32 or 64 bits, or the condition of a branch, which is
\* negated whatever the fault says.
ProcessIEW(i) ==
  /\ Due(i, "iew", {"IEWStageInjectedFault"})
  /\ Proceeds(check4reschedule(proc, i))
  /\ \/ \E w \in {InstBits, Wide} : \E in \in Value(w) :
          last' = Changed(i, w, in, manifest(w, in, WhatOfFault(i)))
     \/ last' = NoChange

ProcessFault ==
  \E i \in DOMAIN proc.faults :
    \/ ProcessRegister(i) \/ ProcessMemory(i)
    \/ ProcessFetch(i) \/ ProcessOpCode(i)
    \/ ProcessRegDec(i) \/ ProcessIEW(i)

-----------------------------------------------------------------------------

ExpNext ==
  \/ Boot \/ ReadObject \/ EndRead
  \/ init_fi_system \/ Restore \/ Stop
  \/ \E a \in Address : Start(a)
  \/ FetchInst \/ decode \/ Execute \/ Retire
  \/ ProcessFault

\* The simulator is not interrupted for ever while it reads.
ExpSpec == ExpInit /\ [][ExpNext]_xvars /\ WF_xvars(ReadObject \/ EndRead)

-----------------------------------------------------------------------------
(* Properties.                                                             *)

\* Types: the fields of the process, and a decoded instruction wherever one is used.
ExpTypeOK ==
  /\ pc \in {"down", "read", "guest", "aborted"}
  /\ check \in BOOLEAN /\ reads \in 0 .. MaxReads
  /\ image.saved => check /\ image.proc.inst = NoInst
  /\ proc.inits \in 0 .. MaxInits /\ proc.insts \in 0 .. MaxInsts /\ proc.hits \in 0 .. MaxHits
  /\ \A a \in Address : \A w \in proc.pages[a] : proc.instMap[w] # {}
  /\ proc.inst.stage \in {"decode", "iew"} =>
       \E w \in proc.inst.si : proc.instMap[w] # {}

Wanted(objects) == SelectSeq(objects, LAMBDA o : o.class \in Class \ Plain)

\* Object i of the file has all its fields, and the parsers know them.
WellFormed(f, i) ==
  LET o == f.objects[i]
  IN o.class \in Class =>
       /\ f.whole \/ i < Len(f.objects)
       /\ \A k \in Range(Layout[o.class]) :
            /\ k \in Parsed => FieldsOf(o)[k] \in Accepts(k)
            /\ k \in IntField => FieldsOf(o)[k] \in IntWord

AllWellFormed(f) == \A i \in DOMAIN f.objects : WellFormed(f, i)

\* getFromFile, when it returns, has queued the faults that the file describes, each
\* with the fields of its class at their places, all of them and no other; of a file
\* with a damaged object, the ones before it.
ReadsWritten ==
  pc = "read" /\ ~Continues(input.s) =>
    LET f == input.s.file
        n == IF AllWellFormed(f) THEN Len(f.objects)
             ELSE (CHOOSE i \in DOMAIN f.objects :
                     ~WellFormed(f, i) /\ \A j \in 1 .. i - 1 : WellFormed(f, j)) - 1
        wanted == Wanted(SubSeq(f.objects, 1, n))
    IN /\ Len(proc.faults) >= Len(wanted)
       /\ AllWellFormed(f) => Len(proc.faults) = Len(wanted)
       /\ \A i \in DOMAIN wanted :
            proc.faults[i] = [class |-> wanted[i].class, got |-> FieldsOf(wanted[i]),
                              left |-> IntOf[FieldsOf(wanted[i]).occ], by |-> reads]

LastClass(f) == f.objects[Len(f.objects)].class

\* A file without damage stops the simulator in an assertion exactly when white space
\* follows its last word and its last object is a fault: the loop then constructs one
\* more object of that class from nothing.
AbortExact ==
  /\ pc = "aborted" /\ input.s.file.exists /\ AllWellFormed(input.s.file) =>
       input.s.file.blank /\ LastClass(input.s.file) \in Class
  /\ pc = "read" /\ ~Continues(input.s) /\ AllWellFormed(input.s.file) =>
       ~(input.s.file.blank /\ Len(input.s.file.objects) > 0
          /\ LastClass(input.s.file) \in Class)

\* What the decode cache gives for an instruction that no fault has changed is the
\* program's instruction decoded, unless a fault has changed that decoded instruction.
Provenance ==
  proc.inst.stage \in {"decode", "iew"} =>
    /\ proc.inst.si = {proc.inst.w}
    /\ ~proc.inst.hit => proc.inst.w = Program[proc.inst.a]
    /\ proc.scars[proc.inst.w] = {} => proc.instMap[proc.inst.w] = {decodeInst[proc.inst.w]}

\* An experiment runs with its own faults: the queued ones are all from the file as it
\* was at the last reset, and in a process that was initialised once, restored from the
\* checkpoint or not, so are the ones that decoded instructions bear marks of.
Isolated ==
  /\ pc = "guest" /\ proc.inits > 0 => \A i \in DOMAIN proc.faults : proc.faults[i].by = reads
  /\ proc.inits = 1 => \A w \in MachInst : proc.scars[w] \subseteq {reads}

\* A value of 64 bits becomes what the type of the change names, and so does a value of
\* any width when the change is Flip or All, a byte of memory by what is left of the
\* number when it is cast to a byte (Flip:257 flips the first bit); the opcode of an
\* instruction becomes the low bits of the immediate value, or those xor the opcode,
\* and the rest of the instruction is as it was.
CorruptsAsNamed ==
  last.made =>
    /\ /\ last.class # "OpCodeInjectedFault"
       /\ last.w = Wide \/ last.what.type \in {"Flip", "All"}
       => last.out = Named(last.w, last.in, IF last.class = "MemoryInjectedFault"
                                              THEN Cast(last.what) ELSE last.what)
    /\ last.class = "OpCodeInjectedFault" =>
         /\ OpCode(last.out) = Named(OpBits, OpCode(last.in), last.what)
         /\ \A k \in Bits(InstBits - OpBits) : k \in last.out <=> k \in last.in

\* The comment of IMMD, "Set the value of 'out' at 'in'": the value becomes the one
\* that was given, as far as it fits.
ImmediateSets ==
  last.made /\ last.what.type = "Immd" /\ last.class # "OpCodeInjectedFault" =>
    last.out = last.what.bits \cap Bits(last.w)

\* getFromFile returns, or the process ends, whatever is in the file.
ReadEnds == pc = "read" ~> pc # "read"
=============================================================================
