--------------------------------- MODULE Ld ---------------------------------
(***************************************************************************)
(* The dynamic linker (user/ld/ld.c): it loads a program and the libraries *)
(* it needs, each with what it needs in turn, applies the relocations,     *)
(* runs the initialisers, and later resolves calls when they are made.     *)
(* The model follows one symbol.  sym[o] is what object o has of it:       *)
(*   "def"  a definition, which o itself reaches through its tables;       *)
(*   "und"  a function called through the procedure table (JMP_SLOT);      *)
(*   "data" a variable reached through the offset table (GLOB_DAT);        *)
(*   "abs", "weak" an address in o's data (R_386_32), strong or weak;      *)
(* and in the program, which is linked to fixed addresses, also            *)
(*   "copy" a variable moved into the program (R_386_COPY);                *)
(*   "plt"  a function whose address the program uses: the symbol has the  *)
(*          address of the procedure table entry for its value.            *)
(* An address is the object in which it lies.                              *)
(* Order_Twice is a faulty variant of the definition that follows it.      *)
(***************************************************************************)
EXTENDS Integers, Sequences, FiniteSets, FiniteSetsExt

CONSTANTS Main, Libs, MaxNeeds   \* MaxNeeds: bound on the libraries an object names

Objects == {Main} \cup Libs
Needs(n) == {s \in UNION {[1..k -> Libs] : k \in 0..n} : IsInjective(s)}

LdAssumption ==
  /\ Main \notin Libs /\ MaxNeeds \in Nat
  /\ Objects \cap {"none", "base", "lazy", "null"} = {}

VARIABLES
  dependencies, sym,  \* the files
  phase,              \* "load", "copies", "relocate", "init", "run", "exit", or "hung" in a call
  stack,              \* load_object calls: the object and the next dependency
  loaded,             \* loaded_libraries
  override,           \* symbol_overrides names the symbol
  next,               \* loop counter of the phase
  slot,               \* what the object's table entry holds
  copied,             \* the object a copy was made of, and whether it was relocated then
  times               \* history: how often each object was relocated

vars == <<dependencies, sym, phase, stack, loaded, override, next, slot, copied, times>>
files == <<dependencies, sym>>

Init ==
  /\ dependencies \in [Objects -> Needs(MaxNeeds)] /\ \A l \in Libs : Len(dependencies[l]) < 2
  /\ \/ /\ sym \in [Objects -> {"none", "def", "und", "abs", "plt"}]
        /\ sym[Main] # "abs" /\ \A l \in Libs : sym[l] # "plt"
     \/ /\ sym \in [Objects -> {"none", "def", "data", "abs", "weak", "copy"}]
        /\ sym[Main] \in {"none", "copy"} /\ \A l \in Libs : sym[l] # "copy"
  /\ phase = "load" /\ stack = <<[obj |-> Main, dep |-> 1]>> /\ loaded = <<Main>>
  /\ override = FALSE /\ next = 1
  /\ slot = [o \in Objects |-> IF sym[o] \in {"und", "plt", "def"} THEN "lazy" ELSE "null"]
  /\ copied = << >> /\ times = [o \in Objects |-> 0]

Exit == phase' = "exit" /\ UNCHANGED <<files, stack, loaded, override, next, slot, copied, times>>

(***************************************************************************)
(* Loading                                                                 *)
(***************************************************************************)
is_library_loaded(l) == \E i \in 1..Len(loaded) : loaded[i] = l

(* A turn of the loop at the end of load_object, or its return.  A library *)
(* is on the list before those it needs are looked at.                     *)
load_object ==
  LET top == stack[Len(stack)]
      needs == dependencies[top.obj]
      passed == [stack EXCEPT ![Len(stack)].dep = @ + 1] IN
  /\ phase = "load"
  /\ IF top.dep > Len(needs)
     THEN /\ stack' = SubSeq(stack, 1, Len(stack) - 1) /\ UNCHANGED loaded
          /\ phase' = IF stack' = << >> THEN "copies" ELSE phase
     ELSE /\ UNCHANGED phase
          /\ IF is_library_loaded(needs[top.dep])
             THEN stack' = passed /\ UNCHANGED loaded
             ELSE /\ loaded' = Append(loaded, needs[top.dep])
                  /\ stack' = Append(passed, [obj |-> needs[top.dep], dep |-> 1])
  /\ UNCHANGED <<files, override, next, slot, copied, times>>

(* load_library: the file is missing, is no ELF file or cannot be mapped.  *)
load_fails ==
  /\ phase = "load" /\ stack[Len(stack)].dep <= Len(dependencies[stack[Len(stack)].obj])
  /\ ~is_library_loaded(dependencies[stack[Len(stack)].obj][stack[Len(stack)].dep])
  /\ Exit

(***************************************************************************)
(* Relocation                                                              *)
(***************************************************************************)
HasValue(o) == sym[o] \in {"def", "copy", "plt"}

(* The objects lookup_symbol looks at for o, in order.                     *)
Scope(o) == loaded

(* lookup_symbol with no library: the first but the requester.             *)
lookup_symbol(o) ==
  LET hits == {i \in DOMAIN Scope(o) : Scope(o)[i] # o /\ HasValue(Scope(o)[i])}
  IN IF hits = {} THEN "none" ELSE Scope(o)[Min(hits)]

(* object_relocate_copies of all objects; only the program has copies.     *)
relocate_copies ==
  /\ phase = "copies"
  /\ IF sym[Main] # "copy"
     THEN phase' = "relocate" /\ UNCHANGED <<files, stack, loaded, override, next, slot, copied, times>>
     ELSE IF lookup_symbol(Main) = "none" THEN Exit
     ELSE /\ phase' = "relocate" /\ override' = TRUE
          /\ UNCHANGED <<files, stack, loaded, next, slot, copied, times>>

(* The order of relocate_objects.                                          *)
Order_Twice == loaded \o <<Main>>
Order == SubSeq(loaded, 2, Len(loaded)) \o <<Main>>

(* symbol_address in object_relocate_section; "base" is the object's base, *)
(* which stands for no value.                                              *)
Target(o) == IF override THEN Main ELSE IF HasValue(o) THEN o ELSE "base"

(* relocate_object.  A table entry without a value is left for the         *)
(* resolver; a strong address in data without one ends the linker.         *)
relocate_object ==
  LET o == Order[next]
      t == Target(o) IN
  /\ phase = "relocate" /\ next <= Len(Order)
  /\ IF sym[o] = "abs" /\ t = "base" THEN Exit
     ELSE /\ slot' = [slot EXCEPT ![o] = IF sym[o] = "none" \/ t = "base" THEN @ ELSE t]
          /\ copied' = IF sym[o] = "copy"
                       THEN <<lookup_symbol(o), times[lookup_symbol(o)] > 0>> ELSE copied
          /\ times' = [times EXCEPT ![o] = @ + 1]
          /\ next' = next + 1
          /\ UNCHANGED <<files, phase, stack, loaded, override>>

(* main of ld after relocate_objects                                       *)
relocated ==
  /\ phase = "relocate" /\ next > Len(Order)
  /\ phase' = "init" /\ next' = 1
  /\ UNCHANGED <<files, stack, loaded, override, slot, copied, times>>

(***************************************************************************)
(* Running                                                                 *)
(***************************************************************************)
(* init_objects: in the order of the relocations.                          *)
init_object ==
  /\ phase = "init"
  /\ IF next > Len(loaded) THEN phase' = "run" /\ UNCHANGED next ELSE next' = next + 1 /\ UNCHANGED phase
  /\ UNCHANGED <<files, stack, loaded, override, slot, copied, times>>

(* resolve_symbol, at the first call from o; also while initialisers run.  *)
(* An entry of the program that leads to itself is never left.             *)
resolve_symbol(o) ==
  LET t == lookup_symbol(o) IN
  /\ phase \in {"init", "run"} /\ o \in Range(loaded)
  /\ sym[o] = "und" /\ slot[o] = "lazy"
  /\ IF t = "none" THEN Exit
     ELSE /\ slot' = [slot EXCEPT ![o] = t]
          /\ phase' = IF sym[t] = "plt" /\ slot[t] = t THEN "hung" ELSE phase
          /\ UNCHANGED <<files, stack, loaded, override, next, copied, times>>

Call(o) ==
  /\ phase \in {"init", "run"} /\ o = Main /\ sym[o] = "plt" /\ slot[o] = o
  /\ phase' = "hung"
  /\ UNCHANGED <<files, stack, loaded, override, next, slot, copied, times>>

Next ==
  \/ load_object \/ load_fails \/ relocate_copies \/ relocate_object \/ relocated \/ init_object
  \/ \E o \in Objects : resolve_symbol(o) \/ Call(o)

Spec == Init /\ [][Next]_vars

(***************************************************************************)
(* Properties                                                              *)
(***************************************************************************)
Closed(S) == \A o \in S : Range(dependencies[o]) \subseteq S
(* What the program needs, directly or not: the least set closed under     *)
(* dependencies that has the program.                                      *)
Reached == {o \in Objects : \A S \in SUBSET Objects : Main \in S /\ Closed(S) => o \in S}

(* No library is loaded twice, whatever cycles the dependencies have, and  *)
(* relocation begins with all that the program needs.                      *)
LoadedOnce ==
  /\ IsInjective(loaded)
  /\ phase \notin {"load", "exit"} => Range(loaded) = Reached

(* Before an initialiser runs, every object is relocated, once: the values *)
(* are added to what is there.                                             *)
RelocatedOnce ==
  phase \in {"init", "run"} => \A o \in Range(loaded) : times[o] = 1

(* A variable that was copied into the program is that copy for all.  One  *)
(* that was not, in a program that does not use it, reaches no importer:   *)
(* a library that imports it from another keeps a null entry, since        *)
(* relocations look at the object's own symbol only.                       *)
Imports(o) == sym[o] \in {"data", "weak"}
OneVariable ==
  phase \in {"init", "run"} =>
    \A o \in Range(loaded) :
      /\ override /\ sym[o] # "none" => slot[o] = Main
      /\ ~override /\ Imports(o) => slot[o] = "null"

(* The copy has the value of a variable that is relocated already.         *)
CopyIsRelocated == copied # << >> => copied[2]

(* All objects that import a function call the same one, a definition that *)
(* is loaded; but a program that uses the function's address has its own   *)
(* procedure table entry for the function, which leads to itself, and the  *)
(* first call, from wherever it comes, never returns.                      *)
Bound(o) == sym[o] = "und" /\ slot[o] # "lazy"
CallsAgree ==
  /\ \A o, u \in Range(loaded) : Bound(o) /\ Bound(u) => slot[o] = slot[u]
  /\ phase # "hung" => \A o \in Range(loaded) : Bound(o) => sym[slot[o]] = "def"
  /\ phase = "hung" => sym[Main] = "plt" /\ slot[Main] = Main

(***************************************************************************)
(* The inductive invariant behind them                                     *)
(***************************************************************************)
TypeOK ==
  /\ dependencies \in [Objects -> Seq(Libs)]
  /\ sym \in [Objects -> {"none", "def", "und", "data", "abs", "weak", "copy", "plt"}]
  /\ phase \in {"load", "copies", "relocate", "init", "run", "exit", "hung"}
  /\ stack \in Seq([obj : Objects, dep : Nat \ {0}])
  /\ loaded \in Seq(Objects) /\ override \in BOOLEAN /\ next \in Nat \ {0}
  /\ slot \in [Objects -> Objects \cup {"lazy", "null"}] /\ times \in [Objects -> Nat]

(* Only the program has a copy, and then the symbol is a variable.         *)
SymbolIsOne ==
  /\ \A l \in Libs : sym[l] \notin {"copy", "plt"}
  /\ sym[Main] = "copy" => \A o \in Objects : sym[o] # "und"
  /\ override => sym[Main] = "copy"
  /\ phase \in {"relocate", "init", "run"} /\ sym[Main] = "copy" => override

(* Of an object that is loaded, the libraries it needs are loaded or still *)
(* to come in one of the calls under way.                                  *)
LoadsWhatIsNeeded ==
  /\ IsInjective(loaded) /\ loaded # << >> /\ loaded[1] = Main
  /\ \A S \in SUBSET Objects : Main \in S /\ Closed(S) => Range(loaded) \subseteq S
  /\ \A k \in DOMAIN stack :
       LET o == stack[k].obj
       IN  /\ o \in Range(loaded)
           /\ \A j \in DOMAIN dependencies[o] :
                j < stack[k].dep => dependencies[o][j] \in Range(loaded)
  /\ \A o \in Range(loaded) : \/ \E k \in DOMAIN stack : stack[k].obj = o
                              \/ Range(dependencies[o]) \subseteq Range(loaded)
  /\ phase = "load" => stack # << >>
  /\ phase \notin {"load", "exit"} => stack = << >>

(* How far the relocations are.                                            *)
RelocatesInOrder ==
  /\ phase \in {"load", "copies"} =>
       next = 1 /\ copied = << >> /\ \A o \in Objects : times[o] = 0
  /\ phase = "relocate" =>
       /\ sym[Main] = "copy" => lookup_symbol(Main) # "none"
       /\ \A j \in 1..Len(loaded) :
            /\ times[Order[j]] = IF j < next THEN 1 ELSE 0
            /\ j < next /\ override /\ sym[Order[j]] # "none" => slot[Order[j]] = Main

(* The first object that has a value for the symbol.                       *)
Values == {i \in DOMAIN loaded : HasValue(loaded[i])}

CallsAreFirst ==
  \A o \in Objects :
    sym[o] = "und" /\ slot[o] # "lazy" =>
      /\ phase \notin {"load", "copies", "relocate"}
      /\ Values # {} /\ slot[o] = loaded[Min(Values)]

(* An import without a copy is never written; the entry of a program that  *)
(* uses the function's address leads to itself once it is relocated; what  *)
(* a call was bound to before that cannot be this entry.                   *)
EntriesAreSet ==
  /\ ~override => \A o \in Objects : Imports(o) => slot[o] = "null"
  /\ phase \in {"init", "run", "hung"} /\ sym[Main] = "plt" => slot[Main] = Main
  /\ phase = "relocate" /\ sym[Main] = "plt" /\ next > Len(loaded) => slot[Main] = Main
  /\ phase = "hung" => sym[Main] = "plt"
  /\ phase # "hung" => \A o \in Objects : Bound(o) => sym[slot[o]] = "def"

LdInv ==
  /\ TypeOK /\ SymbolIsOne /\ LoadsWhatIsNeeded /\ RelocatesInOrder /\ CallsAreFirst
  /\ EntriesAreSet /\ RelocatedOnce /\ OneVariable /\ CopyIsRelocated
=============================================================================
