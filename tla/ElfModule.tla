----------------------------- MODULE ElfModule ------------------------------
(***************************************************************************)
(* Loading of kernel modules (kernel/src/mod/elf.c, mod/symtable.c and     *)
(* sys_insmod): the section headers of a relocatable file are gone through *)
(* once, in the order of the file.  A file is its sequence of headers: the *)
(* memory for uninitialised variables ("bss"), the symbol table            *)
(* ("symtab"), or a relocation of one reference, to                        *)
(*   "kernel" an exported symbol, "other" a function other modules have,   *)
(*   "weak"   a weak symbol nobody has, "own" a place in the file,         *)
(*   "var"    a variable of the module's bss section.                      *)
(***************************************************************************)
EXTENDS Integers, Sequences, FiniteSets, FiniteSetsExt

CONSTANTS Mods, MaxHeaders   \* the modules, and a bound on the headers of a file

Refs == {"kernel", "other", "weak", "own", "var"}
Headers == Refs \cup {"bss", "symtab"}
Files ==
  {f \in UNION {[1..n -> Headers] : n \in 1..MaxHeaders} :
     /\ \A i, j \in DOMAIN f : f[i] = f[j] /\ f[i] \in {"bss", "symtab"} => i = j
     /\ "var" \in Range(f) => "bss" \in Range(f)}

VARIABLES
  symbols,    \* symbol table of the kernel: name and module of each
  file,       \* the file of each module
  at,         \* the next header, 0 before insmod
  state,      \* "no", "loading", "loaded" or "failed"
  bss,        \* whether the bss section has its memory: sh_offset is changed
  info,       \* __k_module_info was found
  refs        \* what each relocated reference refers to

vars == <<symbols, file, at, state, bss, info, refs>>

(* k_mod_symtable_init                                                     *)
Init ==
  /\ symbols = <<[name |-> "kernel", module |-> "kernel"]>>
  /\ file \in [Mods -> Files]
  /\ at = [m \in Mods |-> 0] /\ state = [m \in Mods |-> "no"]
  /\ bss = [m \in Mods |-> FALSE] /\ info = [m \in Mods |-> FALSE] /\ refs = [m \in Mods |-> << >>]

(* sys_insmod up to the loop of k_mod_elf_load_module.                     *)
insmod(m) ==
  /\ \A o \in Mods : state[o] # "loading"
  /\ state[m] = "no"
  /\ state' = [state EXCEPT ![m] = "loading"] /\ at' = [at EXCEPT ![m] = 1]
  /\ UNCHANGED <<symbols, file, bss, info, refs>>

Defines(s, name, module) == s.name = name /\ s.module = module

(* k_mod_symtable_get_symbol                                               *)
get_symbol(name, module) ==
  LET hits == {i \in DOMAIN symbols : Defines(symbols[i], name, module)}
  IN IF hits = {} THEN "null" ELSE symbols[Min(hits)].module

(* The section of the variables: its memory, once sh_offset is changed.    *)
Section(m) == IF bss[m] THEN "memory" ELSE "file"

(* k_mod_elf_get_symval: where a variable is depends on the bss section's  *)
(* header having been met.                                                 *)
get_symval(m, ref) ==
  IF ref = "own" THEN "file"
  ELSE IF ref = "var" THEN Section(m)
  ELSE get_symbol(ref, "kernel")

header(m) == file[m][at[m]]
Step(m) == state[m] = "loading" /\ at[m] <= Len(file[m])
Advance(m) == at' = [at EXCEPT ![m] = @ + 1]

allocate(m) ==
  /\ Step(m) /\ header(m) = "bss"
  /\ bss' = [bss EXCEPT ![m] = TRUE] /\ Advance(m)
  /\ UNCHANGED <<symbols, file, state, info, refs>>

(* k_mod_elf_relocate; a value of 0, a weak symbol's too, ends the load.   *)
relocate(m) ==
  LET value == get_symval(m, header(m)) IN
  /\ Step(m) /\ header(m) \in Refs
  /\ IF value = "null"
     THEN state' = [state EXCEPT ![m] = "failed"] /\ UNCHANGED <<at, refs>>
     ELSE refs' = [refs EXCEPT ![m] = Append(@, <<header(m), value>>)] /\ Advance(m) /\ UNCHANGED state
  /\ UNCHANGED <<symbols, file, bss, info>>

(* The symbol table: the module's header, and the functions it defines.    *)
symtab(m) ==
  /\ Step(m) /\ header(m) = "symtab"
  /\ info' = [info EXCEPT ![m] = TRUE]
  /\ symbols' = Append(symbols, [name |-> "other", module |-> m])
  /\ Advance(m)
  /\ UNCHANGED <<file, state, bss, refs>>

(* The end of k_mod_elf_load_module; sys_insmod runs the module if it has  *)
(* a header.                                                               *)
finish(m) ==
  /\ state[m] = "loading" /\ at[m] > Len(file[m])
  /\ state' = [state EXCEPT ![m] = IF info[m] THEN "loaded" ELSE "failed"]
  /\ symbols' = IF info[m] THEN Append(symbols, [name |-> "info", module |-> m]) ELSE symbols
  /\ UNCHANGED <<file, at, bss, info, refs>>

Next == \E m \in Mods : insmod(m) \/ allocate(m) \/ relocate(m) \/ symtab(m) \/ finish(m)

Spec == Init /\ [][Next]_vars

Index(m, h) == CHOOSE i \in DOMAIN file[m] : file[m][i] = h

(* All references of a loaded module to one of its variables mean the same *)
(* zeroed memory, if the header of the section comes before the            *)
(* relocations; one that comes first is left pointing into the file.       *)
VariablesAreMemory ==
  \A m \in Mods : \A i \in DOMAIN refs[m] :
    refs[m][i] = <<"var", "file">> =>
      \E j \in 1..Index(m, "bss") : file[m][j] = "var"

(* A module uses the kernel and itself, never what another one defines.    *)
ModulesAreApart ==
  \A m \in Mods : \A i \in DOMAIN refs[m] : refs[m][i][2] \in {"kernel", "file", "memory"}

(* The inductive invariant behind both: a section header that was passed   *)
(* has given the variables their memory.                                   *)
TypeOK ==
  /\ symbols \in Seq([name : {"kernel", "other", "info"}, module : Mods \cup {"kernel"}])
  /\ file \in [Mods -> Files] /\ at \in [Mods -> Nat]
  /\ state \in [Mods -> {"no", "loading", "loaded", "failed"}]
  /\ bss \in [Mods -> BOOLEAN] /\ info \in [Mods -> BOOLEAN]
  /\ refs \in [Mods -> Seq(Refs \X {"kernel", "file", "memory"})]

PassedIsMemory ==
  \A m \in Mods : \A j \in DOMAIN file[m] : file[m][j] = "bss" /\ j < at[m] => bss[m]

StartsAtFirst == \A m \in Mods : state[m] = "loading" => at[m] > 0

ModuleInv == TypeOK /\ PassedIsMemory /\ StartsAtFirst /\ VariablesAreMemory
=============================================================================
