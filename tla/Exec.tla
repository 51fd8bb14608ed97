-------------------------------- MODULE Exec --------------------------------
(***************************************************************************)
(* Starting a program: sys_exec and the formats of kernel/src/util/exec.c, *)
(* the stack of the new image, and the hand-over from the dynamic linker   *)
(* (user/ld/ld.c) to the program.  Scripts and dynamically linked programs *)
(* call k_util_exec again for their interpreter, on the kernel stack of    *)
(* the process.  A path and an argument are model values.                  *)
(* Skip_One is a faulty variant of the definition that follows it.         *)
(***************************************************************************)
EXTENDS Integers, Sequences, FiniteSets

CONSTANTS Paths, Ld,     \* the files; the dynamic linker
          Args, MaxArgs, \* arguments and environment strings; bound on their number
          MaxDepth       \* nested calls the kernel stack has room for

(* No argument is itself the name of a program: ld called by hand with one *)
(* is left out.                                                            *)
ExecAssumption ==
  /\ Ld \in Paths /\ MaxDepth \in Nat \ {0} /\ MaxArgs \in Nat
  /\ Args \cap Paths = {} /\ {"shell", "none"} \cap Paths = {}

VARIABLES
  kind,      \* of each file: "static", "dynamic", "script", "data" or "none"
  interp,    \* the interpreter a script or a dynamic program names
  call,      \* the calls of k_util_exec: path and argv of each, the last innermost
  env,       \* the environment of the call
  image,     \* what runs: the file and what its main gets
  asked,     \* history: the path and the arguments of sys_exec
  fds,       \* the descriptor with O_CLOEXEC is open
  at         \* "run", "exec", or "overflow" of the kernel stack

vars == <<kind, interp, call, env, image, asked, fds, at>>
files == <<kind, interp>>

Lists == UNION {[1..n -> Args] : n \in 0..MaxArgs}
Shell == [file |-> "shell", argv |-> << >>, env |-> << >>]

Init ==
  /\ kind \in [Paths -> {"static", "dynamic", "script", "data", "none"}]
  /\ interp \in [Paths -> Paths]
  /\ kind[Ld] \in {"static", "none"} /\ \A p \in Paths : kind[p] = "dynamic" => interp[p] = Ld
  /\ \A p \in Paths : kind[p] \in {"static", "data", "none"} => interp[p] = p
  /\ call = << >> /\ env = << >> /\ image = Shell /\ asked = << >> /\ fds = TRUE /\ at = "run"

(* k_proc_process_prepare_exec: also for an exec that fails later.         *)
prepare_exec == fds' = FALSE

(* sys_exec                                                                *)
sys_exec(path, argv, envp) ==
  /\ at = "run" /\ image = Shell
  /\ at' = "exec" /\ asked' = <<path, argv>> /\ env' = envp
  /\ call' = <<[path |-> path, argv |-> argv]>>
  /\ prepare_exec
  /\ UNCHANGED <<files, image>>

(***************************************************************************)
(* The stack of a new image, its top first: a string is one cell, and a    *)
(* pointer is the number of cells from the bottom up to what it points to. *)
(***************************************************************************)
Here(s) == Len(s)
At(s, ptr) == s[Len(s) - ptr + 1]

(* The order in which the pointers lie on the stack.                       *)
Pointers(ptrs) == ptrs

(* The strings are pushed, the last one first, and then their addresses.   *)
PushAll(s, strings) ==
  LET n == Len(strings)
  IN Pointers([i \in 1..n |-> Here(s) + n - i + 1]) \o strings \o s

(* envp_stack, from the stack after the environment and after all.         *)
EnvAt(e, a) == Here(e)

(* The stack with the environment and the arguments; argc, argv, envc and  *)
(* envp on top.                                                            *)
Stack(argv, envp) ==
  LET e == PushAll(<< >>, envp)
      a == PushAll(e, argv)
  IN <<Len(argv), Here(a), Len(envp), EnvAt(e, a)>> \o a

(* What libc_init copies: n strings from the array ptr points to.          *)
ReadArray(s, ptr, n) == [i \in 1..n |-> At(s, At(s, ptr - i + 1))]
Argv(s) == ReadArray(s, s[2], s[1])
Envp(s) == ReadArray(s, s[4], s[3])

(***************************************************************************)
(* k_util_exec                                                             *)
(***************************************************************************)
top == call[Len(call)]

(* The call returns an error through all its callers: the old image runs.  *)
fail ==
  /\ at = "exec" /\ kind[top.path] \in {"none", "data"}
  /\ at' = "run" /\ call' = << >>
  /\ UNCHANGED <<files, env, image, asked, fds>>

Nested(path, argv) ==
  IF Len(call) = MaxDepth
  THEN at' = "overflow" /\ UNCHANGED call
  ELSE call' = Append(call, [path |-> path, argv |-> argv]) /\ UNCHANGED at

(* k_util_exec_shebang: the script's path goes before its arguments.       *)
shebang ==
  /\ at = "exec" /\ kind[top.path] = "script"
  /\ Nested(interp[top.path], <<top.path>> \o top.argv)
  /\ UNCHANGED <<files, env, image, asked, fds>>

(* PT_INTERP, or /lib/ld.so.                                               *)
Interp(path) == interp[path]

(* k_util_exec_elf of a dynamic program: the path goes before, twice.      *)
dynamic ==
  /\ at = "exec" /\ kind[top.path] = "dynamic"
  /\ Nested(Interp(top.path), <<top.path, top.path>> \o top.argv)
  /\ UNCHANGED <<files, env, image, asked, fds>>

(* The name of the node a path leads to, which becomes proc->name.         *)
Name(path) == <<"name", path>>

(* k_util_exec_elf of a static program: a new address space, and into it.  *)
static ==
  LET s == Stack(<<Name(top.path)>> \o top.argv, env) IN
  /\ at = "exec" /\ kind[top.path] = "static"
  /\ at' = "run" /\ call' = << >>
  /\ image' = [file |-> top.path, argv |-> Argv(s), env |-> Envp(s)]
  /\ UNCHANGED <<files, env, asked, fds>>

Skip_One == 1
(* What ld leaves out of its own argv for the program.                     *)
Skip == 2

(* ld runs and finds a program in argv[1].                                 *)
Linking ==
  /\ at = "run" /\ image.file = Ld /\ Len(image.argv) > 1
  /\ image.argv[2] \in Paths /\ kind[image.argv[2]] = "dynamic"

(* main of ld, for that program: envc is 0.                                *)
jump ==
  /\ Linking
  /\ image' = [image EXCEPT !.file = image.argv[2], !.env = << >>,
                            !.argv = SubSeq(@, Skip + 1, Len(@))]
  /\ UNCHANGED <<files, call, env, asked, fds, at>>

(* What goes on by itself once sys_exec is called.                         *)
Loader == fail \/ shebang \/ dynamic \/ static \/ jump

Next == Loader \/ \E p \in Paths, a \in Lists, e \in Lists : sys_exec(p, a, e)

Spec == Init /\ [][Next]_vars /\ WF_vars(Loader)

(***************************************************************************)
(* Properties                                                              *)
(***************************************************************************)
(* The program a call should end in, and its arguments: scripts give way   *)
(* to their interpreters.                                                  *)
Onward(r) ==
  IF kind[r.path] = "script" THEN [path |-> interp[r.path], argv |-> <<r.path>> \o r.argv]
  ELSE r
Chain(path, argv) ==
  LET chain[n \in 0..MaxDepth] ==
        IF n = 0 THEN [path |-> path, argv |-> argv] ELSE Onward(chain[n - 1])
  IN chain
Resolved(path, argv) == Chain(path, argv)[MaxDepth]

Started == at = "run" /\ asked # << >> /\ image.file \in Paths /\ ~Linking

(* What a program finds in argv[0]: the path if it is dynamic.             *)
Argv0(path) == IF kind[path] = "static" THEN Name(path) ELSE path

(* However many interpreters lie between, the program that runs in the end *)
(* is the one meant; its main gets the scripts that led to it and the      *)
(* arguments of execve, in order, from the stack the kernel built, after   *)
(* its own path or, if it is static, the name of its node; the linker does *)
(* not show.                                                               *)
ArgumentsArrive ==
  Started =>
    LET r == Resolved(asked[1], asked[2]) IN
    image.file = r.path /\ image.argv = <<Argv0(r.path)>> \o r.argv

(* A static program gets the environment of execve; a dynamic one gets     *)
(* none of it.                                                             *)
EnvironmentArrives ==
  Started => image.env = IF kind[image.file] = "static" THEN env ELSE << >>

(* Unless interpreters name each other in a circle, an exec comes to an    *)
(* end: something runs, the old program or the new.                        *)
Circle ==
  LET S == {p \in Paths : kind[p] \in {"script", "dynamic"}} IN
  \E T \in SUBSET S : T # {} /\ \A p \in T : interp[p] \in T
ExecEnds == (at = "exec") ~> (at = "run" \/ Circle)

(***************************************************************************)
(* The inductive invariant: what the innermost call is of the chain, and   *)
(* what an image is that ld has not started yet.                           *)
(***************************************************************************)
Formats == {"static", "dynamic", "script", "data", "none"}
Words == Args \cup {p \in Paths : kind[p] = "script"}

TypeOK ==
  /\ kind \in [Paths -> Formats] /\ interp \in [Paths -> Paths]
  /\ kind[Ld] \in {"static", "none"} /\ \A p \in Paths : kind[p] = "dynamic" => interp[p] = Ld
  /\ env \in Seq(Args) /\ at \in {"run", "exec", "overflow"}
  /\ asked # << >> => asked = <<asked[1], asked[2]>> /\ asked[1] \in Paths /\ asked[2] \in Seq(Args)
  /\ asked = << >> => at = "run" /\ image = Shell

(* The call with which the kernel goes on from a dynamic program.          *)
ForLd(r) == [path |-> Ld, argv |-> <<r.path, r.path>> \o r.argv]

CallIsChained ==
  at = "exec" =>
    LET c == Chain(asked[1], asked[2]) IN
    /\ image = Shell /\ asked # << >>
    /\ call \in Seq([path : Paths, argv : Seq(Args \cup Paths)]) /\ Len(call) \in 1..MaxDepth
    /\ \/ top = c[Len(call) - 1]
       \/ /\ Len(call) > 1 /\ kind[c[Len(call) - 2].path] = "dynamic"
          /\ top = ForLd(c[Len(call) - 2])

IsImage(r) ==
  image = [file |-> r.path, argv |-> <<Argv0(r.path)>> \o r.argv,
           env |-> IF kind[r.path] = "static" THEN env ELSE << >>]

ImageIsMeant ==
  at = "run" /\ asked # << >> =>
    LET r == Resolved(asked[1], asked[2]) IN
    \/ image = Shell
    \/ kind[r.path] \in {"static", "dynamic"} /\ IsImage(r)
    \/ /\ kind[r.path] = "dynamic"
       /\ image = [file |-> Ld, argv |-> <<Name(Ld)>> \o ForLd(r).argv, env |-> env]

ExecInv == TypeOK /\ CallIsChained /\ ImageIsMeant
=============================================================================
