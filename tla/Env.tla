-------------------------------- MODULE Env ---------------------------------
(***************************************************************************)
(* The environment of a program (libc/src/stdlib/env.c): an array of _envc *)
(* pointers to strings "name=value", ended by a null pointer.  A string is *)
(* the record of its name and its value; of its characters only the place  *)
(* of each '=' matters.  map is what the variables should be.              *)
(***************************************************************************)
EXTENDS Integers, Sequences, SequencesExt

CONSTANTS Names, Length(_),   \* the names, and how long each is
          Values, Equal,      \* the values; those of Equal have '=' for their second character
          MaxOps              \* bound: calls

EnvAssumption == Equal \subseteq Values /\ \A n \in Names : Length(n) > 0

VARIABLES environ, _envc,
          map,      \* history: the value of each variable that is set
          clash,    \* history: putenv wrote over a string of another name
          got,      \* what the last setenv of each name left for getenv
          calls

vars == <<environ, _envc, map, clash, got, calls>>

Null == [name |-> "null", value |-> "null"]
Str(n, v) == [name |-> n, value |-> v]
Unset == "none"

(* The places of '=' in a string, counted from 0.                          *)
EqualsAt(e) == {Length(e.name)} \cup (IF e.value \in Equal THEN {Length(e.name) + 2} ELSE {})

(* __init_arguments, for envp a sequence of strings.                       *)
Init ==
  \E envp \in UNION {[1..k -> [name : Names, value : Values]] : k \in 0..2} :
    /\ IsInjective([i \in DOMAIN envp |-> envp[i].name])
    /\ environ = Append(envp, Null) /\ _envc = Len(envp) + 1
    /\ map = [n \in Names |-> IF \E i \in DOMAIN envp : envp[i].name = n
                              THEN envp[CHOOSE i \in DOMAIN envp : envp[i].name = n].value ELSE Unset]
    /\ got = << >> /\ clash = FALSE /\ calls = 0

(* The strings before the null pointer.                                    *)
Used(env) == CHOOSE k \in 0..Len(env) : (k = Len(env) \/ env[k + 1] = Null)
                                         /\ \A i \in 1..k : env[i] # Null

GetFrom(env, n) ==
  LET hits == {i \in 1..Used(env) : env[i].name = n}
  IN IF hits = {} THEN Unset ELSE env[CHOOSE i \in hits : \A j \in hits : i <= j].value
getenv(n) == GetFrom(environ, n)

(* putenv looks for a string with '=' where the name would end; that       *)
(* strnstr finds the string in the name is impossible.                     *)
Same(e, n) == Length(n) \in EqualsAt(e)
Found(n) ==
  LET hits == {i \in 1.._envc - 1 : i <= Used(environ) /\ Same(environ[i], n)}
  IN IF hits = {} THEN 0 ELSE CHOOSE i \in hits : \A j \in hits : i <= j

(* The larger array.                                                       *)
Grown(env) == [i \in 1..2 * Len(env) |-> IF i <= Len(env) THEN env[i] ELSE Null]

Full == Used(environ) >= _envc - 1

putenv(n, v) ==
  LET i == Found(n)
      env == IF i = 0 /\ Full THEN Grown(environ) ELSE environ
      at == IF i = 0 THEN Used(environ) + 1 ELSE i IN
  /\ environ' = [env EXCEPT ![at] = Str(n, v)]
  /\ _envc' = Len(env)
  /\ clash' = (clash \/ (i # 0 /\ environ[i].name # n))

setenv(n, v, overwrite) ==
  /\ calls < MaxOps /\ calls' = calls + 1
  /\ IF ~overwrite /\ getenv(n) # Unset
     THEN UNCHANGED <<environ, _envc, clash, map, got>>
     ELSE /\ putenv(n, v)
          /\ map' = [map EXCEPT ![n] = v]
          /\ got' = <<v, GetFrom(environ', n)>>

Moved(env, found, last) == [env EXCEPT ![found] = env[last], ![last] = Null]

(* unsetenv: the last string takes the place of the first with the name.   *)
unsetenv(n) ==
  LET hits == {i \in 1..Used(environ) : environ[i].name = n} IN
  /\ calls < MaxOps /\ calls' = calls + 1
  /\ environ' = IF hits = {} THEN environ
                ELSE Moved(environ, CHOOSE i \in hits : \A j \in hits : i <= j, Used(environ))
  /\ map' = [map EXCEPT ![n] = Unset]
  /\ UNCHANGED <<_envc, clash, got>>

Next ==
  \E n \in Names :
    \/ unsetenv(n)
    \/ \E v \in Values, o \in BOOLEAN : setenv(n, v, o)

Spec == Init /\ [][Next]_vars

(* The array keeps its terminating null pointer, so that no call walks out *)
(* of it.                                                                  *)
Terminated == Len(environ) = _envc /\ Used(environ) < _envc

(* getenv finds what setenv has just stored, even over a string of another *)
(* variable.                                                               *)
SetIsGot == got # << >> => got[1] = got[2]

(* As long as putenv has not taken one variable for another (a name of the *)
(* same length, or a value with '=' at that place), every variable has the *)
(* value it was given last and those removed are gone.                     *)
EnvIsMap == clash \/ \A n \in Names : getenv(n) = map[n]
=============================================================================
