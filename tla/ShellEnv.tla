------------------------------ MODULE ShellEnv ------------------------------
(***************************************************************************)
(* The shell's environment (user/sh/src/main.rs: Env, mkenvp and the       *)
(* builtins export, unset and env): two arrays and a count.                *)
(***************************************************************************)
EXTENDS Naturals

CONSTANTS
    EnvNames, EnvVals,
    EnvCap   \* 16

Unset == "unset"

ASSUME ShellEnvAssumption == EnvCap \in Nat \ {0} /\ Unset \notin EnvVals

VARIABLES
    count,         \* Env.n
    names, vals,   \* 0 .. EnvCap - 1 -> name, value; what is behind count is left over
    meant          \* name -> the value last exported, or Unset

envVars == <<count, names, vals, meant>>

ShellEnvInit ==
    /\ count = 0
    /\ names = [i \in 0 .. EnvCap - 1 |-> Unset] /\ vals = [i \in 0 .. EnvCap - 1 |-> Unset]
    /\ meant = [x \in EnvNames |-> Unset]

Used    == 0 .. count - 1
Places(x) == {i \in Used : names[i] = x}
Place(x)  == CHOOSE i \in Places(x) : \A j \in Places(x) : i <= j

\* get()
Lookup(x) == IF Places(x) = {} THEN Unset ELSE vals[Place(x)]

\* set(): a full table, like a name or a value that is too long, fails.
Export(x, v) ==
    /\ Places(x) # {} \/ count < EnvCap
    /\ LET i == IF Places(x) = {} THEN count ELSE Place(x) IN
         /\ names' = [names EXCEPT ![i] = x]
         /\ vals' = [vals EXCEPT ![i] = v]
         /\ count' = IF Places(x) = {} THEN count + 1 ELSE count
    /\ meant' = [meant EXCEPT ![x] = v]

\* Mutant: the last entry's value stays behind.
MovedVals_Not(i) == vals

MovedVals(i) == [vals EXCEPT ![i] = vals[count - 1]]

\* unset(): the last entry takes the place.
UnsetVar(x) ==
    /\ Places(x) # {}
    /\ names' = [names EXCEPT ![Place(x)] = names[count - 1]]
    /\ vals' = MovedVals(Place(x))
    /\ count' = count - 1
    /\ meant' = [meant EXCEPT ![x] = Unset]

ShellEnvNext == \E x \in EnvNames : UnsetVar(x) \/ \E v \in EnvVals : Export(x, v)

ShellEnvSpec == ShellEnvInit /\ [][ShellEnvNext]_envVars

\* mkenvp(): what a program is started with.
Envp == {<<names[i], vals[i]>> : i \in Used}

\* Safety.  A name has the value last exported, in the shell and in the programs it
\* starts, whatever was unset in between.
EnvIsMeant ==
    /\ \A x \in EnvNames : Lookup(x) = meant[x]
    /\ Envp = {<<x, meant[x]>> : x \in {y \in EnvNames : meant[y] # Unset}}
============================================================================
