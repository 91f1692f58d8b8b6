------------------------------ MODULE Fnmatch -------------------------------
(***************************************************************************)
(* The shell's pattern matcher (user/sh/src/main.rs: fnmatch), its loop    *)
(* with one place to go back to, beside what a match is.                   *)
(***************************************************************************)
EXTENDS Naturals, Sequences

CONSTANTS
    Letters,   \* characters of names
    MaxPat, MaxName   \* bounds of the model: lengths

ASSUME FnmatchAssumption == {"*", "?"} \cap Letters = {} /\ {MaxPat, MaxName} \subseteq Nat

VARIABLES
    pat, name,   \* the arguments
    px, nx,      \* positions in them, from 0
    star, ss,    \* the last star seen, or NoStar, and where its run ends
    result      \* "none", "yes" or "no"

fnVars == <<pat, name, px, nx, star, ss, result>>

NoStar == MaxPat + 1

SeqsUpTo(S, n) == UNION {[1 .. k -> S] : k \in 0 .. n}

FnInit ==
    /\ pat \in SeqsUpTo(Letters \cup {"*", "?"}, MaxPat)
    /\ name \in SeqsUpTo(Letters, MaxName)
    /\ px = 0 /\ nx = 0 /\ star = NoStar /\ ss = 0 /\ result = "none"

----------------------------------------------------------------------------

Looking == result = "none" /\ nx < Len(name)
AtPat(c) == px < Len(pat) /\ pat[px + 1] = c
OneChar  == AtPat("?") \/ AtPat(name[nx + 1])

Same ==
    /\ Looking /\ OneChar
    /\ px' = px + 1 /\ nx' = nx + 1
    /\ UNCHANGED <<pat, name, star, ss, result>>

Star ==
    /\ Looking /\ ~OneChar /\ AtPat("*")
    /\ star' = px /\ px' = px + 1 /\ ss' = nx
    /\ UNCHANGED <<pat, name, nx, result>>

\* Mutant: the name is not tried again from behind the run's new end.
Resume_Here == nx

Resume == ss + 1

\* The star's run takes one character more.
GoBack ==
    /\ Looking /\ ~OneChar /\ ~AtPat("*") /\ star # NoStar
    /\ px' = star + 1 /\ ss' = ss + 1 /\ nx' = Resume
    /\ UNCHANGED <<pat, name, star, result>>

Fail ==
    /\ Looking /\ ~OneChar /\ ~AtPat("*") /\ star = NoStar
    /\ result' = "no"
    /\ UNCHANGED <<pat, name, px, nx, star, ss>>

\* The name is used up: only stars may be left.
End ==
    /\ result = "none" /\ nx = Len(name)
    /\ result' = IF \A i \in px + 1 .. Len(pat) : pat[i] = "*" THEN "yes" ELSE "no"
    /\ UNCHANGED <<pat, name, px, nx, star, ss>>

FnNext == Same \/ Star \/ GoBack \/ Fail \/ End

FnSpec == FnInit /\ [][FnNext]_fnVars

----------------------------------------------------------------------------

\* What a match is: m[<<i, j>>] for the pattern and the name without their first i and j.
Matches ==
    LET m[at \in (0 .. Len(pat)) \X (0 .. Len(name))] ==
          LET i == at[1]  j == at[2] IN
          IF i = Len(pat) THEN j = Len(name)
          ELSE IF pat[i + 1] = "*" THEN m[<<i + 1, j>>] \/ (j < Len(name) /\ m[<<i, j + 1>>])
          ELSE j < Len(name) /\ pat[i + 1] \in {"?", name[j + 1]} /\ m[<<i + 1, j + 1>>]
    IN  m[<<0, 0>>]

\* Safety.  Going back to the last star only never misses a match, and never finds
\* one that is not there.
VerdictIsMatch == result # "none" => (result = "yes") = Matches
============================================================================
