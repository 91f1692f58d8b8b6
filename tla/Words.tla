------------------------------- MODULE Words --------------------------------
(***************************************************************************)
(* How the shell reads a command (user/sh/src/main.rs): tokenize_env()     *)
(* splits it into words, with quotes, escapes and variables, and           *)
(* expand_globs() puts file names in the place of patterns; what a line is *)
(* cut at, |, <, > and &, find_unquoted() looks for on its own.            *)
(*                                                                         *)
(* A command is what tokenize_env() is handed: a line up to its            *)
(* redirection (exec_cmd), a side of a pipe (exec_simple) or a background  *)
(* line (exec_bg).  Of the three only the first is without operators.  The *)
(* names of redirections are read by redir_name(), which is not modelled.  *)
(*                                                                         *)
(* Characters are a name's "x", a blank, the two quotes, the backslash,    *)
(* the dollar, a star and an operator "|".  The variable x has the value   *)
(* VarValue, any other name and the empty one none.                        *)
(***************************************************************************)
EXTENDS Naturals, Sequences, FiniteSets

CONSTANTS
    MaxLen,     \* bound of the model: characters of a line
    VarValue,   \* a sequence of characters
    TokCap,     \* 62: characters of a word
    MaxToks,    \* 16: words
    GlobCap,    \* 8: arguments up to which names are put in
    Files       \* names in the directory, sequences of characters

Chars == {"x", " ", "'", "\"", "\\", "$", "*", "|"}

ASSUME WordsAssumption ==
    /\ {MaxLen, TokCap, MaxToks, GlobCap} \subseteq Nat \ {0} /\ GlobCap <= MaxToks
    /\ VarValue \in Seq(Chars)
    /\ IsFiniteSet(Files)

VARIABLES
    text,    \* the command
    i,       \* the position in it, from 0
    q,       \* 0 outside quotes, 1 in single ones, 2 in double ones
    tok,     \* the word so far: [c, lit] each
    toks,    \* the words
    phase,   \* "blanks", "word", "rest", "globs" or "done"
    todo,    \* expand_globs: the word it is at
    args     \* its result: [of, file]: the word it came from, 0 or which file it matches

wordVars == <<text, i, q, tok, toks, phase, todo, args>>

WordsInit ==
    /\ text \in UNION {[1 .. n -> Chars] : n \in 0 .. MaxLen}
    /\ i = 0 /\ q = 0 /\ tok = <<>> /\ toks = <<>>
    /\ phase = "blanks" /\ todo = 1 /\ args = <<>>

More == i < Len(text)
Char == text[i + 1]
Blank == More /\ q = 0 /\ Char = " "

----------------------------------------------------------------------------
(* find_unquoted() *)

\* How it comes to position k: in which quotes, or jumping over it after a backslash.
Seen ==
    LET f[k \in 0 .. Len(text)] ==
          IF k = 0 THEN [q |-> 0, jumped |-> FALSE]
          ELSE LET was == f[k - 1]  b == text[k] IN
               IF was.jumped THEN [was EXCEPT !.jumped = FALSE]
               ELSE IF was.q # 1 /\ b = "\\" THEN [was EXCEPT !.jumped = TRUE]
               ELSE [q |-> CASE was.q = 0 /\ b = "'"   -> 1
                             [] was.q = 0 /\ b = "\""  -> 2
                             [] was.q = 1 /\ b = "'"   -> 0
                             [] was.q = 2 /\ b = "\""  -> 0
                             [] OTHER -> was.q,
                     jumped |-> FALSE]
    IN  f

----------------------------------------------------------------------------
(* tokenize_env() *)

Splitting == UNCHANGED <<text, todo, args>>

NextWord ==
    /\ phase = "blanks"
    /\ LET S == {k \in i .. Len(text) - 1 : text[k + 1] # " "} IN
         IF S = {} \/ Len(toks) = MaxToks
           THEN phase' = "globs" /\ UNCHANGED i
           ELSE phase' = "word" /\ i' = CHOOSE k \in S : \A j \in S : k <= j
    /\ tok' = <<>> /\ q' = 0
    /\ UNCHANGED toks /\ Splitting

InWord == phase = "word" /\ More /\ Len(tok) < TokCap
Quotes == IF Char = "'" THEN 1 ELSE 2

Open ==
    /\ InWord /\ q = 0 /\ Char \in {"'", "\""}
    /\ q' = Quotes /\ i' = i + 1
    /\ UNCHANGED <<tok, toks, phase>> /\ Splitting

Close ==
    /\ InWord /\ q # 0 /\ Char \in {"'", "\""} /\ Quotes = q
    /\ q' = 0 /\ i' = i + 1
    /\ UNCHANGED <<tok, toks, phase>> /\ Splitting

Escape == InWord /\ q # 1 /\ Char = "\\" /\ i + 1 < Len(text)

\* The character after a backslash, whatever it is.
Escaped ==
    /\ Escape
    /\ tok' = Append(tok, [c |-> text[i + 2], lit |-> TRUE])
    /\ i' = i + 2
    /\ UNCHANGED <<q, toks, phase>> /\ Splitting

Clip(n, s) == SubSeq(s, 1, IF Len(s) < n THEN Len(s) ELSE n)

\* expand_var(): the value is one piece of the word, quotes and blanks in it included;
\* without a name the dollar stands for itself.
NameEnd == CHOOSE k \in i + 1 .. Len(text) :
             /\ \A j \in i + 2 .. k : text[j] = "x"
             /\ k = Len(text) \/ text[k + 1] # "x"

Variable ==
    /\ InWord /\ q # 1 /\ Char = "$"
    /\ tok' = Clip(TokCap, tok \o CASE NameEnd = i + 1 -> <<[c |-> "$", lit |-> TRUE]>>
                                    [] NameEnd = i + 2 -> [k \in DOMAIN VarValue |->
                                                             [c |-> VarValue[k], lit |-> q = 2]]
                                    [] OTHER -> <<>>)
    /\ i' = NameEnd
    /\ UNCHANGED <<q, toks, phase>> /\ Splitting

Plain ==
    /\ InWord
    /\ CASE q = 0 -> Char \notin {" ", "'", "\"", "$"} /\ ~Escape
         [] q = 1 -> Char # "'"
         [] q = 2 -> Char \notin {"\"", "$"} /\ ~Escape
    /\ tok' = Append(tok, [c |-> Char, lit |-> q # 0])
    /\ i' = i + 1
    /\ UNCHANGED <<q, toks, phase>> /\ Splitting

\* Mutant: what is cut off a word is taken for unquoted.
RestQuote_None == 0

RestQuote == q

\* The word ends at a blank, at the end of the line, or when it is full.
EndWord ==
    /\ phase = "word" /\ (~More \/ Len(tok) = TokCap \/ Blank)
    /\ IF Len(tok) = TokCap
         THEN phase' = "rest" /\ q' = RestQuote /\ UNCHANGED toks
         ELSE phase' = "blanks" /\ toks' = Append(toks, tok) /\ UNCHANGED q
    /\ UNCHANGED <<i, tok>> /\ Splitting

\* The rest of a word that is too long.
Rest ==
    /\ phase = "rest" /\ More /\ ~Blank
    /\ LET f == q # 1 /\ Char = "\\" IN
         /\ i' = IF f THEN (IF i + 2 < Len(text) THEN i + 2 ELSE Len(text)) ELSE i + 1
         /\ q' = IF q = 0 /\ Char \in {"'", "\""} THEN Quotes
                 ELSE IF q # 0 /\ Char \in {"'", "\""} /\ Quotes = q THEN 0 ELSE q
    /\ UNCHANGED <<tok, toks, phase>> /\ Splitting

RestEnds ==
    /\ phase = "rest" /\ (~More \/ Blank)
    /\ toks' = Append(toks, tok) /\ phase' = "blanks"
    /\ UNCHANGED <<i, q, tok>> /\ Splitting

----------------------------------------------------------------------------
(* expand_globs() *)

\* token_globs()
Globs(t) == \E k \in DOMAIN t : t[k].c = "*" /\ ~t[k].lit

\* What fnmatch() says of a pattern whose stars are at these positions: each takes any run
\* of characters, every other character itself.
Suits(p, stars, f) ==
    LET m[at \in (0 .. Len(p)) \X (0 .. Len(f))] ==
          LET k == at[1]  j == at[2] IN
          IF k = 0 THEN j = 0
          ELSE IF k \in stars THEN m[<<k - 1, j>>] \/ (j > 0 /\ m[<<k, j - 1>>])
          ELSE j > 0 /\ p[k] = f[j] /\ m[<<k - 1, j - 1>>]
    IN  m[<<Len(p), Len(f)>>]

Pattern(t) == [k \in DOMAIN toks[t] |-> toks[t][k].c]

\* A word goes to fnmatch() without its quotes: in one that globs a quoted star does too.
Matched(t) == {f \in Files : Suits(Pattern(t), {k \in DOMAIN toks[t] : toks[t][k].c = "*"}, f)}

\* Mutant: names are put in as long as there are some.
RoomForNames_All == Cardinality(Files)

RoomForNames == IF Len(args) < GlobCap THEN GlobCap - Len(args) ELSE 0

\* Mutant: a pattern without a name is dropped.
Kept_Literals(t) == IF Globs(toks[t]) THEN args ELSE Append(args, [of |-> t, file |-> 0])

Kept(t)     == Append(args, [of |-> t, file |-> 0])
Named(t, n) == args \o [k \in 1 .. n |-> [of |-> t, file |-> k]]

Least(m, n) == IF m < n THEN m ELSE n

\* A pattern gives way to the names it matches, as many as there is room for; without a
\* name, or without room, it is kept as it is.
Expand ==
    /\ phase = "globs" /\ todo <= Len(toks) /\ Len(args) < MaxToks
    /\ LET n == IF Globs(toks[todo]) THEN Least(Cardinality(Matched(todo)), RoomForNames) ELSE 0
       IN  args' = IF n = 0 THEN Kept(todo) ELSE Named(todo, n)
    /\ todo' = todo + 1
    /\ UNCHANGED <<text, i, q, tok, toks, phase>>

Expanded ==
    /\ phase = "globs" /\ (todo > Len(toks) \/ Len(args) >= MaxToks)
    /\ phase' = "done"
    /\ UNCHANGED <<text, i, q, tok, toks, todo, args>>

----------------------------------------------------------------------------

WordsNext ==
    \/ NextWord \/ Open \/ Close \/ Escaped \/ Variable \/ Plain \/ EndWord \/ Rest \/ RestEnds
    \/ Expand \/ Expanded

WordsSpec == WordsInit /\ [][WordsNext]_wordVars

----------------------------------------------------------------------------

\* Safety.  What cuts a line at its operators and what splits it into words agree at every
\* character on the quotes it is in, and on what a backslash hides: no line is cut within
\* the quotes of a word, and a cap that ends a word early does not shift them
\* (find_unquoted, tokenize_env).
QuotesSeenAlike ==
    phase \in {"word", "rest", "blanks"} /\ More => Seen[i] = [q |-> q, jumped |-> FALSE]

\* Safety.  The arrays of words and arguments are never overrun.
BuffersFit ==
    /\ Len(toks) <= MaxToks /\ Len(args) <= MaxToks
    /\ \A k \in DOMAIN toks : Len(toks[k]) <= TokCap

\* Safety.  No word is lost and none overtakes another, whatever names are put in for the
\* ones before it: each is there itself or by a name, in the order of the line, until the
\* array of arguments is full (expand_globs).
WordsArrive ==
    /\ \A k, l \in DOMAIN args : k <= l => args[k].of <= args[l].of
    /\ \A t \in 1 .. todo - 1 : \E k \in DOMAIN args : args[k].of = t
    /\ phase = "done" => todo > Len(toks) \/ Len(args) = MaxToks

\* Does not hold: of a word with a quoted and an unquoted star the quoted one matches any
\* run too, as fnmatch() is not told (main.rs:679, "expand unquoted globs", main.rs:610).
QuotedStarsStay ==
    \A k \in DOMAIN args : args[k].file > 0 =>
      LET t == toks[args[k].of] IN
      \E f \in Files : Suits(Pattern(args[k].of), {j \in DOMAIN t : t[j].c = "*" /\ ~t[j].lit}, f)

\* Does not hold: a side of a pipe and a background line are not looked through again, and
\* their operators go to the program (main.rs:711, 2320).
OperatorsStayOut ==
    \A k \in DOMAIN toks : [c |-> "|", lit |-> FALSE] \notin {toks[k][j] : j \in DOMAIN toks[k]}

\* Does not hold: a pattern that matches is kept as it is when eight arguments are there
\* (main.rs:663; "zero-match keeps the literal token", main.rs:611).
MatchesArePutIn ==
    \A k \in DOMAIN args : args[k].file = 0 /\ Globs(toks[args[k].of]) => Matched(args[k].of) = {}
============================================================================
