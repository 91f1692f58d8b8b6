------------------------------ MODULE LineEdit ------------------------------
(***************************************************************************)
(* The shell's line editor and history (user/sh/src/main.rs: Hist,         *)
(* read_edit, redraw): keys come one by one, the up and down keys walk the *)
(* ring of past lines and keep the line that was being typed, and every    *)
(* change is echoed to a terminal that knows carriage return, backspace    *)
(* and erase to end of line.                                               *)
(***************************************************************************)
EXTENDS Naturals, Sequences

CONSTANTS
    Keys,      \* printable characters
    LineCap,   \* 127: characters of a line
    HistCap,   \* 16: lines of the ring
    MaxPast   \* bound of the model: lines put in the history

ASSUME LineEditAssumption == {LineCap, HistCap, MaxPast} \subseteq Nat \ {0} /\ " " \notin Keys

VARIABLES
    buf,       \* the line: buf[..len]
    nav,       \* 0 at the draft, else the depth in the history
    draft, saved,
    ring,      \* Hist: 0 .. HistCap - 1 -> line
    pushed,    \* Hist.n
    row, col,  \* the terminal after the prompt: cells, and cells before the cursor
    past       \* every line put in the history, in order

editVars == <<buf, nav, draft, saved, ring, pushed, row, col, past>>

EditInit ==
    /\ buf = <<>> /\ nav = 0 /\ draft = <<>> /\ saved = FALSE
    /\ ring = [i \in 0 .. HistCap - 1 |-> <<>>] /\ pushed = 0
    /\ row = <<>> /\ col = 0 /\ past = <<>>

----------------------------------------------------------------------------
(* The terminal *)

\* c where the cursor is.
Over(r, k, c) == [i \in 1 .. (IF k = Len(r) THEN k + 1 ELSE Len(r)) |-> IF i = k + 1 THEN c ELSE r[i]]

Echo(c) == row' = Over(row, col, c) /\ col' = col + 1

\* Backspace, blank, backspace.
Rubout == row' = Over(row, col - 1, " ") /\ col' = col - 1

\* Mutant: what stood behind the line stays.
Shown_Over(line) == line \o SubSeq(row, Len(line) + 1, Len(row))

\* Carriage return, the prompt, the line, erase to the end.
Shown(line) == line

Redraw(line) == row' = Shown(line) /\ col' = Len(line)

----------------------------------------------------------------------------
(* The history *)

\* Mutant: the ring is taken for a list.
At_Listed(k) == (IF pushed < HistCap THEN pushed ELSE HistCap) - k

At_(k) == (pushed - k) % HistCap

Available == IF pushed < HistCap THEN pushed ELSE HistCap

\* push(): not empty, and not the last line again.
Fresh(line) == line # <<>> /\ (pushed = 0 \/ ring[(pushed - 1) % HistCap] # line)

Push(line) ==
    IF Fresh(line)
      THEN /\ ring' = [ring EXCEPT ![pushed % HistCap] = line]
           /\ pushed' = pushed + 1 /\ past' = Append(past, line)
      ELSE UNCHANGED <<ring, pushed, past>>

----------------------------------------------------------------------------
(* Keys *)

Type(c) ==
    /\ IF Len(buf) < LineCap THEN buf' = Append(buf, c) /\ Echo(c) ELSE UNCHANGED <<buf, row, col>>
    /\ UNCHANGED <<nav, draft, saved, ring, pushed, past>>

Backspace ==
    /\ buf # <<>>
    /\ buf' = SubSeq(buf, 1, Len(buf) - 1) /\ Rubout
    /\ UNCHANGED <<nav, draft, saved, ring, pushed, past>>

\* The first step up keeps the draft.
Up ==
    /\ nav < Available
    /\ IF saved THEN UNCHANGED <<draft, saved>> ELSE draft' = buf /\ saved' = TRUE
    /\ nav' = nav + 1
    /\ buf' = ring[At_(nav + 1)] /\ Redraw(buf')
    /\ UNCHANGED <<ring, pushed, past>>

Down ==
    /\ nav > 0
    /\ nav' = nav - 1
    /\ buf' = (IF nav = 1 THEN draft ELSE ring[At_(nav - 1)]) /\ Redraw(buf')
    /\ UNCHANGED <<draft, saved, ring, pushed, past>>

\* read_edit() is left and called again for the next line.
Anew == buf' = <<>> /\ nav' = 0 /\ draft' = <<>> /\ saved' = FALSE

EndLine ==
    /\ Fresh(buf) => pushed < MaxPast
    /\ Push(buf) /\ Anew
    /\ row' = <<>> /\ col' = 0

\* read() gives nothing on an empty line: the prompt loop comes around.
NoInput ==
    /\ buf = <<>> /\ saved
    /\ Anew
    /\ UNCHANGED <<ring, pushed, row, col, past>>

EditNext == (\E c \in Keys : Type(c)) \/ Backspace \/ Up \/ Down \/ EndLine \/ NoInput

EditSpec == EditInit /\ [][EditNext]_editVars

----------------------------------------------------------------------------

\* Safety.  The terminal shows the line being edited: what is left of the cursor is
\* the line, and what is right of it is blank (echo, "\b \b", redraw).
ScreenIsLine ==
    /\ SubSeq(row, 1, col) = buf
    /\ \A i \in col + 1 .. Len(row) : row[i] = " "

\* Safety.  The up key finds the lines given last, the newest first, however often the
\* ring has gone around (Hist::push, Hist::get_rel).
HistoryIsRecent ==
    \A k \in 1 .. Available : ring[At_(k)] = past[Len(past) + 1 - k]

\* Does not hold: a draft is kept once, and a later one of the same line is lost.
DraftComesBack == [][nav = 0 /\ nav' = 1 => draft' = buf]_editVars
============================================================================
