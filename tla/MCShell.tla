------------------------------ MODULE MCShell ------------------------------
\* Small instances of the shell's modules and of the downloaders it starts, one of them in
\* a behaviour.
EXTENDS Jobs, LineEdit, Words, Fnmatch, ShellEnv, Http, Wgets

----------------------------------------------------------------------------
(* Constants of Words, Http and Wgets *)

MCValue == <<"*", "'">>
MCFiles == {<<"x">>, <<"x", "x">>, <<"*", "x">>}

Reply(c, w, h, b) == [code |-> c, want |-> w, head |-> h, body |-> b]
MCReplies == {Reply(c, w, h, b) : c \in {0, 200, 404}, w \in {0, 1, 3}, h \in {1, 3, 4}, b \in {1, 3}}

Cert(n, by, ca, first, last) ==
    [name |-> n, by |-> by, issuer |-> by, ca |-> ca, usage |-> TRUE,
     from |-> first, to |-> last, ip |-> ~ca]

Leaf(n, by) == Cert(n, by, FALSE, 2, 5)

Usual == [epoch |-> 3, root |-> Cert("r1", "r1", TRUE, 0, 9), certs |-> <<Leaf("l1", "r1")>>,
          signs |-> "l1", suits |-> TRUE, extra |-> FALSE, ccs |-> TRUE, tickets |-> 1, cuts |-> {3, 6},
          code |-> 200, head |-> 2, want |-> 3, bodyCuts |-> {1, 3}]

\* The root has changed; another server has the leaf's name and not its key.
Moved == [Usual EXCEPT !.root = Cert("r2", "r2", TRUE, 0, 9), !.certs = <<Leaf("l2", "r2"), Leaf("l1", "r1")>>,
                       !.signs = "l2", !.cuts = {}, !.tickets = 0, !.bodyCuts = {}]
Other == [Usual EXCEPT !.signs = "l2"]

MCServers ==
    {Usual, Moved, Other}
    \cup {[Usual EXCEPT !.epoch = t] : t \in {0, 6, 7}}
    \cup {[Usual EXCEPT !.code = c] : c \in {0, 404}}
    \cup {[Usual EXCEPT !.want = w, !.ccs = FALSE, !.cuts = {2, 4, 6}] : w \in {0, 2, 4}}
    \cup {[Usual EXCEPT !.extra = TRUE], [Usual EXCEPT !.head = 4],
          [Usual EXCEPT !.certs = <<>>], [Usual EXCEPT !.suits = FALSE],
          [Usual EXCEPT !.certs = <<[Leaf("l1", "r1") EXCEPT !.ip = FALSE]>>],
          [Usual EXCEPT !.certs = <<[Leaf("l1", "r1") EXCEPT !.by = "r2"]>>]}

MCBody == <<1, 2, 3>>

----------------------------------------------------------------------------

VARIABLE part

shellVars == <<part, jobVars, editVars, wordVars, fnVars, envVars, httpVars, tlsVars>>

ShellInit ==
    /\ part \in {"jobs", "editor", "words", "patterns", "environment", "download", "tls"}
    /\ part # "jobs" => par = [p \in Pids |-> Nobody]
    /\ part # "words" => text = <<>>
    /\ part # "patterns" => pat = <<>> /\ name = <<>>
    /\ part # "download" => user = "wget" /\ reply = Reply(200, 1, 1, 1)
    /\ part # "tls" => srv = Usual
    /\ JobsInit /\ EditInit /\ WordsInit /\ FnInit /\ ShellEnvInit /\ HttpInit /\ WgetsInit

AndNet == <<part, httpVars, tlsVars>>

OfJobs(A) == part = "jobs" /\ A /\ UNCHANGED <<editVars, wordVars, fnVars, envVars, AndNet>>
Editing   == part = "editor" /\ EditNext /\ UNCHANGED <<jobVars, wordVars, fnVars, envVars, AndNet>>
Parsing  == part = "words" /\ WordsNext /\ UNCHANGED <<jobVars, editVars, fnVars, envVars, AndNet>>
Matching  == part = "patterns" /\ FnNext /\ UNCHANGED <<jobVars, editVars, wordVars, envVars, AndNet>>
Exporting ==
    part = "environment" /\ ShellEnvNext /\ UNCHANGED <<jobVars, editVars, wordVars, fnVars, AndNet>>

OfPrograms == <<part, jobVars, editVars, wordVars, fnVars, envVars>>
Fetching  == part = "download" /\ HttpNext /\ UNCHANGED <<OfPrograms, tlsVars>>
Securing  == part = "tls" /\ WgetsNext /\ UNCHANGED <<OfPrograms, httpVars>>

ShellNext ==
    OfJobs(JobsNext) \/ Editing \/ Parsing \/ Matching \/ Exporting \/ Fetching \/ Securing

\* The fairness of FairJobsSpec and of HttpSpec.
ShellSpec ==
    /\ ShellInit /\ [][ShellNext]_shellVars
    /\ WF_shellVars(OfJobs(ShellRuns /\ ShellSteps))
    /\ \A p \in Pids : WF_shellVars(OfJobs(AwaitedEnds(p)))
    /\ WF_shellVars(part = "download" /\ HttpReads /\ UNCHANGED <<OfPrograms, tlsVars>>)

----------------------------------------------------------------------------

\* Liveness: PromptReturns of Jobs, in its behaviours, and OneShell with it: the prompt is
\* that of one shell, the one init started last.  A download is waited for too: HttpEnds.
PromptComesBack ==
    /\ OneShell
    /\ part = "jobs" => PromptReturns
    /\ part = "download" => HttpEnds

\* Safety: the screen shows the line that is edited, the history its recent ones; the passes
\* that cut a line at its operators and split it into words see the same quotes, no word is
\* lost or overtaken and no buffer overrun; fnmatch() says of a pattern and a name what the
\* pattern means; a variable has the value it was given last.
LineIsUnderstood ==
    /\ ScreenIsLine /\ HistoryIsRecent
    /\ QuotesSeenAlike /\ WordsArrive /\ BuffersFit /\ VerdictIsMatch
    /\ EnvIsMeant

\* Safety: a download that is said to have passed has the whole page, from the server that
\* was meant.
DownloadsAreWhole == HttpTypeOK /\ WgetsTypeOK /\ HttpIsFair /\ PassedIsVerified /\ AcceptedIsPrefix
============================================================================
