-------------------------------- MODULE Http --------------------------------
(***************************************************************************)
(* How a download over plain HTTP reads its reply: user/wget, which       *)
(* streams the body to a file, and plain_get of user/wgets, which keeps   *)
(* it in a buffer.  The reply arrives in chunks of any size behind a       *)
(* socket that does not block: every empty poll counts, and a peer that   *)
(* stays silent for SpinCap polls is given up.                             *)
(*                                                                         *)
(* The reply is a sequence of bytes: those of the header are 0, the i-th  *)
(* byte of the body is the number i.                                       *)
(***************************************************************************)
EXTENDS Integers, Sequences

CONSTANTS
    Replies,    \* what a server may answer: [code, want, head, body] of IsReply
    BufCap,     \* bytes of the buffer the header is staged in
    OutCap,     \* bytes of plain_get's result
    SpinCap     \* empty polls in a row before a read gives up

IsReply(r) ==
    r.code \in Nat /\ r.want \in Nat /\ r.head \in Nat \ {0} /\ r.body \in Nat

ASSUME HttpAssumption ==
    /\ \A r \in Replies : IsReply(r)
    /\ BufCap \in Nat \ {0} /\ OutCap \in Nat \ {0} /\ SpinCap \in Nat

VARIABLES
    user,       \* "wget" or "plain_get"
    reply,      \* the reply of this download
    came,       \* bytes of it that have reached the socket
    taken,      \* bytes of it the program has received
    ended,      \* "open", "eof" or "reset": how the connection stands after what came
    at,         \* where the program is
    kept,       \* body bytes it has in the file or the buffer
    spins       \* empty polls since the last byte

httpVars == <<user, reply, came, taken, ended, at, kept, spins>>

Reading == {"head", "body"}
Verdicts == {"pass", "refused", "header", "status", "length", "write"}

Bytes == reply.head + reply.body
ByteAt(i) == IF i <= reply.head THEN 0 ELSE i - reply.head
BodyOf(first, last) == [i \in 1..(last - first) |-> ByteAt(first + i)]

HttpTypeOK ==
    /\ user \in {"wget", "plain_get"} /\ reply \in Replies
    /\ came \in 0..Bytes /\ taken \in 0..came
    /\ ended \in {"open", "eof", "reset"}
    /\ at \in {"connect"} \cup Reading \cup Verdicts
    /\ kept \in Seq(Nat)
    /\ spins \in 0..SpinCap

HttpInit ==
    /\ user \in {"wget", "plain_get"} /\ reply \in Replies
    /\ came = 0 /\ taken = 0 /\ ended = "open"
    /\ at = "connect" /\ kept = <<>> /\ spins = 0

----------------------------------------------------------------------------
(* The peer and the network *)

Arrive ==
    /\ at \in Reading /\ ended = "open"
    /\ \E n \in (came + 1)..Bytes : came' = n
    /\ UNCHANGED <<user, reply, taken, ended, at, kept, spins>>

\* The peer closes, in the middle of its reply or after it, or the connection breaks.
PeerEnds ==
    /\ at \in Reading /\ ended = "open"
    /\ ended' \in {"eof", "reset"}
    /\ UNCHANGED <<user, reply, came, taken, at, kept, spins>>

----------------------------------------------------------------------------
(* The program *)

Stop(v) == at' = v /\ UNCHANGED <<taken, kept, spins>>
NetStays == UNCHANGED <<user, reply, came, ended>>

Cap == IF user = "wget" THEN BufCap ELSE OutCap

\* Resolving, connecting and sending the request, with their own retries.
Connect ==
    /\ at = "connect"
    /\ Stop("head") \/ Stop("refused")
    /\ NetStays

\* http_split: the status once the empty line has come, 0 before, or if it has no number.
Code == IF taken >= reply.head THEN reply.code ELSE 0

\* What the header says of the body is refused.
LengthRefused == reply.want = 0 \/ (user = "plain_get" /\ reply.want > OutCap)

\* The header is complete: the body bytes staged behind it are kept first.
HeaderRead ==
    /\ at = "head" /\ Code # 0
    /\ \/ Code # 200 /\ Stop("status")
       \/ Code = 200 /\ LengthRefused /\ Stop("length")
       \/ /\ Code = 200 /\ ~LengthRefused
          /\ at' = "body" /\ kept' = BodyOf(reply.head, taken) /\ spins' = 0 /\ taken' = taken
       \/ /\ Code = 200 /\ ~LengthRefused /\ user = "wget"
          /\ Stop("write")
    /\ NetStays

HeaderTooLong ==
    /\ at = "head" /\ Code = 0 /\ taken >= Cap
    /\ Stop("header") /\ NetStays

Wants == \/ at = "head" /\ Code = 0 /\ taken < Cap
         \/ at = "body" /\ Len(kept) < reply.want

\* Room the program offers to recv.
Room ==
    IF at = "head" THEN Cap - taken
    ELSE IF user = "wget" THEN BufCap ELSE reply.want - Len(kept)

\* recv has bytes: a chunk of them is staged, or kept; wget may fail to write it.
Recv ==
    /\ Wants /\ came > taken
    /\ \E n \in 1..(came - taken) :
          /\ n <= Room
          /\ taken' = taken + n
          /\ kept' = IF at = "body" THEN kept \o BodyOf(taken, taken + n) ELSE kept
    /\ spins' = 0
    /\ at' = at \/ (at = "body" /\ user = "wget" /\ at' = "write")
    /\ NetStays

\* Mutant of GivesUp: a body that stops is a body.
GivesUp_Lax == IF at = "head" THEN "status" ELSE "pass"

\* What the loops leave with: a header without its end, a body too short.
GivesUp == IF at = "head" THEN "status" ELSE "length"

\* recv says -2: one more empty poll, the last of them is the end.
PollEmpty ==
    /\ Wants /\ came = taken /\ ended = "open"
    /\ IF spins < SpinCap THEN spins' = spins + 1 /\ UNCHANGED <<at, taken, kept>> ELSE Stop(GivesUp)
    /\ NetStays

\* recv says 0 or another error.
RecvEnds ==
    /\ Wants /\ came = taken /\ ended # "open"
    /\ Stop(GivesUp) /\ NetStays

BodyRead ==
    /\ at = "body" /\ Len(kept) >= reply.want
    /\ Stop(IF Len(kept) = reply.want THEN "pass" ELSE "length")
    /\ NetStays

HttpReads == Connect \/ HeaderRead \/ HeaderTooLong \/ Recv \/ PollEmpty \/ RecvEnds \/ BodyRead

HttpNext ==
    \/ Arrive \/ PeerEnds
    \/ Connect \/ HeaderRead \/ HeaderTooLong \/ Recv \/ PollEmpty \/ RecvEnds \/ BodyRead

HttpSpec == HttpInit /\ [][HttpNext]_httpVars /\ WF_httpVars(HttpReads)

----------------------------------------------------------------------------
(* Properties *)

\* Safety: a download that passes has kept the body its header announces, all of it, each
\* byte once and in order, however the reply was cut into chunks and wherever the header
\* ended in one.  (A server that sends more is refused or not with the chunks it comes in.)
PassIsWhole ==
    at = "pass" => reply.code = 200 /\ kept = BodyOf(reply.head, reply.head + reply.want)

\* A reply the program says it can take.
GoodReply ==
    /\ reply.code = 200 /\ reply.head <= Cap
    /\ reply.body = reply.want /\ reply.want > 0 /\ (user = "plain_get" => reply.want <= OutCap)

\* Safety: a good reply is refused only for a cause: the peer silent for all the polls, or
\* gone before the end of it.  (refused and write are failures of the local system.)
RefusedForCause ==
    at \in {"header", "status", "length"} /\ GoodReply => spins = SpinCap \/ (ended # "open" /\ taken < Bytes)

HttpIsFair == PassIsWhole /\ RefusedForCause

\* Liveness: every download ends, whatever the peer does or leaves undone.
HttpEnds == <>(at \notin Reading \cup {"connect"})
=============================================================================
