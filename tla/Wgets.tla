------------------------------- MODULE Wgets --------------------------------
(***************************************************************************)
(* user/wgets, the downloader over TLS 1.3, with the protocol of           *)
(* user-lib/guest-tls: the clock and the root certificate come over plain  *)
(* HTTP, the root is pinned in /pkg/rootcert by the first run that fetches *)
(* it and compared by the others, then one handshake and one GET.  A run   *)
(* may be killed anywhere, and the server may change between two runs.    *)
(*                                                                         *)
(* Cryptography is what it promises.  A key is the direction, the phase    *)
(* and the handshake messages it is derived from, a record opens under the *)
(* key and the sequence number it was sealed with, a signature or a        *)
(* Finished names its key and the messages it covers.  Every handshake     *)
(* message of the flight is two pieces, so that records can cut one.      *)
(***************************************************************************)
EXTENDS Integers, Sequences, FiniteSets, SequencesExt

CONSTANTS
    Servers,    \* servers a run may meet: see IsServer
    Body,       \* the body of the page
    CertLen,    \* bytes of a root certificate, for the writes that pin it
    StageCap,   \* pieces of handshake messages the client can stage
    HeadCap,    \* bytes of a header it can stage
    MinEpoch,   \* the earliest clock it believes
    Slop,       \* what it allows a certificate's dates to be off
    MaxTlsRuns, \* runs of the program
    MaxTlsFaults   \* records lost, repeated or damaged on the way

IsCert(c) ==
    /\ c.ca \in BOOLEAN /\ c.usage \in BOOLEAN /\ c.ip \in BOOLEAN
    /\ c.from \in Nat /\ c.to \in Nat

\* A server: what it says the time is, its root certificate, the certificates it sends, its
\* leaf first, and the key it signs with, whether its hello is one of TLS 1.3, the messages of its flight and where records cut them, the
\* change_cipher_spec and the tickets it sends, its header and the length in it, and the
\* pieces of the page per record.
IsServer(s) ==
    /\ s.epoch \in Nat /\ IsCert(s.root) /\ \A i \in DOMAIN s.certs : IsCert(s.certs[i])
    /\ s.suits \in BOOLEAN /\ s.extra \in BOOLEAN /\ s.ccs \in BOOLEAN /\ s.tickets \in Nat
    /\ s.code \in Nat /\ s.head \in Nat \ {0} /\ s.want \in Nat

ASSUME WgetsAssumption ==
    /\ \A s \in Servers : IsServer(s)
    /\ CertLen \in Nat \ {0} /\ StageCap \in Nat /\ HeadCap \in Nat /\ MinEpoch \in Nat
    /\ Slop \in Nat /\ MaxTlsRuns \in Nat /\ MaxTlsFaults \in Nat

VARIABLES
    pin,        \* /pkg/rootcert: [root, n], the first n bytes of that root, or NoPin
    srv,        \* the server of this run
    pc,         \* where the run is
    wire,       \* records on their way to the client
    shut,       \* the connection has ended behind them
    hello,      \* the ServerHello, as the client has read it
    stage,      \* pieces of handshake messages staged
    seqRx,      \* records opened under the key of the phase
    hdr,        \* header bytes read
    out,        \* the output file, as pieces of the page
    runs,       \* runs started
    tlsFaults,  \* faults met so far
    touched     \* this run met one, or a failure of the local system

tlsVars == <<pin, srv, pc, wire, shut, hello, stage, seqRx, hdr, out, runs, tlsFaults, touched>>
connVars == <<wire, shut, hello, stage, seqRx, hdr>>

Stages == {"time", "root", "pinning", "connect", "hello", "flight", "verify", "finish", "get", "body"}
Ends == {"idle", "pass", "fail"}
NoPin == [root |-> "none", n |-> 0]
NoHello == 0

----------------------------------------------------------------------------
(* Messages, keys and records *)

Msg(kind, what) == [kind |-> kind, what |-> what]
ClientHello == Msg(1, runs)
ServerHello(n) == Msg(2, n)
Transcript(sh, msgs) == <<ClientHello, ServerHello(sh)>> \o msgs

Key(dir, phase, transcript) == <<dir, phase, transcript>>
Sealed(key, seq, inner, data) ==
    [type |-> 23, key |-> key, seq |-> seq, inner |-> inner, data |-> data, whole |-> TRUE]
Clear(type, data) ==
    [type |-> type, key |-> <<>>, seq |-> 0, inner |-> type, data |-> data, whole |-> TRUE]

\* Mutant of Opens: a number the record was not sealed with opens it too.
Opens_AnySeq(key, seq, rec) == rec.type = 23 /\ rec.whole /\ rec.key = key

\* open: the record is one of application data, sealed under this key with this number.
Opens(key, seq, rec) == rec.type = 23 /\ rec.whole /\ rec.key = key /\ rec.seq = seq

\* The server's flight after its hello: EncryptedExtensions, Certificate, CertificateVerify
\* over the transcript up to the certificate, Finished over the one up to that; a server
\* may put a message of another kind before its certificate.
Flight(s, sh) ==
    LET ee == Msg(8, {}) extra == IF s.extra THEN <<Msg(13, {})>> ELSE <<>>
        upToCert == <<ee>> \o extra \o <<Msg(11, s.certs)>>
        cv == Msg(15, <<s.signs, Transcript(sh, upToCert)>>)
        fin == Msg(20, <<Key("s", "hs", Transcript(sh, <<>>)), Transcript(sh, Append(upToCert, cv))>>)
    IN upToCert \o <<cv, fin>>

Pieces(msgs) == [i \in 1..(2 * Len(msgs)) |-> [msg |-> msgs[(i + 1) \div 2], half |-> (i + 1) % 2]]

\* The runs of a sequence between cuts, each the data of a record of its own.
Cut(seq, cuts) ==
    LET ends == {c \in cuts : c < Len(seq)} \cup {Len(seq)}
        EndOf(i) == CHOOSE e \in ends : Cardinality({d \in ends : d <= e}) = i
    IN [i \in 1..Cardinality(ends) |-> SubSeq(seq, (IF i = 1 THEN 0 ELSE EndOf(i - 1)) + 1, EndOf(i))]

SealAll(key, first, inner, parts) ==
    [i \in DOMAIN parts |-> Sealed(key, first + i - 1, inner, parts[i])]

ServerFlight(s, sh) ==
    <<Clear(22, sh)>> \o (IF s.ccs THEN <<Clear(20, 0)>> ELSE <<>>)
    \o SealAll(Key("s", "hs", Transcript(sh, <<>>)), 0, 22, Cut(Pieces(Flight(s, sh)), s.cuts))

\* The page: header bytes, all of them 0 but the last, which is -1, then the body.
Page(s) == [i \in 1..s.head |-> IF i = s.head THEN -1 ELSE 0] \o Body

\* Tickets are handshake messages under the key of the data, numbered with it.
ServerReply(s, sh) ==
    LET key == Key("s", "ap", Transcript(sh, Flight(s, sh)))
    IN SealAll(key, 0, 22, [i \in 1..s.tickets |-> <<>>])
       \o SealAll(key, s.tickets, 23, Cut(Page(s), s.bodyCuts))

----------------------------------------------------------------------------
(* A run, up to its connection *)

FailRun == pc' = "fail"
FailsAt(place) == pc = place /\ FailRun /\ UNCHANGED <<connVars, pin, out>>
RunStays == UNCHANGED <<srv, runs, tlsFaults>>
NoTouch == UNCHANGED touched
Whole(root) == [root |-> root.name, n |-> CertLen]

WgetsInit ==
    /\ pin = NoPin /\ srv \in Servers /\ pc = "idle" /\ wire = <<>> /\ shut = FALSE
    /\ hello = NoHello /\ stage = <<>> /\ seqRx = 0 /\ hdr = 0 /\ out = <<>>
    /\ runs = 0 /\ tlsFaults = 0 /\ touched = FALSE

StartRun ==
    /\ pc \in Ends /\ runs < MaxTlsRuns
    /\ srv' \in Servers /\ runs' = runs + 1 /\ pc' = "time" /\ touched' = FALSE
    /\ wire' = <<>> /\ shut' = FALSE /\ hello' = NoHello /\ stage' = <<>> /\ seqRx' = 0 /\ hdr' = 0
    /\ UNCHANGED <<pin, out, tlsFaults>>

\* The clock is what the server says, unless that is absurd.
GetTime ==
    /\ pc = "time"
    /\ pc' = IF srv.epoch < MinEpoch THEN "fail" ELSE "root"
    /\ UNCHANGED <<connVars, pin, out>> /\ RunStays /\ NoTouch

\* Mutant of PinAgrees: the bytes of the pin are compared, not how many there are.
PinAgrees_Prefix(root) == pin.root = root.name \/ pin.n = 0

\* The root certificate: compared with the pin if there is one, else the pin is created.
PinAgrees(root) == pin = Whole(root)

GetRoot ==
    /\ pc = "root"
    /\ \/ /\ pin = NoPin
          /\ pin' = [root |-> srv.root.name, n |-> 0] /\ pc' = "pinning"
       \/ /\ pin # NoPin
          /\ pc' = IF PinAgrees(srv.root) THEN "connect" ELSE "fail"
          /\ UNCHANGED pin
    /\ UNCHANGED <<connVars, out>> /\ RunStays /\ NoTouch

\* One write of the loop that pins, of any length.
WritePin ==
    /\ pc = "pinning"
    /\ \E n \in (pin.n + 1)..CertLen :
          /\ pin' = [pin EXCEPT !.n = n]
          /\ pc' = IF n = CertLen THEN "connect" ELSE "pinning"
    /\ UNCHANGED <<connVars, out>> /\ RunStays /\ NoTouch

\* The connection is made and the ClientHello sent: the server answers with its flight.
SendHello ==
    /\ pc = "connect"
    /\ pc' = "hello" /\ wire' = ServerFlight(srv, runs)
    /\ UNCHANGED <<pin, shut, hello, stage, seqRx, hdr, out>> /\ RunStays /\ NoTouch

\* A fetch, a connection, a send, a write or getrandom fails.
LocalFailure ==
    /\ \E p \in {"time", "root", "pinning", "connect", "finish", "get", "body"} : FailsAt(p)
    /\ touched' = TRUE /\ RunStays

----------------------------------------------------------------------------
(* The handshake *)

Next1 == Head(wire)
TakeRecord == wire # <<>> /\ wire' = Tail(wire)

\* read_record finds the end of the connection, or waits for a record nobody sends.
NoRecord ==
    /\ pc \in {"hello", "flight"} /\ wire = <<>>
    /\ FailRun /\ UNCHANGED <<connVars, pin, out>> /\ RunStays /\ NoTouch

\* The hello is damaged, or is not one parse_server_hello takes.
MayRefuseHello == ~(Next1.type = 22 /\ Next1.data = runs /\ srv.suits)
MayTakeHello == Next1.type = 22 /\ (Next1.data = runs => srv.suits)

\* The ServerHello is not protected: a damaged one may still parse, to other keys.
ReadHello ==
    /\ pc = "hello" /\ TakeRecord
    /\ \/ MayTakeHello /\ hello' = Next1.data /\ pc' = "flight"
       \/ MayRefuseHello /\ FailRun /\ UNCHANGED hello
    /\ UNCHANGED <<pin, shut, stage, seqRx, hdr, out>> /\ RunStays /\ NoTouch

\* HsMsgs: the complete messages at the front of what is staged.
HsMsgs(pieces) ==
    LET Both(i) == /\ pieces[2 * i - 1].msg = pieces[2 * i].msg
                   /\ pieces[2 * i - 1].half = 0 /\ pieces[2 * i].half = 1
        sizes == {k \in 0..(Len(pieces) \div 2) : \A i \in 1..k : Both(i)}
        most == CHOOSE k \in sizes : \A l \in sizes : l <= k
    IN [i \in 1..most |-> pieces[2 * i].msg]

\* Exactly these four, in this order.
FlightComplete(msgs) ==
    Len(msgs) >= 4 /\ [i \in 1..4 |-> msgs[i].kind] = <<8, 11, 15, 20>>

HsKey(dir) == Key(dir, "hs", Transcript(hello, <<>>))

\* A record of the flight: change_cipher_spec is skipped and not counted.
ReadFlight ==
    /\ pc = "flight" /\ TakeRecord
    /\ \/ /\ Next1.type = 20
          /\ UNCHANGED <<pc, stage, seqRx>>
       \/ /\ Next1.type # 20
          /\ ~Opens(HsKey("s"), seqRx, Next1) \/ Next1.inner # 22
          /\ FailRun /\ UNCHANGED <<stage, seqRx>>
       \/ /\ Opens(HsKey("s"), seqRx, Next1) /\ Next1.inner = 22
          /\ seqRx' = seqRx + 1
          /\ \/ /\ Len(stage) + Len(Next1.data) > StageCap
                /\ FailRun /\ UNCHANGED stage
             \/ /\ Len(stage) + Len(Next1.data) <= StageCap
                /\ stage' = stage \o Next1.data
                /\ pc' = IF FlightComplete(HsMsgs(stage')) THEN "verify" ELSE "flight"
    /\ UNCHANGED <<pin, shut, hello, hdr, out>> /\ RunStays /\ NoTouch

InTime(c, now) == now + Slop >= c.from /\ now <= c.to + Slop

\* verify_chain, with the time the server gave.
VerifyChain(leaf, root, now) ==
    /\ ~leaf.ca /\ root.ca /\ leaf.usage /\ root.usage
    /\ InTime(leaf, now) /\ InTime(root, now)
    /\ leaf.issuer = root.name /\ leaf.ip
    /\ root.by = root.name /\ leaf.by = root.name

\* parse_certificate: the first of the list is the leaf, the others are ignored.
ParseCertificate(msgs) == msgs[2].what[1]

SignedByLeaf(msgs) ==
    msgs[3].what = <<ParseCertificate(msgs).name, Transcript(hello, SubSeq(msgs, 1, 2))>>

FinishedHolds(msgs) == msgs[4].what = <<HsKey("s"), Transcript(hello, SubSeq(msgs, 1, 3))>>

\* Mutant of FlightHolds: the signature is not checked, the Finished will tell.
FlightHolds_NoSignature(msgs) ==
    /\ msgs[2].what # <<>> /\ VerifyChain(ParseCertificate(msgs), srv.root, srv.epoch)
    /\ FinishedHolds(msgs)

\* The chain, the signature over the transcript by the leaf's key, and the Finished.
FlightHolds(msgs) ==
    /\ msgs[2].what # <<>> /\ VerifyChain(ParseCertificate(msgs), srv.root, srv.epoch)
    /\ SignedByLeaf(msgs) /\ FinishedHolds(msgs)

VerifyFlight ==
    /\ pc = "verify"
    /\ pc' = IF FlightHolds(HsMsgs(stage)) THEN "finish" ELSE "fail"
    /\ UNCHANGED <<connVars, pin, out>> /\ RunStays /\ NoTouch

SeenFlight == SubSeq(HsMsgs(stage), 1, 4)
ApKey(dir) == Key(dir, "ap", Transcript(hello, SeenFlight))

\* Finished: the only record the client seals under its handshake key.
ClientFinished == Sealed(HsKey("c"), 0, 22, <<HsKey("c"), Transcript(hello, SeenFlight)>>)

\* The server reads the Finished with the keys it has, and hangs up if it does not hold.
SendFinished ==
    /\ pc = "finish" /\ pc' = "get"
    /\ LET key == Key("c", "hs", Transcript(runs, <<>>))
       IN shut' = ~(/\ Opens(key, 0, ClientFinished)
                    /\ ClientFinished.data = <<key, Transcript(runs, Flight(srv, runs))>>)
    /\ UNCHANGED <<pin, wire, hello, stage, seqRx, hdr, out>> /\ RunStays /\ NoTouch

----------------------------------------------------------------------------
(* The page *)

\* Mutant of FirstTx: the request goes on from the Finished.
FirstTx_Counted == 1

\* Mutant of FirstRx: the numbers of the handshake go on.
FirstRx_Counted == seqRx

\* The numbers start again with the keys of the data, the client's and the server's.
FirstTx == 0
FirstRx == 0

GetRequest == Sealed(ApKey("c"), FirstTx, 23, "GET")

\* The request is sent and the output file opened; the server answers what it can open.
SendGet ==
    /\ pc = "get" /\ pc' = "body"
    /\ out' = <<>> /\ seqRx' = FirstRx /\ hdr' = 0
    /\ IF ~shut /\ Opens(Key("c", "ap", Transcript(runs, Flight(srv, runs))), 0, GetRequest)
       THEN wire' = wire \o ServerReply(srv, runs) ELSE UNCHANGED wire
    /\ UNCHANGED <<pin, shut, hello, stage>> /\ RunStays /\ NoTouch

HdrDone == hdr > HeadCap

\* Where the header ends in these bytes, or how many there are: http_split, byte by byte.
HeaderEnd(data) ==
    LET ends == {i \in DOMAIN data : data[i] = -1 /\ srv.code # 0}
    IN IF ends = {} THEN Len(data) + 1 ELSE CHOOSE i \in ends : \A j \in ends : i <= j

\* What the run does with the bytes of a record: refuse the header, or keep the body.
TakeBytes(data) ==
    LET end == HeaderEnd(data)
        most == IF end > Len(data) THEN Len(data) ELSE end
    IN \/ /\ HdrDone
          /\ out' = out \o data /\ UNCHANGED <<hdr, pc>>
       \/ /\ ~HdrDone /\ hdr + most > HeadCap
          /\ FailRun /\ UNCHANGED <<hdr, out>>
       \/ /\ ~HdrDone /\ hdr + most <= HeadCap /\ end > Len(data)
          /\ hdr' = hdr + most /\ UNCHANGED <<out, pc>>
       \/ /\ ~HdrDone /\ hdr + most <= HeadCap /\ end <= Len(data)
          /\ IF srv.code # 200 \/ srv.want = 0 THEN FailRun /\ UNCHANGED <<hdr, out>>
             ELSE /\ hdr' = HeadCap + 1 /\ out' = out \o SubSeq(data, end + 1, Len(data))
                  /\ UNCHANGED pc

Enough == HdrDone /\ Len(out) >= srv.want

\* A record of the reply: tickets are counted and skipped.
ReadReply ==
    /\ pc = "body" /\ ~Enough /\ TakeRecord
    /\ \/ /\ ~Opens(ApKey("s"), seqRx, Next1)
          /\ FailRun /\ UNCHANGED <<seqRx, hdr, out>>
       \/ /\ Opens(ApKey("s"), seqRx, Next1)
          /\ seqRx' = seqRx + 1
          /\ \/ Next1.inner = 22 /\ UNCHANGED <<hdr, out, pc>>
             \/ Next1.inner = 23 /\ TakeBytes(Next1.data)
    /\ UNCHANGED <<pin, shut, hello, stage>> /\ RunStays /\ NoTouch

\* The length is met, or the connection ends before it is.
Verdict ==
    /\ pc = "body" /\ (Enough \/ wire = <<>>)
    /\ pc' = IF HdrDone /\ Len(out) = srv.want THEN "pass" ELSE "fail"
    /\ UNCHANGED <<connVars, pin, out>> /\ RunStays /\ NoTouch

----------------------------------------------------------------------------
(* The world around it *)

KillRun ==
    /\ pc \in Stages
    /\ pc' = "idle" /\ UNCHANGED <<connVars, pin, out>> /\ RunStays /\ NoTouch

\* A record on the way is lost, repeated or damaged, or the connection ends before it.
Fault ==
    /\ pc \in Stages /\ tlsFaults < MaxTlsFaults
    /\ \E i \in DOMAIN wire :
          \/ wire' = RemoveAt(wire, i) /\ UNCHANGED shut
          \/ wire' = InsertAt(wire, i, wire[i]) /\ UNCHANGED shut
          \/ /\ wire' = IF wire[i].type = 22 THEN [wire EXCEPT ![i].data = NoHello]
                        ELSE [wire EXCEPT ![i].whole = FALSE]
             /\ UNCHANGED shut
          \/ wire' = SubSeq(wire, 1, i - 1) /\ shut' = TRUE
    /\ tlsFaults' = tlsFaults + 1 /\ touched' = TRUE
    /\ UNCHANGED <<pin, srv, pc, hello, stage, seqRx, hdr, out, runs>>

WgetsNext ==
    \/ StartRun \/ GetTime \/ GetRoot \/ WritePin \/ SendHello \/ LocalFailure
    \/ NoRecord \/ ReadHello \/ ReadFlight \/ VerifyFlight \/ SendFinished
    \/ SendGet \/ ReadReply \/ Verdict
    \/ KillRun \/ Fault

WgetsSpec == WgetsInit /\ [][WgetsNext]_tlsVars

----------------------------------------------------------------------------
(* Properties *)

WgetsTypeOK ==
    /\ srv \in Servers /\ pc \in Stages \cup Ends /\ shut \in BOOLEAN
    /\ pin.n \in 0..CertLen /\ hello \in 0..MaxTlsRuns /\ Len(stage) <= StageCap
    /\ seqRx \in Nat /\ hdr \in 0..(HeadCap + 1) /\ runs \in 0..MaxTlsRuns
    /\ tlsFaults \in 0..MaxTlsFaults /\ touched \in BOOLEAN

HasChain(s) ==
    s.certs # <<>> /\ VerifyChain(s.certs[1], s.root, s.epoch) /\ s.signs = s.certs[1].name

\* A server whose certificates hold at the time it gives, that signs with its own key,
\* sends the four messages and no other, and a page within the client's bounds.
GoodServer(s) ==
    /\ s.epoch >= MinEpoch /\ s.suits /\ HasChain(s)
    /\ ~s.extra /\ StageCap >= 8
    /\ s.code = 200 /\ s.head <= HeadCap /\ s.want = Len(Body) /\ s.want > 0

\* Safety: a run that passes has the whole page in its output file, from a server whose
\* certificates hold and that proved it has the key of its leaf, under a root that is
\* pinned whole: through lost, repeated and damaged records, through runs killed between
\* the two writes of the pin, and whatever server the last run met.
PassedIsVerified ==
    pc = "pass" =>
        /\ out = SubSeq(Body, 1, srv.want) /\ srv.code = 200
        /\ pin = Whole(srv.root)
        /\ HasChain(srv)

\* Safety: what a run has accepted is at every moment the beginning of what its server
\* said, the flight in the handshake and the page after it.
AcceptedIsPrefix ==
    pc \in Stages =>
        /\ hello = runs => IsPrefix(stage, Pieces(Flight(srv, runs)))
        /\ pc = "body" => IsPrefix(out, Body)

\* Safety: a run that meets a good server and no failure passes, unless what it finds
\* pinned is another root or the torn pin of a run that was killed.
FailsForCause ==
    pc = "fail" /\ GoodServer(srv) /\ ~touched => pin # Whole(srv.root)

\* Action property: a root once pinned whole stays, whatever servers come after.
PinIsForGood == [][pin.n = CertLen => pin' = pin]_pin

\* Does not hold: the torn pin of a run killed while it wrote refuses every later run.
TornPinRecovers == pc = "fail" /\ GoodServer(srv) /\ ~touched => pin.n = CertLen
=============================================================================
