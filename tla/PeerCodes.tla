----------------------------- MODULE PeerCodes -----------------------------
(***************************************************************************)
(* Peer with the numbers its messages carry.  Each side matches its own    *)
(* protocols with the capabilities the other announced and lays them out   *)
(* one after another above the base protocol (peer.go:332-352); a code on  *)
(* the wire means something only if both sides arrive at the same layout.  *)
(***************************************************************************)
EXTENDS Peer, Sequences, Functions

CONSTANTS
    Setups,        \* pairs of the protocols of both sides, in the order configured
    NoMessage

\* Names are strings in the code; here a number stands for each, in their order.
ProtocolSpec == [name : Nat, version : Nat, length : Nat]

ASSUME SetupAssumption ==
    \A s \in Setups : s.ours \in Seq(ProtocolSpec) /\ s.theirs \in Seq(ProtocolSpec)

baseProtocolLength == 16

\* Cap.Cmp: by name, then by version.
Before(a, b) == a.name < b.name \/ (a.name = b.name /\ a.version < b.version)

\* Mutant: the capabilities are taken in the order they arrived.
SortsUnsorted(caps) == {caps}

\* What slices.SortFunc may leave, which keeps no order among equals.
Sorts(caps) ==
    {s \in {[i \in DOMAIN caps |-> caps[p[i]]] :
                p \in Bijection(DOMAIN caps, DOMAIN caps)} :
        \A i, j \in DOMAIN s : i < j => ~Before(s[j], s[i])}

Same(protocols, cap) ==
    {i \in DOMAIN protocols : /\ protocols[i].name = cap.name
                              /\ protocols[i].version = cap.version}

\* One capability: a later version of a protocol takes the place of an earlier.
Place(protocols, layout, cap) ==
    LET same   == Same(protocols, cap)
        match  == protocols[CHOOSE i \in same : \A j \in same : i <= j]
        offset == IF cap.name \in DOMAIN layout.result
                  THEN layout.offset - layout.result[cap.name].length
                  ELSE layout.offset
        placed == [offset |-> offset, length |-> match.length, version |-> cap.version]
    IN  IF same = {} THEN layout
        ELSE [offset |-> offset + match.length,
              result |-> [n \in DOMAIN layout.result \cup {cap.name} |->
                             IF n = cap.name THEN placed ELSE layout.result[n]]]

NoLayout == [offset |-> baseProtocolLength, result |-> <<>>]

Layout(protocols, caps) ==
    LET after[i \in 0 .. Len(caps)] ==
            IF i = 0 THEN NoLayout ELSE Place(protocols, after[i-1], caps[i])
    IN  after[Len(caps)]

matchProtocols(protocols, caps) == {Layout(protocols, s).result : s \in Sorts(caps)}

VARIABLES
    running,       \* p.running: offset and length of each protocol
    remote,        \* the layout of the other side
    message        \* the message handle has at hand: which code of which protocol
                   \* the other side wrote, and the code on the wire

codesVars == <<peerVars, running, remote, message>>

CodesInit ==
    /\ PeerInit
    /\ \E s \in Setups :
          /\ running \in matchProtocols(s.ours, s.theirs)
          /\ remote  \in matchProtocols(s.theirs, s.ours)
    /\ message = NoMessage

\* What the other side may send: WriteMsg of one of its protocols, or a code that
\* is nobody's.
Sent(q) ==
    {[name |-> q, code |-> c, wire |-> c + remote[q].offset] : c \in 0 .. remote[q].length - 1}
NobodysCode == [name |-> NoMessage, code |-> 0, wire |-> 99]
Sendable == (UNION {Sent(q) : q \in DOMAIN remote}) \cup {NobodysCode}

getProto(code) ==
    {p \in DOMAIN running : /\ running[p].offset <= code
                            /\ code < running[p].offset + running[p].length}

MessageArrives(m) ==
    /\ IF getProto(m.wire) = {} THEN ReadEnds("failed")
       ELSE \E p \in getProto(m.wire) : ReadMessage(p)
    /\ message' = m
    /\ UNCHANGED <<running, remote>>

MessageLeaves ==
    /\ MessageDropped \/ \E p \in Protocols : Deliver(p)
    /\ message' = NoMessage
    /\ UNCHANGED <<running, remote>>

OtherStep ==
    /\ \/ RunStep \/ ReadStep \/ PingStep \/ WireBreaks
       \/ \E p \in Protocols : ProtocolStep(p)
       \/ \E c \in Callers : CallerStep(c)
    /\ UNCHANGED <<running, remote, message>>

CodesNext == (\E m \in Sendable : MessageArrives(m)) \/ MessageLeaves \/ OtherStep

CodesSpec == CodesInit /\ [][CodesNext]_codesVars

LiveCodesSpec == CodesSpec /\ PeerFairness

\* A version of a protocol that both sides have is as long on both: the two
\* programs mean the same by it.  Neither can check that, a capability has no length.
SameLengths(ours, theirs) ==
    \A i \in DOMAIN ours, j \in DOMAIN theirs :
        ours[i].name = theirs[j].name /\ ours[i].version = theirs[j].version
            => ours[i].length = theirs[j].length

LengthsAgree == \A s \in Setups : SameLengths(s.ours, s.theirs)

\* Whatever order and versions the two sides announce, a message goes to the
\* protocol that wrote it, which reads the code that was written
\* (peer.go:332-352, 378-385, 404, 419).
CodesAgree ==
    message # NoMessage /\ message.name # NoMessage =>
        /\ offered = {message.name}
        /\ message.wire - running[message.name].offset = message.code
        /\ running[message.name].version = remote[message.name].version
=============================================================================
