----------------------------- MODULE RelayStream -----------------------------
(***************************************************************************)
(* The message stream: post, cursor and purge (relay/src/do/workspace.js). *)
(* sync writes nothing; what it answers is in module RelaySync.            *)
(***************************************************************************)
EXTENDS RelayStore

streamFrame == <<phase, enroll, inflight, minted, clock>>

\* Deviation: no dedupe.
Duplicates_Unchecked(m, cseq) == {}

\* The messages #post finds under the (sender, client_seq) it is given.
Duplicates(m, cseq) == {x \in messages : x.sender = m /\ x.client_seq = cseq}

\* #pruneMessages by age, then by count: the MessageMax highest seqs stay.
PruneMessages(table, now) ==
  LET young == {x \in table : x.at + MessageTtl > now}
  IN {x \in young : Cardinality({y \in young : y.seq > x.seq}) < MessageMax}

NewMessage(m, type, cseq, now) ==
  [seq |-> nextSeq, sender |-> m, type |-> type, client_seq |-> cseq, at |-> now]

\* #post of an envelope that validateEnvelope accepts, whose type is carried
\* and whose from is the caller: stored once, under the next seq.
Post(m, type, cseq, now) ==
  /\ AuthMember(m)
  /\ nextSeq <= MaxSeq
  /\ IF Duplicates(m, cseq) = {}
     THEN /\ nextSeq' = nextSeq + 1
          /\ messages' = PruneMessages(messages \cup {NewMessage(m, type, cseq, now)}, now)
     ELSE UNCHANGED <<nextSeq, messages>>
  /\ UNCHANGED <<members, presence, claims>> /\ UNCHANGED streamFrame

\* Deviation: bounded by next_seq itself.
CursorAccepted_NextSeq(seq) == seq <= nextSeq

\* #cursor: a seq the relay has not issued is refused...
CursorAccepted(seq) == seq < nextSeq

Later(a, b) == IF a >= b THEN a ELSE b

\* ...and an accepted one never moves the member's cursor back.
Cursor(m, seq) ==
  /\ AuthMember(m)
  /\ CursorAccepted(seq)
  /\ members' = [members EXCEPT ![m].cursor = Later(seq, members[m].cursor)]
  /\ UNCHANGED <<nextSeq, presence, claims, messages>> /\ UNCHANGED streamFrame

\* Deviation: the counter dropped with the messages.
SeqAfterPurge_Dropped == 0

\* #purge: the stream, and with {all: true} the leases and presence too.
\* next_seq is kept.
SeqAfterPurge == nextSeq

Purge(all) ==
  /\ Initialized
  /\ messages' = {}
  /\ nextSeq' = SeqAfterPurge
  /\ IF all THEN presence' = {} /\ claims' = [s \in Subjects |-> Free]
            ELSE UNCHANGED <<presence, claims>>
  /\ UNCHANGED members /\ UNCHANGED streamFrame

StreamOp(m) ==
  \/ \E now \in Arrivals, type \in Types, cseq \in 1..MaxClientSeq : Post(m, type, cseq, now)
  \/ \E seq \in 0..MaxSeq + 1 : Cursor(m, seq)
=============================================================================
