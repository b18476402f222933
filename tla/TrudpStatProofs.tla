--------------------------- MODULE TrudpStatProofs ---------------------------
(***************************************************************************)
(* Theorems about TrudpStat for every value of its constants: what the     *)
(* columns of the statistics table add up to, within one table and between *)
(* the tables of the two ends.                                             *)
(*                                                                         *)
(* The book of an end is what it counts and what is there to be counted.   *)
(* Every action is an entry in the books of two ends, and an entry keeps   *)
(* them balanced: that is arithmetic, and the first section.  The sections *)
(* after it show which entry each action of the session makes.             *)
(***************************************************************************)
EXTENDS TrudpStat, TrudpChannelProofs

-----------------------------------------------------------------------------
\* The book of an end

\* n's payloads that wait in its write queue, and the copies of its peer's
\* payloads that are on the path w
Waiting(n) == {p.data : p \in ToSet(writeQueue[n])}
CopiesOn(w) == {w[i].data : i \in PlacesOf(w, {"DATA"})}

\* n's payloads that are neither waiting nor on their way nor received: every
\* copy that left was lost.
Covered(n) == Waiting(n) \cup Received(Peer[n]) \cup CopiesOn(wire[Peer[n]])
Uncovered(n) == (1 .. sent[n]) \ Covered(n)

\* its counters, its queue, what it sent and got, and the path towards it
Book(k) ==
    [send |-> stat[k].packets_send, again |-> stat[k].packets_attempt,
     ack |-> stat[k].ack_receive, recv |-> stat[k].packets_receive,
     drop |-> stat[k].packets_receive_dropped,
     flushed |-> flushed[k], waits |-> Len(writeQueue[k]),
     sent |-> sent[k], pings |-> pings[k], got |-> Cardinality(Received(k)),
     load |-> Len(wire[k]), data |-> NumberOf(wire[k], {"DATA"}),
     acks |-> NumberOf(wire[k], {"ACK"}),
     ping |-> pingWire[k].ping, pong |-> pingWire[k].ack,
     copies |-> lost[k].copies, answers |-> lost[k].answers,
     gone |-> Cardinality(Uncovered(k))]

Books == [send : Nat, again : Nat, ack : Nat, recv : Nat, drop : Nat,
          flushed : Nat, waits : Nat, sent : Nat, pings : Nat, got : Nat,
          load : Nat, data : Nat, acks : Nat, ping : Nat, pong : Nat,
          copies : Nat, answers : Nat, gone : Nat]

\* x's copies and where they are, with y the book of the other end
CopiesAdd(x, y) ==
    x.send + x.again + x.flushed = y.recv + y.drop + y.data + y.ping + y.copies

\* the answers to what x received; y counts a PING it received as one more
AnswersAdd(x, y) ==
    x.recv + x.drop + y.recv = y.ack + y.got + y.acks + y.pong + y.answers

\* No more PINGs of x came than it sent, and every payload of x that is nowhere
\* any more cost a lost copy.
PingsBound(x, y) == y.recv + y.ping <= y.got + x.pings
GonePaid(x, y) == x.gone + x.pings + y.got <= y.recv + y.ping + y.copies

\* What is on the paths or waits was sent or sent again.
LoadPaid(x, y) ==
    x.load + y.load + x.waits + y.waits <= x.sent + y.sent + x.again + y.again

Balanced(x, y) ==
    /\ CopiesAdd(x, y) /\ AnswersAdd(x, y) /\ PingsBound(x, y)
    /\ GonePaid(x, y) /\ LoadPaid(x, y)

BothBalanced(x, y) == Balanced(x, y) /\ Balanced(y, x)

-----------------------------------------------------------------------------
\* The entries of x, the end that acts, and of its peer y, with v and w their
\* books after it.

Lines == {"send", "again", "ack", "recv", "drop", "flushed", "waits", "sent", "pings",
          "got", "load", "data", "acks", "ping", "pong", "copies", "answers"}

\* One more in the lines up, one less in the lines down
Turn(x, v, up, down) ==
    \A q \in Lines :
        v[q] = IF q \in up THEN x[q] + 1 ELSE IF q \in down THEN x[q] - 1 ELSE x[q]

Post(x, y, v, w, up, down, peers) == Turn(x, v, up, down) /\ Turn(y, w, peers, {})

\* Payloads that were nowhere may have appeared.
Fewer(x, v) == v.gone \in Nat /\ v.gone <= x.gone

EntrySent(x, y, v, w) == Post(x, y, v, w, {"send", "sent"}, {}, {"load", "data"})
EntryKept(x, y, v, w) == Post(x, y, v, w, {"sent", "waits"}, {}, {})
EntryAgain(x, y, v, w) == Post(x, y, v, w, {"again"}, {}, {"load", "data"})
EntryFlushed(x, y, v, w) == Post(x, y, v, w, {"flushed"}, {"waits"}, {"load", "data"})
EntryAck(x, y, v, w) == Post(x, y, v, w, {"ack"}, {"acks", "load"}, {})
EntryAckRefill(x, y, v, w) ==
    Post(x, y, v, w, {"ack", "send"}, {"acks", "load", "waits"}, {"load", "data"})
EntryReceived(x, y, v, w) ==
    Post(x, y, v, w, {"recv", "got"}, {"data", "load"}, {"load", "acks"})
EntryDropped(x, y, v, w) == Post(x, y, v, w, {"drop"}, {"data", "load"}, {"load", "acks"})
EntryPing(x, y, v, w) == Post(x, y, v, w, {"send", "pings"}, {}, {"ping"})
EntryPinged(x, y, v, w) == Post(x, y, v, w, {"recv", "ack"}, {"ping"}, {"pong"})
EntryPonged(x, y, v, w) == Post(x, y, v, w, {"ack"}, {"pong"}, {})
EntryLostCopy(x, y, v, w) == Post(x, y, v, w, {"copies"}, {"data", "load"}, {})
EntryLostAnswer(x, y, v, w) == Post(x, y, v, w, {"answers"}, {"acks", "load"}, {})
EntryLostPing(x, y, v, w) == Post(x, y, v, w, {"copies"}, {"ping"}, {})
EntryLostPong(x, y, v, w) == Post(x, y, v, w, {"answers"}, {"pong"}, {})

\* Only a lost copy can leave a payload nowhere.
Entry(x, y, v, w) ==
    \/ /\ Fewer(x, v) /\ Fewer(y, w)
       /\ \/ EntrySent(x, y, v, w) \/ EntryKept(x, y, v, w) \/ EntryAgain(x, y, v, w)
          \/ EntryFlushed(x, y, v, w) \/ EntryAck(x, y, v, w) \/ EntryAckRefill(x, y, v, w)
          \/ EntryReceived(x, y, v, w) \/ EntryDropped(x, y, v, w)
          \/ EntryPing(x, y, v, w) \/ EntryPinged(x, y, v, w) \/ EntryPonged(x, y, v, w)
          \/ EntryLostAnswer(x, y, v, w)
          \/ EntryLostPing(x, y, v, w) \/ EntryLostPong(x, y, v, w)
    \/ /\ Fewer(x, v) /\ w.gone \in Nat /\ w.gone <= y.gone + 1
       /\ EntryLostCopy(x, y, v, w)

\* The book x, line by line
Reads(x, n1, n2, n3, n4, n5, n6, n7, n8, n9,
         n10, n11, n12, n13, n14, n15, n16, n17, n18) ==
    /\ x.send = n1 /\ x.again = n2 /\ x.ack = n3 /\ x.recv = n4 /\ x.drop = n5 /\ x.flushed = n6
    /\ x.waits = n7 /\ x.sent = n8 /\ x.pings = n9 /\ x.got = n10 /\ x.load = n11 /\ x.data = n12
    /\ x.acks = n13 /\ x.ping = n14 /\ x.pong = n15 /\ x.copies = n16 /\ x.answers = n17 /\ x.gone = n18

LEMMA EntryBalances ==
    ASSUME NEW x \in Books, NEW y \in Books, NEW v, NEW w,
           BothBalanced(x, y), Entry(x, y, v, w)
    PROVE  BothBalanced(v, w)
<1>1. PICK a1 \in Nat, a2 \in Nat, a3 \in Nat, a4 \in Nat, a5 \in Nat, a6 \in Nat,
           a7 \in Nat, a8 \in Nat, a9 \in Nat, a10 \in Nat, a11 \in Nat, a12 \in Nat,
           a13 \in Nat, a14 \in Nat, a15 \in Nat, a16 \in Nat, a17 \in Nat, a18 \in Nat :
        Reads(x, a1, a2, a3, a4, a5, a6, a7, a8, a9, a10, a11, a12, a13, a14, a15, a16, a17,
              a18)
  BY DEF Books, Reads
<1>2. PICK b1 \in Nat, b2 \in Nat, b3 \in Nat, b4 \in Nat, b5 \in Nat, b6 \in Nat,
           b7 \in Nat, b8 \in Nat, b9 \in Nat, b10 \in Nat, b11 \in Nat, b12 \in Nat,
           b13 \in Nat, b14 \in Nat, b15 \in Nat, b16 \in Nat, b17 \in Nat, b18 \in Nat :
        Reads(y, b1, b2, b3, b4, b5, b6, b7, b8, b9, b10, b11, b12, b13, b14, b15, b16, b17,
              b18)
  BY DEF Books, Reads
<1>3. PICK g, h : g = v.gone /\ h = w.gone
  OBVIOUS
<1>4. /\ g \in Nat /\ h \in Nat /\ g <= a18
      /\ h <= b18 \/ (h <= b18 + 1 /\ EntryLostCopy(x, y, v, w))
  BY <1>1, <1>2, <1>3 DEF Entry, Fewer, Reads
<1> USE DEF BothBalanced, Balanced, CopiesAdd, AnswersAdd, PingsBound, GonePaid, LoadPaid
<1>5. ASSUME EntrySent(x, y, v, w), h <= b18 PROVE BothBalanced(v, w)
  <2>1. /\ Reads(v, a1 + 1, a2, a3, a4, a5, a6, a7, a8 + 1, a9, a10, a11, a12, a13, a14,
                 a15, a16, a17, g)
        /\ Reads(w, b1, b2, b3, b4, b5, b6, b7, b8, b9, b10, b11 + 1, b12 + 1, b13, b14,
                 b15, b16, b17, h)
    BY <1>1, <1>2, <1>3, <1>5 DEF EntrySent, Post, Turn, Lines, Reads
  <2> QED BY <1>1, <1>2, <1>4, <1>5, <2>1 DEF Reads
<1>6. ASSUME EntryKept(x, y, v, w), h <= b18 PROVE BothBalanced(v, w)
  <2>1. /\ Reads(v, a1, a2, a3, a4, a5, a6, a7 + 1, a8 + 1, a9, a10, a11, a12, a13, a14,
                 a15, a16, a17, g)
        /\ Reads(w, b1, b2, b3, b4, b5, b6, b7, b8, b9, b10, b11, b12, b13, b14, b15, b16,
                 b17, h)
    BY <1>1, <1>2, <1>3, <1>6 DEF EntryKept, Post, Turn, Lines, Reads
  <2> QED BY <1>1, <1>2, <1>4, <1>6, <2>1 DEF Reads
<1>7. ASSUME EntryAgain(x, y, v, w), h <= b18 PROVE BothBalanced(v, w)
  <2>1. /\ Reads(v, a1, a2 + 1, a3, a4, a5, a6, a7, a8, a9, a10, a11, a12, a13, a14, a15,
                 a16, a17, g)
        /\ Reads(w, b1, b2, b3, b4, b5, b6, b7, b8, b9, b10, b11 + 1, b12 + 1, b13, b14,
                 b15, b16, b17, h)
    BY <1>1, <1>2, <1>3, <1>7 DEF EntryAgain, Post, Turn, Lines, Reads
  <2> QED BY <1>1, <1>2, <1>4, <1>7, <2>1 DEF Reads
<1>8. ASSUME EntryFlushed(x, y, v, w), h <= b18 PROVE BothBalanced(v, w)
  <2>1. /\ Reads(v, a1, a2, a3, a4, a5, a6 + 1, a7 - 1, a8, a9, a10, a11, a12, a13, a14,
                 a15, a16, a17, g)
        /\ Reads(w, b1, b2, b3, b4, b5, b6, b7, b8, b9, b10, b11 + 1, b12 + 1, b13, b14,
                 b15, b16, b17, h)
    BY <1>1, <1>2, <1>3, <1>8 DEF EntryFlushed, Post, Turn, Lines, Reads
  <2> QED BY <1>1, <1>2, <1>4, <1>8, <2>1 DEF Reads
<1>9. ASSUME EntryAck(x, y, v, w), h <= b18 PROVE BothBalanced(v, w)
  <2>1. /\ Reads(v, a1, a2, a3 + 1, a4, a5, a6, a7, a8, a9, a10, a11 - 1, a12, a13 - 1, a14,
                 a15, a16, a17, g)
        /\ Reads(w, b1, b2, b3, b4, b5, b6, b7, b8, b9, b10, b11, b12, b13, b14, b15, b16,
                 b17, h)
    BY <1>1, <1>2, <1>3, <1>9 DEF EntryAck, Post, Turn, Lines, Reads
  <2> QED BY <1>1, <1>2, <1>4, <1>9, <2>1 DEF Reads
<1>10. ASSUME EntryAckRefill(x, y, v, w), h <= b18 PROVE BothBalanced(v, w)
  <2>1. /\ Reads(v, a1 + 1, a2, a3 + 1, a4, a5, a6, a7 - 1, a8, a9, a10, a11 - 1, a12, a13 -
                 1, a14, a15, a16, a17, g)
        /\ Reads(w, b1, b2, b3, b4, b5, b6, b7, b8, b9, b10, b11 + 1, b12 + 1, b13, b14,
                 b15, b16, b17, h)
    BY <1>1, <1>2, <1>3, <1>10 DEF EntryAckRefill, Post, Turn, Lines, Reads
  <2> QED BY <1>1, <1>2, <1>4, <1>10, <2>1 DEF Reads
<1>11. ASSUME EntryReceived(x, y, v, w), h <= b18 PROVE BothBalanced(v, w)
  <2>1. /\ Reads(v, a1, a2, a3, a4 + 1, a5, a6, a7, a8, a9, a10 + 1, a11 - 1, a12 - 1, a13,
                 a14, a15, a16, a17, g)
        /\ Reads(w, b1, b2, b3, b4, b5, b6, b7, b8, b9, b10, b11 + 1, b12, b13 + 1, b14,
                 b15, b16, b17, h)
    BY <1>1, <1>2, <1>3, <1>11 DEF EntryReceived, Post, Turn, Lines, Reads
  <2> QED BY <1>1, <1>2, <1>4, <1>11, <2>1 DEF Reads
<1>12. ASSUME EntryDropped(x, y, v, w), h <= b18 PROVE BothBalanced(v, w)
  <2>1. /\ Reads(v, a1, a2, a3, a4, a5 + 1, a6, a7, a8, a9, a10, a11 - 1, a12 - 1, a13, a14,
                 a15, a16, a17, g)
        /\ Reads(w, b1, b2, b3, b4, b5, b6, b7, b8, b9, b10, b11 + 1, b12, b13 + 1, b14,
                 b15, b16, b17, h)
    BY <1>1, <1>2, <1>3, <1>12 DEF EntryDropped, Post, Turn, Lines, Reads
  <2> QED BY <1>1, <1>2, <1>4, <1>12, <2>1 DEF Reads
<1>13. ASSUME EntryPing(x, y, v, w), h <= b18 PROVE BothBalanced(v, w)
  <2>1. /\ Reads(v, a1 + 1, a2, a3, a4, a5, a6, a7, a8, a9 + 1, a10, a11, a12, a13, a14,
                 a15, a16, a17, g)
        /\ Reads(w, b1, b2, b3, b4, b5, b6, b7, b8, b9, b10, b11, b12, b13, b14 + 1, b15,
                 b16, b17, h)
    BY <1>1, <1>2, <1>3, <1>13 DEF EntryPing, Post, Turn, Lines, Reads
  <2> QED BY <1>1, <1>2, <1>4, <1>13, <2>1 DEF Reads
<1>14. ASSUME EntryPinged(x, y, v, w), h <= b18 PROVE BothBalanced(v, w)
  <2>1. /\ Reads(v, a1, a2, a3 + 1, a4 + 1, a5, a6, a7, a8, a9, a10, a11, a12, a13, a14 - 1,
                 a15, a16, a17, g)
        /\ Reads(w, b1, b2, b3, b4, b5, b6, b7, b8, b9, b10, b11, b12, b13, b14, b15 + 1,
                 b16, b17, h)
    BY <1>1, <1>2, <1>3, <1>14 DEF EntryPinged, Post, Turn, Lines, Reads
  <2> QED BY <1>1, <1>2, <1>4, <1>14, <2>1 DEF Reads
<1>15. ASSUME EntryPonged(x, y, v, w), h <= b18 PROVE BothBalanced(v, w)
  <2>1. /\ Reads(v, a1, a2, a3 + 1, a4, a5, a6, a7, a8, a9, a10, a11, a12, a13, a14, a15 -
                 1, a16, a17, g)
        /\ Reads(w, b1, b2, b3, b4, b5, b6, b7, b8, b9, b10, b11, b12, b13, b14, b15, b16,
                 b17, h)
    BY <1>1, <1>2, <1>3, <1>15 DEF EntryPonged, Post, Turn, Lines, Reads
  <2> QED BY <1>1, <1>2, <1>4, <1>15, <2>1 DEF Reads
<1>16. ASSUME EntryLostCopy(x, y, v, w) PROVE BothBalanced(v, w)
  <2>1. /\ Reads(v, a1, a2, a3, a4, a5, a6, a7, a8, a9, a10, a11 - 1, a12 - 1, a13, a14,
                 a15, a16 + 1, a17, g)
        /\ Reads(w, b1, b2, b3, b4, b5, b6, b7, b8, b9, b10, b11, b12, b13, b14, b15, b16,
                 b17, h)
    BY <1>1, <1>2, <1>3, <1>16 DEF EntryLostCopy, Post, Turn, Lines, Reads
  <2> QED BY <1>1, <1>2, <1>4, <1>16, <2>1 DEF Reads
<1>17. ASSUME EntryLostAnswer(x, y, v, w), h <= b18 PROVE BothBalanced(v, w)
  <2>1. /\ Reads(v, a1, a2, a3, a4, a5, a6, a7, a8, a9, a10, a11 - 1, a12, a13 - 1, a14,
                 a15, a16, a17 + 1, g)
        /\ Reads(w, b1, b2, b3, b4, b5, b6, b7, b8, b9, b10, b11, b12, b13, b14, b15, b16,
                 b17, h)
    BY <1>1, <1>2, <1>3, <1>17 DEF EntryLostAnswer, Post, Turn, Lines, Reads
  <2> QED BY <1>1, <1>2, <1>4, <1>17, <2>1 DEF Reads
<1>18. ASSUME EntryLostPing(x, y, v, w), h <= b18 PROVE BothBalanced(v, w)
  <2>1. /\ Reads(v, a1, a2, a3, a4, a5, a6, a7, a8, a9, a10, a11, a12, a13, a14 - 1, a15,
                 a16 + 1, a17, g)
        /\ Reads(w, b1, b2, b3, b4, b5, b6, b7, b8, b9, b10, b11, b12, b13, b14, b15, b16,
                 b17, h)
    BY <1>1, <1>2, <1>3, <1>18 DEF EntryLostPing, Post, Turn, Lines, Reads
  <2> QED BY <1>1, <1>2, <1>4, <1>18, <2>1 DEF Reads
<1>19. ASSUME EntryLostPong(x, y, v, w), h <= b18 PROVE BothBalanced(v, w)
  <2>1. /\ Reads(v, a1, a2, a3, a4, a5, a6, a7, a8, a9, a10, a11, a12, a13, a14, a15 - 1,
                 a16, a17 + 1, g)
        /\ Reads(w, b1, b2, b3, b4, b5, b6, b7, b8, b9, b10, b11, b12, b13, b14, b15, b16,
                 b17, h)
    BY <1>1, <1>2, <1>3, <1>19 DEF EntryLostPong, Post, Turn, Lines, Reads
  <2> QED BY <1>1, <1>2, <1>4, <1>19, <2>1 DEF Reads
<1>20. Fewer(y, w) => h <= b18
  BY <1>2, <1>3 DEF Fewer, Reads
<1> QED BY <1>20, <1>5, <1>6, <1>7, <1>8, <1>9, <1>10, <1>11, <1>12, <1>13, <1>14, <1>15,
           <1>16, <1>17, <1>18, <1>19 DEF Entry

-----------------------------------------------------------------------------
\* Types, and what counting changes

StatTypes ==
    /\ stat \in [Nodes -> [Counters -> Nat]]
    /\ pings \in [Nodes -> Nat] /\ flushed \in [Nodes -> Nat]
    /\ pingWire \in [Nodes -> [ping : Nat, ack : Nat]]
    /\ lost \in [Nodes -> [copies : Nat, answers : Nat]]

LEMMA CountAdds ==
    ASSUME StatTypes, NEW n \in Nodes, NEW up, Count(n, up)
    PROVE  /\ stat' \in [Nodes -> [Counters -> Nat]]
           /\ \A k \in Nodes \ {n} : stat'[k] = stat[k]
           /\ \A c \in Counters :
                 /\ stat[n][c] \in Nat
                 /\ stat'[n][c] = IF c \in up THEN stat[n][c] + 1 ELSE stat[n][c]
<1>1. [c \in Counters |-> IF c \in up THEN stat[n][c] + 1 ELSE stat[n][c]] \in [Counters -> Nat]
  BY DEF StatTypes
<1> QED BY <1>1 DEF Count, StatTypes

\* the counters one by one
LEMMA CountRow ==
    ASSUME StatTypes, NEW n \in Nodes, NEW up, Count(n, up)
    PROVE  /\ stat'[n].packets_send
                = stat[n].packets_send + (IF "packets_send" \in up THEN 1 ELSE 0)
           /\ stat'[n].packets_attempt
                = stat[n].packets_attempt + (IF "packets_attempt" \in up THEN 1 ELSE 0)
           /\ stat'[n].ack_receive
                = stat[n].ack_receive + (IF "ack_receive" \in up THEN 1 ELSE 0)
           /\ stat'[n].packets_receive
                = stat[n].packets_receive + (IF "packets_receive" \in up THEN 1 ELSE 0)
           /\ stat'[n].packets_receive_dropped
                = stat[n].packets_receive_dropped
                  + (IF "packets_receive_dropped" \in up THEN 1 ELSE 0)
<1>1. \A c \in Counters : stat[n][c] \in Nat
            /\ stat'[n][c] = stat[n][c] + (IF c \in up THEN 1 ELSE 0)
  BY CountAdds
<1> QED BY <1>1 DEF Counters

\* and which of them a step increments
LEMMA CountGives ==
    ASSUME StatTypes, NEW n \in Nodes, NEW up, Count(n, up)
    PROVE  /\ \A k \in Nodes \ {n} : stat'[k] = stat[k]
           /\ stat[n].packets_attempt \in Nat
           /\ stat'[n].packets_send
                = IF "packets_send" \in up THEN stat[n].packets_send + 1
                  ELSE stat[n].packets_send
           /\ stat'[n].packets_attempt
                = IF "packets_attempt" \in up THEN stat[n].packets_attempt + 1
                  ELSE stat[n].packets_attempt
           /\ stat'[n].ack_receive
                = IF "ack_receive" \in up THEN stat[n].ack_receive + 1
                  ELSE stat[n].ack_receive
           /\ stat'[n].packets_receive
                = IF "packets_receive" \in up THEN stat[n].packets_receive + 1
                  ELSE stat[n].packets_receive
           /\ stat'[n].packets_receive_dropped
                = IF "packets_receive_dropped" \in up THEN stat[n].packets_receive_dropped + 1
                  ELSE stat[n].packets_receive_dropped
<1>1. /\ \A k \in Nodes \ {n} : stat'[k] = stat[k]
      /\ \A c \in Counters :
            /\ stat[n][c] \in Nat
            /\ stat'[n][c] = IF c \in up THEN stat[n][c] + 1 ELSE stat[n][c]
  BY CountAdds
<1> QED BY <1>1 DEF Counters

\* the columns of the table are the counters and the lengths of the queues
LEMMA RowReads ==
    ASSUME StatTypes, TypeInv, NEW n \in Nodes
    PROVE  /\ Row(n).send = stat[n].packets_send
           /\ Row(n).recv = stat[n].packets_receive
           /\ Row(n).ack = stat[n].ack_receive
           /\ Row(n).repeat = stat[n].packets_attempt
           /\ Row(n).drop = stat[n].packets_receive_dropped
           /\ Row(n).WQ = Len(writeQueue[n])
           /\ Row(n).RQ = Cardinality(receiveQueue[n])
<1>1. stat[n] \in [Counters -> Nat] /\ DOMAIN stat[n] = Counters
  BY DEF StatTypes
<1>2. \A c \in Counters : ChannelStatistic(n)[c] = stat[n][c]
  BY <1>1 DEF ChannelStatistic, Counters
<1>3. ChannelStatistic(n).rq = Cardinality(receiveQueue[n])
  BY <1>1 DEF ChannelStatistic, Counters
<1> QED BY <1>2, <1>3 DEF Row, Counters

\* Every step of StatNext is a step of a session or leaves it alone.
LEMMA StatIsSession == [StatNext]_allVars => [SessionNext]_vars
<1> SUFFICES ASSUME [StatNext]_allVars PROVE [SessionNext]_vars
  OBVIOUS
<1>1. CASE UNCHANGED allVars
  BY <1>1 DEF allVars
<1>2. ASSUME NEW n \in Nodes, StatReceive(n) PROVE Receive(n)
  BY <1>2 DEF StatReceive, StatReceiveAck, StatReceiveData, Receive, ReceivePacket
<1>3. ASSUME NEW n \in Nodes,
             SendPing(n) \/ ReceivePing(n) \/ ReceiveAckPing(n) \/ StatLosePing(n)
      PROVE  UNCHANGED vars
  BY <1>3 DEF SendPing, ReceivePing, ReceiveAckPing, StatLosePing
<1>4. ASSUME NEW n \in Nodes,
             StatSendData(n) \/ StatResend(n) \/ StatFlush(n) \/ StatReceive(n) \/ StatLose(n)
      PROVE  Step(n)
  BY <1>2, <1>4 DEF StatSendData, StatResend, StatFlush, StatLose, Step
<1> QED BY <1>1, <1>3, <1>4 DEF StatNext, SessionNext

-----------------------------------------------------------------------------
\* Paths

\* What is added to a path, and what is taken from it
LEMMA PathGrows ==
    ASSUME NEW w \in Seq(Packets), NEW p \in Packets
    PROVE  /\ Append(w, p) \in Seq(Packets) /\ Len(Append(w, p)) = Len(w) + 1
           /\ NumberOf(Append(w, p), {"DATA"})
                = NumberOf(w, {"DATA"}) + (IF p.type = "DATA" THEN 1 ELSE 0)
           /\ NumberOf(Append(w, p), {"ACK"})
                = NumberOf(w, {"ACK"}) + (IF p.type = "ACK" THEN 1 ELSE 0)
           /\ CopiesOn(Append(w, p))
                = CopiesOn(w) \cup (IF p.type = "DATA" THEN {p.data} ELSE {})
<1>1. /\ Len(w) \in Nat /\ DOMAIN w = 1 .. Len(w)
      /\ Append(w, p) \in Seq(Packets) /\ Len(Append(w, p)) = Len(w) + 1
      /\ DOMAIN Append(w, p) = 1 .. Len(w) + 1
      /\ \A i \in 1 .. Len(w) : Append(w, p)[i] = w[i]
      /\ Append(w, p)[Len(w) + 1] = p
  BY AppendPlaces
<1>2. /\ NumberOf(Append(w, p), {"DATA"})
           = NumberOf(w, {"DATA"}) + (IF p.type \in {"DATA"} THEN 1 ELSE 0)
      /\ NumberOf(Append(w, p), {"ACK"})
           = NumberOf(w, {"ACK"}) + (IF p.type \in {"ACK"} THEN 1 ELSE 0)
  BY NumberAppend
<1>3. \A d : d \in CopiesOn(Append(w, p)) <=>
                d \in CopiesOn(w) \/ (p.type = "DATA" /\ d = p.data)
  <2>1. ASSUME NEW d, d \in CopiesOn(Append(w, p))
        PROVE  d \in CopiesOn(w) \/ (p.type = "DATA" /\ d = p.data)
    <3>1. PICK i \in 1 .. Len(w) + 1 :
            Append(w, p)[i].type = "DATA" /\ d = Append(w, p)[i].data
      BY <1>1, <2>1 DEF CopiesOn, PlacesOf
    <3>2. CASE i \in 1 .. Len(w)
      BY <1>1, <3>1, <3>2 DEF CopiesOn, PlacesOf
    <3>3. CASE i = Len(w) + 1
      BY <1>1, <3>1, <3>3
    <3> QED BY <1>1, <3>2, <3>3
  <2>2. ASSUME NEW d, d \in CopiesOn(w) PROVE d \in CopiesOn(Append(w, p))
    <3>1. PICK i \in 1 .. Len(w) : w[i].type = "DATA" /\ d = w[i].data
      BY <1>1, <2>2 DEF CopiesOn, PlacesOf
    <3>2. i \in 1 .. Len(w) + 1
      BY <1>1
    <3> QED BY <1>1, <3>1, <3>2 DEF CopiesOn, PlacesOf
  <2>3. p.type = "DATA" => p.data \in CopiesOn(Append(w, p))
    <3>1. Len(w) + 1 \in 1 .. Len(w) + 1
      BY <1>1
    <3> QED BY <1>1, <3>1 DEF CopiesOn, PlacesOf
  <2> QED BY <2>1, <2>2, <2>3
<1> QED BY <1>1, <1>2, <1>3

LEMMA PathShrinks ==
    ASSUME NEW w \in Seq(Packets), NEW j \in DOMAIN w, NEW v, v = RemoveAt(w, j)
    PROVE  /\ v \in Seq(Packets) /\ Len(w) \in Nat /\ Len(w) >= 1 /\ Len(v) = Len(w) - 1
           /\ NumberOf(v, {"DATA"}) \in Nat /\ NumberOf(v, {"ACK"}) \in Nat
           /\ NumberOf(w, {"DATA"})
                = NumberOf(v, {"DATA"}) + (IF w[j].type = "DATA" THEN 1 ELSE 0)
           /\ NumberOf(w, {"ACK"})
                = NumberOf(v, {"ACK"}) + (IF w[j].type = "ACK" THEN 1 ELSE 0)
           /\ CopiesOn(v) \subseteq CopiesOn(w)
           /\ CopiesOn(w) \subseteq
                 CopiesOn(v) \cup (IF w[j].type = "DATA" THEN {w[j].data} ELSE {})
<1>1. /\ Len(w) \in Nat /\ DOMAIN w = 1 .. Len(w) /\ j \in 1 .. Len(w)
      /\ v \in Seq(Packets) /\ Len(v) = Len(w) - 1
      /\ ToSet(v) \subseteq ToSet(w) /\ ToSet(w) \subseteq ToSet(v) \cup {w[j]}
  BY RemoveAtElements, LenProperties
<1>2. /\ NumberOf(w, {"DATA"})
           = NumberOf(v, {"DATA"}) + (IF w[j].type \in {"DATA"} THEN 1 ELSE 0)
      /\ NumberOf(w, {"ACK"})
           = NumberOf(v, {"ACK"}) + (IF w[j].type \in {"ACK"} THEN 1 ELSE 0)
      /\ NumberOf(v, {"DATA"}) \in Nat /\ NumberOf(v, {"ACK"}) \in Nat
  BY NumberRemoveAt
<1>3. ASSUME NEW s PROVE CopiesOn(s) = {p.data : p \in {p \in ToSet(s) : p.type = "DATA"}}
  BY DEF CopiesOn, PlacesOf, ToSet
<1>4. CopiesOn(v) \subseteq CopiesOn(w)
  BY <1>1, <1>3
<1>5. CopiesOn(w) \subseteq
         CopiesOn(v) \cup (IF w[j].type = "DATA" THEN {w[j].data} ELSE {})
  BY <1>1, <1>3
<1> QED BY <1>1, <1>2, <1>4, <1>5

LEMMA InFlightIsNumber == \A w, type : InFlightOf(w, type) = NumberOf(w, {type})
BY DEF InFlightOf, NumberOf, PlacesOf

-----------------------------------------------------------------------------
\* The send column, on any path of TrudpStat

Columns(k) ==
    stat[k].packets_send + flushed[k] + Len(writeQueue[k]) = sent[k] + pings[k]

\* A step adds to what k sent, flushed, lets wait, was given and pinged.
ColumnAdds(k, s, f, q, t, p) ==
    /\ stat'[k].packets_send = stat[k].packets_send + s
    /\ flushed'[k] = flushed[k] + f
    /\ Len(writeQueue'[k]) = Len(writeQueue[k]) + q
    /\ sent'[k] = sent[k] + t
    /\ pings'[k] = pings[k] + p

\* nothing; a payload sent at once; one that waits; one flushed; one that an
\* ACK lets go; a PING
ColumnMoves(k) ==
    \/ ColumnAdds(k, 0, 0, 0, 0, 0) \/ ColumnAdds(k, 1, 0, 0, 1, 0) \/ ColumnAdds(k, 0, 0, 1, 1, 0)
    \/ ColumnAdds(k, 0, 1, -1, 0, 0) \/ ColumnAdds(k, 1, 0, -1, 0, 0) \/ ColumnAdds(k, 1, 0, 0, 0, 1)

LEMMA ColumnTypes ==
    ASSUME TypeInv, StatTypes, NEW k \in Nodes
    PROVE  /\ stat[k].packets_send \in Nat /\ flushed[k] \in Nat /\ sent[k] \in Nat
           /\ pings[k] \in Nat /\ Len(writeQueue[k]) \in Nat
           /\ writeQueue[k] \in Seq(DataPackets) /\ sendQueue[k] \in Seq(DataPackets)
           /\ Len(sendQueue[k]) \in Nat
<1>1. writeQueue[k] \in Seq(DataPackets) /\ sendQueue[k] \in Seq(DataPackets) /\ sent[k] \in Nat
  BY DEF TypeInv, TypeOK
<1>2. stat[k].packets_send \in Nat /\ flushed[k] \in Nat /\ pings[k] \in Nat
  BY DEF StatTypes, Counters
<1> QED BY <1>1, <1>2, LenProperties

LEMMA ColumnKept ==
    ASSUME TypeInv, StatTypes, NEW k \in Nodes, Columns(k), ColumnMoves(k)
    PROVE  Columns(k)'
<1>1. PICK s \in Nat, f \in Nat, q \in Nat, t \in Nat, p \in Nat :
        /\ s = stat[k].packets_send /\ f = flushed[k] /\ q = Len(writeQueue[k])
        /\ t = sent[k] /\ p = pings[k]
  BY ColumnTypes
<1>2. s + f + q = t + p
  BY <1>1 DEF Columns
<1>3. ASSUME NEW a \in Int, NEW b \in Int, NEW c \in Int, NEW d \in Int, NEW e \in Int,
             ColumnAdds(k, a, b, c, d, e), a + b + c = d + e
      PROVE  Columns(k)'
  <2>1. /\ stat'[k].packets_send = s + a /\ flushed'[k] = f + b
        /\ Len(writeQueue'[k]) = q + c /\ sent'[k] = t + d /\ pings'[k] = p + e
    BY <1>1, <1>3 DEF ColumnAdds
  <2>2. (s + a) + (f + b) + (q + c) = (t + d) + (p + e)
    BY <1>2, <1>3
  <2> QED BY <2>1, <2>2 DEF Columns
<1> QED BY <1>3 DEF ColumnMoves

\* the others
LEMMA ColumnOthers ==
    ASSUME TypeInv, StatTypes, NEW k \in Nodes, stat'[k] = stat[k], flushed'[k] = flushed[k],
           writeQueue'[k] = writeQueue[k], sent'[k] = sent[k], pings'[k] = pings[k]
    PROVE  ColumnMoves(k)
<1>1. /\ stat[k].packets_send \in Nat /\ flushed[k] \in Nat /\ sent[k] \in Nat
      /\ pings[k] \in Nat /\ Len(writeQueue[k]) \in Nat
  BY ColumnTypes
<1>2. ColumnAdds(k, 0, 0, 0, 0, 0)
  BY <1>1 DEF ColumnAdds
<1> QED BY <1>2 DEF ColumnMoves

LEMMA ColumnSendData ==
    ASSUME TypeInv, StatTypes, NEW n \in Nodes, StatSendData(n)
    PROVE  StatTypes' /\ \A k \in Nodes : ColumnMoves(k)
<1> DEFINE p == DataPacket(sendId[n], sent[n] + 1)
           r == SendPacket(sendQueue[n], writeQueue[n], p)
           up == IF Len(sendQueue'[n]) > Len(sendQueue[n]) THEN {"packets_send"} ELSE {}
<1>1. /\ sendQueue' = [sendQueue EXCEPT ![n] = r.sq] /\ writeQueue' = [writeQueue EXCEPT ![n] = r.wq]
      /\ sent' = [sent EXCEPT ![n] = @ + 1] /\ sent[n] < MaxData[n]
  BY DEF StatSendData, SendData
<1>2. Count(n, up) /\ UNCHANGED <<pings, pingWire, flushed, lost>>
  BY DEF StatSendData, CountSent
<1>3. p \in DataPackets
  <2>1. MaxData[n] \in Nat /\ sent[n] \in Nat /\ sendId[n] \in PacketIds
    BY PeerFacts DEF TypeInv, TypeOK
  <2>2. sent[n] + 1 \in 1 .. MaxData[n]
    BY <1>1, <2>1
  <2> QED BY <2>1, <2>2 DEF DataPacket, DataPackets, Payloads
<1>4. /\ writeQueue[n] \in Seq(DataPackets) /\ sendQueue[n] \in Seq(DataPackets)
      /\ Len(sendQueue[n]) \in Nat /\ Len(writeQueue[n]) \in Nat
      /\ stat[n].packets_send \in Nat /\ flushed[n] \in Nat /\ sent[n] \in Nat /\ pings[n] \in Nat
  BY ColumnTypes
<1>0. r = SendPacket(sendQueue[n], writeQueue[n], p)
  OBVIOUS
<1> HIDE DEF p, r
<1>5. \/ SendNow(sendQueue[n]) /\ r.sq = Append(sendQueue[n], p) /\ r.wq = writeQueue[n]
      \/ ~SendNow(sendQueue[n]) /\ r.sq = sendQueue[n] /\ r.wq = Append(writeQueue[n], p)
  BY <1>0 DEF SendPacket
<1>6. sendQueue'[n] = r.sq /\ writeQueue'[n] = r.wq /\ sent'[n] = sent[n] + 1
  BY <1>1 DEF TypeInv, TypeOK
<1>7. stat'[n].packets_send
         = stat[n].packets_send + (IF "packets_send" \in up THEN 1 ELSE 0)
  BY <1>2, CountRow
<1>8. /\ Len(Append(sendQueue[n], p)) = Len(sendQueue[n]) + 1
      /\ Len(Append(writeQueue[n], p)) = Len(writeQueue[n]) + 1
  BY <1>3, <1>4, AppendProperties
<1>9. ColumnMoves(n)
  <2>1. CASE r.sq = Append(sendQueue[n], p) /\ r.wq = writeQueue[n]
    <3>1. "packets_send" \in up
      BY <1>4, <1>6, <1>8, <2>1
    <3>2. stat'[n].packets_send = stat[n].packets_send + 1
      BY <1>7, <3>1
    <3>3. ColumnAdds(n, 1, 0, 0, 1, 0)
      BY <1>2, <1>4, <1>6, <2>1, <3>2 DEF ColumnAdds
    <3> QED BY <3>3 DEF ColumnMoves
  <2>2. CASE r.sq = sendQueue[n] /\ r.wq = Append(writeQueue[n], p)
    <3>1. "packets_send" \notin up
      BY <1>4, <1>6, <2>2
    <3>2. stat'[n].packets_send = stat[n].packets_send + 0
      BY <1>7, <3>1
    <3>3. ColumnAdds(n, 0, 0, 1, 1, 0)
      BY <1>2, <1>4, <1>6, <1>8, <2>2, <3>2 DEF ColumnAdds
    <3> QED BY <3>3 DEF ColumnMoves
  <2> QED BY <1>5, <2>1, <2>2
<1>10. stat' \in [Nodes -> [Counters -> Nat]] /\ \A k \in Nodes \ {n} : stat'[k] = stat[k]
  BY <1>2, CountAdds
<1>11. ASSUME NEW k \in Nodes, k # n PROVE ColumnMoves(k)
  <2>1. sent'[k] = sent[k] /\ writeQueue'[k] = writeQueue[k]
    BY <1>1, <1>11 DEF TypeInv, TypeOK
  <2> QED BY <1>2, <1>10, <1>11, <2>1, ColumnOthers
<1> QED BY <1>2, <1>9, <1>10, <1>11 DEF StatTypes

\* A step that counts, or nothing is counted, and neither sends nor queues a
\* packet of the application
LEMMA ColumnCounts ==
    ASSUME TypeInv, StatTypes, NEW n \in Nodes, NEW up, Count(n, up), "packets_send" \notin up,
           UNCHANGED <<writeQueue, sent, flushed, pings>>
    PROVE  \A k \in Nodes : ColumnMoves(k)
<1>1. \A k \in Nodes \ {n} : stat'[k] = stat[k]
  BY CountAdds
<1>2. \A k \in Nodes \ {n} : ColumnMoves(k)
  BY <1>1, ColumnOthers
<1>3. stat'[n].packets_send = stat[n].packets_send + 0
  BY CountRow
<1>4. ColumnAdds(n, 0, 0, 0, 0, 0)
  BY <1>3, ColumnTypes DEF ColumnAdds
<1> QED BY <1>2, <1>4 DEF ColumnMoves

LEMMA ColumnResend ==
    ASSUME TypeInv, StatTypes, NEW n \in Nodes, StatResend(n)
    PROVE  StatTypes' /\ \A k \in Nodes : ColumnMoves(k)
<1>1. /\ Count(n, {"packets_attempt"}) /\ UNCHANGED <<pings, pingWire, flushed, lost>>
      /\ UNCHANGED <<writeQueue, sent>>
  BY DEF StatResend, Resend, senderVars, historyVars
<1> QED BY <1>1, ColumnCounts, CountAdds DEF StatTypes

LEMMA ColumnReceiveData ==
    ASSUME TypeInv, StatTypes, NEW n \in Nodes, NEW a, StatReceiveData(n, a)
    PROVE  StatTypes' /\ \A k \in Nodes : ColumnMoves(k)
<1>1. UNCHANGED <<writeQueue, sent>>
  BY DEF StatReceiveData, ReceiveData, RejectNotOpened, AcceptExpected, SaveOutrunning,
         RejectNewSession, DropProcessed, AckAndReset, senderVars, historyVars
<1>2. UNCHANGED <<pings, pingWire, flushed, lost>> /\ CountReceived(n, a.pkt)
  BY DEF StatReceiveData
<1>3. PICK up : Count(n, up) /\ "packets_send" \notin up
  BY <1>2 DEF CountReceived
<1> QED BY <1>1, <1>2, <1>3, ColumnCounts, CountAdds DEF StatTypes

LEMMA ColumnFlush ==
    ASSUME TypeInv, StatTypes, NEW n \in Nodes, StatFlush(n)
    PROVE  StatTypes' /\ \A k \in Nodes : ColumnMoves(k)
<1>1. /\ writeQueue[n] # <<>> /\ writeQueue' = [writeQueue EXCEPT ![n] = Tail(@)]
      /\ flushed' = [flushed EXCEPT ![n] = @ + 1]
      /\ UNCHANGED <<stat, pings, pingWire, lost, sent>>
  BY DEF StatFlush, FlushWriteQueue, historyVars
<1>2. \A k \in Nodes \ {n} : writeQueue'[k] = writeQueue[k] /\ flushed'[k] = flushed[k]
  BY <1>1 DEF TypeInv, TypeOK, StatTypes
<1>3. \A k \in Nodes \ {n} : ColumnMoves(k)
  BY <1>1, <1>2, ColumnOthers
<1>4. writeQueue'[n] = Tail(writeQueue[n]) /\ flushed'[n] = flushed[n] + 1
  BY <1>1 DEF TypeInv, TypeOK, StatTypes
<1>5. Len(writeQueue'[n]) = Len(writeQueue[n]) - 1
  <2>1. Len(Tail(writeQueue[n])) = Len(writeQueue[n]) - 1
    BY <1>1, ColumnTypes, TailPlaces
  <2> QED BY <1>4, <2>1
<1>6. ColumnAdds(n, 0, 1, -1, 0, 0)
  <2>1. flushed'[n] = flushed[n] + 1 /\ UNCHANGED <<stat, pings, sent>>
    BY <1>1, <1>4
  <2> QED BY <1>5, <2>1, ColumnTypes DEF ColumnAdds
<1>7. StatTypes'
  BY <1>1 DEF StatTypes
<1> QED BY <1>3, <1>6, <1>7 DEF ColumnMoves

\* What an ACK does to the write queue
LEMMA AckTakesFirst ==
    ASSUME TypeInv, NEW n \in Nodes, NEW a, ReceiveAck(n, a) \/ ReceiveUnknownAck(n, a)
    PROVE  /\ \A k \in Nodes \ {n} : writeQueue'[k] = writeQueue[k]
           /\ Len(writeQueue'[n]) = Len(writeQueue[n])
                 \/ Len(writeQueue'[n]) = Len(writeQueue[n]) - 1
           /\ Len(writeQueue[n]) \in Nat /\ sent' = sent
<1>1. sent' = sent /\ Len(writeQueue[n]) \in Nat /\ writeQueue \in [Nodes -> Seq(DataPackets)]
  BY LenProperties DEF ReceiveAck, ReceiveUnknownAck, historyVars, TypeInv, TypeOK
<1>2. CASE writeQueue' = writeQueue
  BY <1>1, <1>2
<1>3. ASSUME NEW i \in DOMAIN sendQueue[n], NEW r,
             r = SendPacket(RemoveAt(sendQueue[n], i), writeQueue[n], Head(writeQueue[n])),
             writeQueue[n] # <<>>, writeQueue' = [writeQueue EXCEPT ![n] = Tail(r.wq)]
      PROVE  /\ \A k \in Nodes \ {n} : writeQueue'[k] = writeQueue[k]
             /\ Len(writeQueue'[n]) = Len(writeQueue[n])
                   \/ Len(writeQueue'[n]) = Len(writeQueue[n]) - 1
  <2>1. PICK q, p : q = writeQueue[n] /\ p = Head(q)
    OBVIOUS
  <2>2. q \in Seq(DataPackets) /\ q # <<>> /\ Len(q) \in Nat /\ p \in DataPackets
    BY <1>1, <1>3, <2>1, TailPlaces
  <2>3. r.wq = q \/ r.wq = Append(q, p)
    BY <1>3, <2>1 DEF SendPacket
  <2>4. Len(Tail(q)) = Len(q) - 1
    BY <2>2, TailPlaces
  <2>5. Len(Tail(Append(q, p))) = Len(q)
    <3>1. Append(q, p) \in Seq(DataPackets) /\ Len(Append(q, p)) = Len(q) + 1
      BY <2>2, AppendProperties
    <3>2. Append(q, p) # <<>>
      BY <2>2, <3>1, EmptySeq
    <3>3. Len(Tail(Append(q, p))) = Len(Append(q, p)) - 1
      BY <3>1, <3>2, TailPlaces
    <3> QED BY <2>2, <3>1, <3>3
  <2>6. writeQueue'[n] = Tail(r.wq) /\ \A k \in Nodes \ {n} : writeQueue'[k] = writeQueue[k]
    BY <1>1, <1>3
  <2> QED BY <2>1, <2>3, <2>4, <2>5, <2>6
<1>4. writeQueue' = writeQueue \/
      \E i \in DOMAIN sendQueue[n] :
         /\ writeQueue[n] # <<>>
         /\ writeQueue' = [writeQueue EXCEPT ![n] =
               Tail(SendPacket(RemoveAt(sendQueue[n], i), writeQueue[n],
                               Head(writeQueue[n])).wq)]
  BY DEF ReceiveAck, ReceiveUnknownAck, senderVars
<1> QED BY <1>1, <1>2, <1>3, <1>4

LEMMA ColumnReceiveAck ==
    ASSUME TypeInv, StatTypes, NEW n \in Nodes, NEW a, StatReceiveAck(n, a)
    PROVE  StatTypes' /\ \A k \in Nodes : ColumnMoves(k)
<1> DEFINE up == {"ack_receive"} \cup (IF Refilled(n) THEN {"packets_send"} ELSE {})
<1>1. Count(n, up) /\ UNCHANGED <<pings, pingWire, flushed, lost>>
  BY DEF StatReceiveAck
<1>2. /\ \A k \in Nodes \ {n} : writeQueue'[k] = writeQueue[k]
      /\ Len(writeQueue'[n]) = Len(writeQueue[n])
            \/ Len(writeQueue'[n]) = Len(writeQueue[n]) - 1
      /\ Len(writeQueue[n]) \in Nat /\ sent' = sent
  BY AckTakesFirst DEF StatReceiveAck
<1>3. stat' \in [Nodes -> [Counters -> Nat]] /\ \A k \in Nodes \ {n} : stat'[k] = stat[k]
  BY <1>1, CountAdds
<1>4. \A k \in Nodes \ {n} : ColumnMoves(k)
  BY <1>1, <1>2, <1>3, ColumnOthers
<1>5. stat'[n].packets_send
         = stat[n].packets_send + (IF "packets_send" \in up THEN 1 ELSE 0)
  BY <1>1, CountRow
<1>6. ColumnMoves(n)
  <2>1. CASE Len(writeQueue'[n]) = Len(writeQueue[n])
    <3>1. "packets_send" \notin up
      BY <1>2, <2>1 DEF Refilled
    <3>2. ColumnAdds(n, 0, 0, 0, 0, 0)
      BY <1>1, <1>2, <1>5, <2>1, <3>1, ColumnTypes DEF ColumnAdds
    <3> QED BY <3>2 DEF ColumnMoves
  <2>2. CASE Len(writeQueue'[n]) = Len(writeQueue[n]) - 1
    <3>1. "packets_send" \in up
      BY <1>2, <2>2 DEF Refilled
    <3>2. ColumnAdds(n, 1, 0, -1, 0, 0)
      BY <1>1, <1>2, <1>5, <2>2, <3>1, ColumnTypes DEF ColumnAdds
    <3> QED BY <3>2 DEF ColumnMoves
  <2> QED BY <1>2, <2>1, <2>2
<1> QED BY <1>1, <1>3, <1>4, <1>6 DEF StatTypes

\* A number of PINGs, or of lost datagrams, at one end is changed.
PingPaths == [Nodes -> [ping : Nat, ack : Nat]]
LostCounts == [Nodes -> [copies : Nat, answers : Nat]]

LEMMA StatPaths ==
    ASSUME StatTypes, NEW n \in Nodes
    PROVE  /\ Peer[n] \in Nodes /\ Peer[n] # n
           /\ pingWire \in PingPaths /\ lost \in LostCounts
           /\ pingWire[n] \in [ping : Nat, ack : Nat]
           /\ lost[n] \in [copies : Nat, answers : Nat]
           /\ pingWire[n].ping \in Nat /\ pingWire[n].ack \in Nat
           /\ lost[n].copies \in Nat /\ lost[n].answers \in Nat
<1>1. /\ pingWire \in [Nodes -> [ping : Nat, ack : Nat]]
      /\ lost \in [Nodes -> [copies : Nat, answers : Nat]]
  BY DEF StatTypes
<1>2. pingWire[n] \in [ping : Nat, ack : Nat] /\ lost[n] \in [copies : Nat, answers : Nat]
  BY <1>1
<1> QED BY <1>1, <1>2, ChannelAssumption DEF PingPaths, LostCounts

\* what the PING actions do to the PINGs in flight
LEMMA SendPingAdds ==
    ASSUME StatTypes, NEW n \in Nodes, NEW m, m = Peer[n], SendPing(n)
    PROVE  /\ pingWire' \in PingPaths
           /\ pingWire'[m].ping = pingWire[m].ping + 1 /\ pingWire'[m].ack = pingWire[m].ack
           /\ \A k \in Nodes \ {m} : pingWire'[k] = pingWire[k]
<1>1. m \in Nodes /\ pingWire \in PingPaths /\ pingWire[m] \in [ping : Nat, ack : Nat]
  BY StatPaths
<1>2. PICK r : r = [pingWire[m] EXCEPT !.ping = pingWire[m].ping + 1]
  OBVIOUS
<1>3. r \in [ping : Nat, ack : Nat] /\ r.ping = pingWire[m].ping + 1 /\ r.ack = pingWire[m].ack
  BY <1>1, <1>2
<1>4. pingWire' = [pingWire EXCEPT ![m] = r]
  BY <1>2 DEF SendPing, Sends
<1>5. /\ pingWire' \in PingPaths /\ pingWire'[m] = r
      /\ \A k \in Nodes \ {m} : pingWire'[k] = pingWire[k]
  BY <1>1, <1>3, <1>4 DEF PingPaths
<1> QED BY <1>3, <1>5

LEMMA ReceivePingTurns ==
    ASSUME StatTypes, NEW n \in Nodes, NEW m, m = Peer[n], ReceivePing(n)
    PROVE  /\ pingWire' \in PingPaths /\ pingWire[n].ping >= 1
           /\ pingWire'[n].ping = pingWire[n].ping - 1 /\ pingWire'[n].ack = pingWire[n].ack
           /\ pingWire'[m].ping = pingWire[m].ping /\ pingWire'[m].ack = pingWire[m].ack + 1
           /\ \A k \in Nodes \ {n, m} : pingWire'[k] = pingWire[k]
<1>1. /\ m \in Nodes /\ m # n /\ pingWire \in PingPaths
      /\ pingWire[n] \in [ping : Nat, ack : Nat] /\ pingWire[m] \in [ping : Nat, ack : Nat]
  BY StatPaths
<1>2. PICK r : r = [pingWire[m] EXCEPT !.ack = pingWire[m].ack + 1]
  OBVIOUS
<1>3. r \in [ping : Nat, ack : Nat] /\ r.ping = pingWire[m].ping /\ r.ack = pingWire[m].ack + 1
  BY <1>1, <1>2
<1>4. PICK w : w = [pingWire EXCEPT ![m] = r]
  OBVIOUS
<1>5. w \in PingPaths /\ w[m] = r /\ \A k \in Nodes \ {m} : w[k] = pingWire[k]
  BY <1>1, <1>3, <1>4 DEF PingPaths
<1>6. pingWire[n].ping >= 1
  BY <1>1 DEF ReceivePing
<1>7. PICK q : q = [w[n] EXCEPT !.ping = w[n].ping - 1]
  OBVIOUS
<1>8. w[n] = pingWire[n]
  BY <1>1, <1>5
<1>9. q \in [ping : Nat, ack : Nat] /\ q.ping = pingWire[n].ping - 1 /\ q.ack = pingWire[n].ack
  BY <1>1, <1>6, <1>7, <1>8
<1>10. pingWire' = [w EXCEPT ![n] = q]
  BY <1>2, <1>4, <1>7 DEF ReceivePing, Sends
<1>11. pingWire' \in PingPaths /\ pingWire'[n] = q /\ \A k \in Nodes \ {n} : pingWire'[k] = w[k]
  BY <1>5, <1>9, <1>10 DEF PingPaths
<1> QED BY <1>1, <1>3, <1>5, <1>6, <1>9, <1>11

LEMMA AckPingTaken ==
    ASSUME StatTypes, NEW n \in Nodes, ReceiveAckPing(n)
    PROVE  /\ pingWire' \in PingPaths /\ pingWire[n].ack >= 1
           /\ pingWire'[n].ping = pingWire[n].ping /\ pingWire'[n].ack = pingWire[n].ack - 1
           /\ \A k \in Nodes \ {n} : pingWire'[k] = pingWire[k]
<1>1. pingWire \in PingPaths /\ pingWire[n] \in [ping : Nat, ack : Nat]
  BY StatPaths
<1>2. pingWire[n].ack >= 1
  BY <1>1 DEF ReceiveAckPing
<1>3. PICK r : r = [pingWire[n] EXCEPT !.ack = pingWire[n].ack - 1]
  OBVIOUS
<1>4. r \in [ping : Nat, ack : Nat] /\ r.ping = pingWire[n].ping /\ r.ack = pingWire[n].ack - 1
  BY <1>1, <1>2, <1>3
<1>5. pingWire' = [pingWire EXCEPT ![n] = r]
  BY <1>3 DEF ReceiveAckPing
<1>6. /\ pingWire' \in PingPaths /\ pingWire'[n] = r
      /\ \A k \in Nodes \ {n} : pingWire'[k] = pingWire[k]
  BY <1>1, <1>4, <1>5 DEF PingPaths
<1> QED BY <1>2, <1>4, <1>6

\* what the loss of a PING or of its ACK takes from the path, and counts
PingTaken(n) ==
    /\ pingWire[n].ping >= 1
    /\ pingWire'[n].ping = pingWire[n].ping - 1 /\ pingWire'[n].ack = pingWire[n].ack
    /\ lost'[n].copies = lost[n].copies + 1 /\ lost'[n].answers = lost[n].answers

PongTaken(n) ==
    /\ pingWire[n].ack >= 1
    /\ pingWire'[n].ping = pingWire[n].ping /\ pingWire'[n].ack = pingWire[n].ack - 1
    /\ lost'[n].copies = lost[n].copies /\ lost'[n].answers = lost[n].answers + 1

LEMMA PingLost ==
    ASSUME StatTypes, NEW n \in Nodes, StatLosePing(n)
    PROVE  /\ pingWire' \in PingPaths /\ lost' \in LostCounts
           /\ \A k \in Nodes \ {n} : pingWire'[k] = pingWire[k] /\ lost'[k] = lost[k]
           /\ PingTaken(n) \/ PongTaken(n)
<1>1. /\ pingWire \in PingPaths /\ lost \in LostCounts
      /\ pingWire[n] \in [ping : Nat, ack : Nat]
      /\ lost[n] \in [copies : Nat, answers : Nat]
  BY StatPaths
<1>2. CASE /\ pingWire[n].ping > 0
           /\ pingWire' = [pingWire EXCEPT ![n].ping = @ - 1]
           /\ lost' = [lost EXCEPT ![n].copies = @ + 1]
  <2>1. PICK r : r = [pingWire[n] EXCEPT !.ping = pingWire[n].ping - 1]
    OBVIOUS
  <2>2. PICK q : q = [lost[n] EXCEPT !.copies = lost[n].copies + 1]
    OBVIOUS
  <2>3. pingWire[n].ping >= 1
    BY <1>1, <1>2
  <2>4. /\ r \in [ping : Nat, ack : Nat] /\ r.ping = pingWire[n].ping - 1
        /\ r.ack = pingWire[n].ack
    BY <1>1, <2>1, <2>3
  <2>5. /\ q \in [copies : Nat, answers : Nat] /\ q.copies = lost[n].copies + 1
        /\ q.answers = lost[n].answers
    BY <1>1, <2>2
  <2>6. pingWire' = [pingWire EXCEPT ![n] = r] /\ lost' = [lost EXCEPT ![n] = q]
    BY <1>2, <2>1, <2>2
  <2>7. /\ pingWire' \in PingPaths /\ pingWire'[n] = r
        /\ \A k \in Nodes \ {n} : pingWire'[k] = pingWire[k]
    BY <1>1, <2>4, <2>6 DEF PingPaths
  <2>8. lost' \in LostCounts /\ lost'[n] = q /\ \A k \in Nodes \ {n} : lost'[k] = lost[k]
    BY <1>1, <2>5, <2>6 DEF LostCounts
  <2> QED BY <2>3, <2>4, <2>5, <2>7, <2>8 DEF PingTaken
<1>3. CASE /\ pingWire[n].ack > 0
           /\ pingWire' = [pingWire EXCEPT ![n].ack = @ - 1]
           /\ lost' = [lost EXCEPT ![n].answers = @ + 1]
  <2>1. PICK r : r = [pingWire[n] EXCEPT !.ack = pingWire[n].ack - 1]
    OBVIOUS
  <2>2. PICK q : q = [lost[n] EXCEPT !.answers = lost[n].answers + 1]
    OBVIOUS
  <2>3. pingWire[n].ack >= 1
    BY <1>1, <1>3
  <2>4. /\ r \in [ping : Nat, ack : Nat] /\ r.ping = pingWire[n].ping
        /\ r.ack = pingWire[n].ack - 1
    BY <1>1, <2>1, <2>3
  <2>5. /\ q \in [copies : Nat, answers : Nat] /\ q.copies = lost[n].copies
        /\ q.answers = lost[n].answers + 1
    BY <1>1, <2>2
  <2>6. pingWire' = [pingWire EXCEPT ![n] = r] /\ lost' = [lost EXCEPT ![n] = q]
    BY <1>3, <2>1, <2>2
  <2>7. /\ pingWire' \in PingPaths /\ pingWire'[n] = r
        /\ \A k \in Nodes \ {n} : pingWire'[k] = pingWire[k]
    BY <1>1, <2>4, <2>6 DEF PingPaths
  <2>8. lost' \in LostCounts /\ lost'[n] = q /\ \A k \in Nodes \ {n} : lost'[k] = lost[k]
    BY <1>1, <2>5, <2>6 DEF LostCounts
  <2> QED BY <2>3, <2>4, <2>5, <2>7, <2>8 DEF PongTaken
<1> QED BY <1>2, <1>3 DEF StatLosePing

LEMMA ColumnPings ==
    ASSUME TypeInv, StatTypes, NEW n \in Nodes,
           SendPing(n) \/ ReceivePing(n) \/ ReceiveAckPing(n)
    PROVE  StatTypes' /\ \A k \in Nodes : ColumnMoves(k)
<1>0. Peer[n] \in Nodes /\ Peer[n] # n
  BY ChannelAssumption
<1>1. UNCHANGED <<writeQueue, sent, flushed, lost>>
  BY DEF SendPing, ReceivePing, ReceiveAckPing, vars, senderVars, historyVars
<1>2. CASE SendPing(n)
  <2>1. /\ Count(n, {"packets_send"}) /\ pings' = [pings EXCEPT ![n] = @ + 1]
        /\ pingWire' = Sends(n, "ping")
    BY <1>2 DEF SendPing
  <2>2. stat' \in [Nodes -> [Counters -> Nat]] /\ \A k \in Nodes \ {n} : stat'[k] = stat[k]
    BY <2>1, CountAdds
  <2>3. StatTypes'
    <3>1. pingWire' \in PingPaths
      BY <1>2, SendPingAdds
    <3>2. pings' \in [Nodes -> Nat]
      BY <2>1 DEF StatTypes
    <3> QED BY <1>1, <2>2, <3>1, <3>2 DEF StatTypes, PingPaths
  <2>4. \A k \in Nodes \ {n} : ColumnMoves(k)
    BY <1>1, <2>1, <2>2, ColumnOthers DEF StatTypes
  <2>5. stat'[n].packets_send = stat[n].packets_send + 1
    BY <2>1, CountRow
  <2>6. pings'[n] = pings[n] + 1
    BY <2>1 DEF StatTypes
  <2>7. ColumnAdds(n, 1, 0, 0, 0, 1)
    BY <1>1, <2>5, <2>6, ColumnTypes DEF ColumnAdds
  <2> QED BY <2>3, <2>4, <2>7 DEF ColumnMoves
<1>3. CASE ReceivePing(n)
  <2>1. /\ Count(n, {"packets_receive", "ack_receive"}) /\ UNCHANGED pings
        /\ pingWire[n].ping > 0
        /\ pingWire' = [Sends(n, "ack") EXCEPT ![n].ping = @ - 1]
    BY <1>3 DEF ReceivePing, CountPing
  <2>2. StatTypes'
    <3>1. stat' \in [Nodes -> [Counters -> Nat]]
      BY <2>1, CountAdds
    <3>3. pingWire' \in PingPaths
      BY <1>3, ReceivePingTurns
    <3> QED BY <1>1, <2>1, <3>1, <3>3 DEF StatTypes, PingPaths
  <2> QED BY <1>1, <2>1, <2>2, ColumnCounts
<1>4. CASE ReceiveAckPing(n)
  <2>1. /\ Count(n, {"ack_receive"}) /\ UNCHANGED pings /\ pingWire[n].ack > 0
        /\ pingWire' = [pingWire EXCEPT ![n].ack = @ - 1]
    BY <1>4 DEF ReceiveAckPing
  <2>2. StatTypes'
    <3>1. stat' \in [Nodes -> [Counters -> Nat]]
      BY <2>1, CountAdds
    <3>2. pingWire' \in PingPaths
      BY <1>4, AckPingTaken
    <3> QED BY <1>1, <2>1, <3>1, <3>2 DEF StatTypes, PingPaths
  <2> QED BY <1>1, <2>1, <2>2, ColumnCounts
<1> QED BY <1>2, <1>3, <1>4

LEMMA OrderedPaths ==
    ASSUME TypeInv
    PROVE  wire \in [Nodes -> Seq(Packets)] /\ Ordered
BY StatAssumption DEF TypeInv, TypeOK, Wires

\* What a loss takes from a path
LEMMA LossTakes ==
    ASSUME TypeInv, NEW n \in Nodes, Lose(n)
    PROVE  \E j \in DOMAIN wire[n] : /\ wire'[n] = RemoveAt(wire[n], j)
                                     /\ \A k \in Nodes \ {n} : wire'[k] = wire[k]
<1>1. wire \in [Nodes -> Seq(Packets)] /\ Ordered
  BY OrderedPaths
<1>2. PICK j \in DOMAIN wire[n] : wire' = [wire EXCEPT ![n] = RemoveAt(wire[n], j)]
  BY <1>1 DEF Lose, Losses
<1> QED BY <1>1, <1>2

LEMMA ColumnLose ==
    ASSUME TypeInv, StatTypes, NEW n \in Nodes, StatLose(n) \/ StatLosePing(n)
    PROVE  StatTypes' /\ \A k \in Nodes : ColumnMoves(k)
<1>1. UNCHANGED <<writeQueue, sent, flushed, pings, stat>>
  BY DEF StatLose, StatLosePing, Lose, vars, senderVars, historyVars
<1>2. \A k \in Nodes : ColumnMoves(k)
  BY <1>1, ColumnOthers
<1>3. CASE StatLose(n)
  <2>1. PICK j \in DOMAIN wire[n] : wire'[n] = RemoveAt(wire[n], j)
    BY <1>3, LossTakes DEF StatLose
  <2>2. PICK v \in Seq(Packets) : v = wire'[n]
    BY <2>1, OrderedPaths, PathShrinks
  <2>3. /\ NumberOf(wire[n], {"DATA"}) - NumberOf(v, {"DATA"}) \in Nat
        /\ NumberOf(wire[n], {"ACK"}) - NumberOf(v, {"ACK"}) \in Nat
        /\ NumberOf(v, {"DATA"}) \in Nat /\ NumberOf(v, {"ACK"}) \in Nat
        /\ NumberOf(wire[n], {"DATA"}) \in Nat /\ NumberOf(wire[n], {"ACK"}) \in Nat
    <3>1. wire[n] \in Seq(Packets) /\ v = RemoveAt(wire[n], j)
      BY <2>1, <2>2, OrderedPaths
    <3>2. /\ NumberOf(v, {"DATA"}) \in Nat /\ NumberOf(v, {"ACK"}) \in Nat
          /\ NumberOf(wire[n], {"DATA"})
               = NumberOf(v, {"DATA"}) + (IF wire[n][j].type = "DATA" THEN 1 ELSE 0)
          /\ NumberOf(wire[n], {"ACK"})
               = NumberOf(v, {"ACK"}) + (IF wire[n][j].type = "ACK" THEN 1 ELSE 0)
      BY <3>1, PathShrinks
    <3>3. PICK b \in Nat, d \in Nat : b = NumberOf(v, {"DATA"}) /\ d = NumberOf(v, {"ACK"})
      BY <3>2
    <3>4. /\ NumberOf(wire[n], {"DATA"}) = b \/ NumberOf(wire[n], {"DATA"}) = b + 1
          /\ NumberOf(wire[n], {"ACK"}) = d \/ NumberOf(wire[n], {"ACK"}) = d + 1
      BY <3>2, <3>3
    <3> QED BY <3>3, <3>4
  <2>4. lost' = [lost EXCEPT
            ![n].copies = @ + NumberOf(wire[n], {"DATA"}) - NumberOf(v, {"DATA"}),
            ![n].answers = @ + NumberOf(wire[n], {"ACK"}) - NumberOf(v, {"ACK"})]
    BY <1>3, <2>2, InFlightIsNumber DEF StatLose
  <2>5. PICK a \in Nat, b \in Nat, c \in Nat, d \in Nat :
          /\ a = NumberOf(wire[n], {"DATA"}) /\ b = NumberOf(v, {"DATA"})
          /\ c = NumberOf(wire[n], {"ACK"}) /\ d = NumberOf(v, {"ACK"})
          /\ a >= b /\ c >= d
    BY <2>3
  <2>6. /\ lost[n].copies + a - b \in Nat /\ lost[n].answers + c - d \in Nat
        /\ lost' = [lost EXCEPT ![n].copies = @ + a - b, ![n].answers = @ + c - d]
    BY <2>4, <2>5 DEF StatTypes
  <2>7. lost' \in [Nodes -> [copies : Nat, answers : Nat]]
    BY <2>6 DEF StatTypes
  <2> QED BY <1>1, <1>2, <1>3, <2>7 DEF StatTypes, StatLose
<1>4. CASE StatLosePing(n)
  <2>1. pingWire' \in PingPaths /\ lost' \in LostCounts
    BY <1>4, PingLost
  <2> QED BY <1>1, <1>2, <2>1 DEF StatTypes, PingPaths, LostCounts
<1> QED BY <1>3, <1>4

-----------------------------------------------------------------------------
ColumnInv == TypeInv /\ StatTypes /\ \A n \in Nodes : Columns(n)

LEMMA ColumnInit == StatInit => ColumnInv
<1> SUFFICES ASSUME StatInit PROVE ColumnInv
  OBVIOUS
<1>1. TypeInv
  BY TypeInit DEF StatInit
<1>2. StatTypes
  BY DEF StatInit, StatTypes, NoCounts
<1>3. ASSUME NEW n \in Nodes PROVE Columns(n)
  <2>1. /\ stat[n].packets_send = 0 /\ flushed[n] = 0 /\ sent[n] = 0 /\ pings[n] = 0
        /\ writeQueue[n] = <<>>
    BY DEF StatInit, NoCounts, Counters, Init
  <2>2. Len(writeQueue[n]) = 0
    BY <2>1, EmptySeq
  <2> QED BY <2>1, <2>2 DEF Columns
<1> QED BY <1>1, <1>2, <1>3 DEF ColumnInv

LEMMA ColumnStep == ColumnInv /\ [StatNext]_allVars => ColumnInv'
<1> SUFFICES ASSUME TypeInv, StatTypes, \A n \in Nodes : Columns(n), [StatNext]_allVars
             PROVE  ColumnInv'
  BY DEF ColumnInv
<1>1. TypeInv'
  <2>1. [Next]_vars
    BY StatIsSession DEF SessionNext, Next
  <2> QED BY <2>1, TypeStep
<1>2. StatTypes' /\ \A k \in Nodes : ColumnMoves(k)
  <2>1. CASE UNCHANGED allVars
    <3>1. UNCHANGED <<stat, pings, pingWire, flushed, lost, writeQueue, sent>>
      BY <2>1 DEF allVars, statVars, vars, senderVars, historyVars
    <3> QED BY <3>1, ColumnOthers DEF StatTypes
  <2>2. CASE StatNext
    BY <2>2, ColumnSendData, ColumnResend, ColumnFlush, ColumnReceiveAck, ColumnReceiveData,
       ColumnPings, ColumnLose DEF StatNext, StatReceive
  <2> QED BY <2>1, <2>2
<1>3. \A k \in Nodes : Columns(k)'
  BY <1>2, ColumnKept
<1> QED BY <1>1, <1>2, <1>3 DEF ColumnInv

\* A packet is counted as sent exactly once, when it leaves, and those that
\* still wait or left by a flush are not: on any path, with any loss.
\* (the end of _trudpChannelSendPacket; trudpChannelProcessReceivedPacket, case
\* TRU_ACK; trudpChannelWriteQueueProcess)
THEOREM SendsCountedOnce == StatSpec => []SendColumnExact
<1>1. ColumnInv => SendColumnExact
  <2> SUFFICES ASSUME TypeInv, StatTypes, NEW n \in Nodes, Columns(n)
               PROVE  Row(n).send + flushed[n] + Row(n).WQ = sent[n] + pings[n]
    BY DEF ColumnInv, SendColumnExact
  <2> QED BY RowReads DEF Columns
<1>2. StatInit => ColumnInv
  BY ColumnInit
<1>3. ColumnInv /\ [StatNext]_allVars => ColumnInv'
  BY ColumnStep
<1> QED BY <1>1, <1>2, <1>3, PTL DEF StatSpec

-----------------------------------------------------------------------------
\* How many payloads are received, wait and are on the way

LEMMA GotIsReceived ==
    ASSUME SessionInv, NEW n \in Nodes
    PROVE  /\ IsFiniteSet(Received(n)) /\ Received(n) \subseteq 1 .. sent[Peer[n]]
           /\ Len(delivered[n]) \in Nat /\ Cardinality(receiveQueue[n]) \in Nat
           /\ Cardinality(Received(n)) = Len(delivered[n]) + Cardinality(receiveQueue[n])
<1>1. PICK m, d, D, S, Q :
        /\ m = Peer[n] /\ d = Len(delivered[n]) /\ D = ToSet(delivered[n])
        /\ Q = receiveQueue[n] /\ S = {p.data : p \in Q}
  OBVIOUS
<1>2. /\ m \in Nodes /\ d \in Nat /\ sent[m] \in Nat /\ delivered[n] \in Seq(Payloads)
      /\ IsFiniteSet(Q)
      /\ \A x \in Q : x \in DataPackets /\ x.data \in d + 2 .. sent[m] /\ x.id = IdOf(x.data)
  BY <1>1, ReceiverFacts
<1>3. D = 1 .. d
  <2>1. DOMAIN delivered[n] = 1 .. d
    BY <1>1, <1>2, LenProperties
  <2>2. \A k \in 1 .. d : delivered[n][k] = k
    BY <2>1 DEF SessionInv, ReceiverInv
  <2> QED BY <1>1, <2>1, <2>2 DEF ToSet
<1>4. IsFiniteSet(D) /\ Cardinality(D) = d
  <2>1. 1 \in Int /\ d \in Int /\ (1 > d <=> d = 0) /\ d - 1 + 1 = d
    BY <1>2
  <2> QED BY <1>3, <2>1, FS_Interval
<1>5. IsFiniteSet(S) /\ Cardinality(S) = Cardinality(Q)
  <2>1. PICK f : f = [x \in Q |-> x.data]
    OBVIOUS
  <2>2. ASSUME NEW x \in Q, NEW y \in Q, x.data = y.data PROVE x = y
    <3>1. x \in DataPackets /\ y \in DataPackets /\ x.id = y.id
      BY <1>2, <2>2
    <3> QED BY <2>2, <3>1 DEF DataPackets
  <2>3. f \in Surjection(Q, S) /\ f \in Injection(Q, S)
    BY <1>1, <2>1, <2>2 DEF Surjection, Injection, IsInjective
  <2> QED BY <1>2, <2>3, FS_Surjection
<1>6. D \cap S = {}
  <2> SUFFICES ASSUME NEW x \in D, x \in S PROVE FALSE
    OBVIOUS
  <2> QED BY <1>1, <1>2, <1>3
<1>7. Received(n) = D \cup S
  BY <1>1 DEF Received
<1>8. /\ IsFiniteSet(D \cup S)
      /\ Cardinality(D \cup S) = Cardinality(D) + Cardinality(S) - Cardinality(D \cap S)
  BY <1>4, <1>5, FS_Union
<1>9. Cardinality(D \cap S) = 0 /\ Cardinality(Q) \in Nat
  BY <1>2, <1>6, FS_EmptySet, FS_CardinalityType
<1>10. Peer[m] = n /\ Received(n) \subseteq 1 .. sent[m]
  BY <1>1, PeerFacts, ReceivedWasSent
<1> QED BY <1>1, <1>2, <1>4, <1>5, <1>7, <1>8, <1>9, <1>10

LEMMA WaitingCounted ==
    ASSUME SessionInv, NEW n \in Nodes, QueueInv(n)
    PROVE  /\ Waiting(n) \subseteq 1 .. sent[n] /\ IsFiniteSet(Waiting(n))
           /\ Cardinality(Waiting(n)) = Len(writeQueue[n]) /\ Len(writeQueue[n]) \in Nat
<1>1. PICK w, S : w = writeQueue[n] /\ S = Waiting(n)
  OBVIOUS
<1>2. /\ w \in Seq(DataPackets) /\ Len(w) \in Nat /\ DOMAIN w = 1 .. Len(w)
      /\ \A i \in DOMAIN w : Numbered(w[i], n) /\ w[i].data \in 1 .. sent[n]
      /\ S = {w[i].data : i \in DOMAIN w}
  <2>1. /\ w \in Seq(DataPackets)
        /\ \A p \in ToSet(w) : Numbered(p, n) /\ p.data \in 1 .. sent[n]
    BY <1>1, QueuedPackets
  <2>2. Len(w) \in Nat /\ DOMAIN w = 1 .. Len(w)
    BY <2>1, LenProperties
  <2> QED BY <1>1, <2>1, <2>2 DEF ToSet, Waiting
<1>3. PICK f : f = [i \in DOMAIN w |-> w[i].data]
  OBVIOUS
<1>4. ASSUME NEW i \in DOMAIN w, NEW j \in DOMAIN w, w[i].data = w[j].data PROVE i = j
  <2>1. w[i].id = w[j].id
    BY <1>2, <1>4 DEF Numbered
  <2>2. w[i] = w[j]
    BY <1>2, <2>1, SameIdSamePacket
  <2> QED BY <1>1, <1>4, <2>2 DEF QueueInv, IsInjective
<1>5. f \in Surjection(DOMAIN w, S) /\ f \in Injection(DOMAIN w, S)
  BY <1>2, <1>3, <1>4 DEF Surjection, Injection, IsInjective
<1>6. IsFiniteSet(DOMAIN w) /\ Cardinality(DOMAIN w) = Len(w)
  <2>1. 1 \in Int /\ Len(w) \in Int /\ (1 > Len(w) <=> Len(w) = 0) /\ Len(w) - 1 + 1 = Len(w)
    BY <1>2
  <2> QED BY <1>2, <2>1, FS_Interval
<1> QED BY <1>1, <1>2, <1>5, <1>6, FS_Surjection

LEMMA CopiesCounted ==
    ASSUME NEW w \in Seq(Packets)
    PROVE  /\ IsFiniteSet(CopiesOn(w)) /\ Cardinality(CopiesOn(w)) \in Nat
           /\ Cardinality(CopiesOn(w)) <= NumberOf(w, {"DATA"})
<1>1. PICK S, T : S = PlacesOf(w, {"DATA"}) /\ T = CopiesOn(w)
  OBVIOUS
<1>2. PICK f : f = [i \in S |-> w[i].data]
  OBVIOUS
<1>3. f \in Surjection(S, T)
  BY <1>1, <1>2 DEF Surjection, CopiesOn
<1>4. IsFiniteSet(S)
  BY <1>1, PlacesFinite
<1> QED BY <1>1, <1>3, <1>4, FS_Surjection, FS_CardinalityType DEF NumberOf

-----------------------------------------------------------------------------
\* The invariant

Reach(n) == Received(Peer[n]) \cup CopiesOn(wire[Peer[n]])

\* The books of the two ends balance, and what waits has not left.
Settled(n) ==
    /\ stat[n].packets_attempt <= MaxAttempts[n]
    /\ Balanced(Book(n), Book(Peer[n]))
    /\ Waiting(n) \cap Reach(n) = {}

BooksInv == ColumnInv /\ SessionDelivery /\ \A n \in Nodes : Settled(n)

LEMMA GoneCounted ==
    ASSUME StatTypes, NEW n \in Nodes, sent[n] \in Nat
    PROVE  IsFiniteSet(Uncovered(n)) /\ Cardinality(Uncovered(n)) \in Nat
<1>1. IsFiniteSet(1 .. sent[n])
  BY FS_Interval
<1>2. Uncovered(n) \in SUBSET (1 .. sent[n])
  BY DEF Uncovered
<1> QED BY <1>1, <1>2, FS_Subset, FS_CardinalityType

LEMMA BookTyped ==
    ASSUME StatTypes, SessionInv, NEW n \in Nodes
    PROVE  Book(n) \in Books
<1>1. /\ stat[n] \in [Counters -> Nat] /\ flushed[n] \in Nat /\ pings[n] \in Nat
      /\ pingWire[n].ping \in Nat /\ pingWire[n].ack \in Nat
      /\ lost[n].copies \in Nat /\ lost[n].answers \in Nat
  BY StatPaths DEF StatTypes
<1>2. /\ stat[n].packets_send \in Nat /\ stat[n].packets_attempt \in Nat
      /\ stat[n].ack_receive \in Nat /\ stat[n].packets_receive \in Nat
      /\ stat[n].packets_receive_dropped \in Nat
  BY <1>1 DEF Counters
<1>3. /\ writeQueue[n] \in Seq(DataPackets) /\ sent[n] \in Nat
      /\ Len(writeQueue[n]) \in Nat
  BY LenProperties DEF SessionInv, TypeInv, TypeOK
<1>4. wire[n] \in Seq(Packets)
  BY OrderedPaths DEF SessionInv
<1>5. /\ Len(wire[n]) \in Nat /\ NumberOf(wire[n], {"DATA"}) \in Nat
      /\ NumberOf(wire[n], {"ACK"}) \in Nat
  BY <1>4, PlacesFinite
<1>6. Cardinality(Received(n)) \in Nat
  BY GotIsReceived, FS_CardinalityType
<1>7. Cardinality(Uncovered(n)) \in Nat
  BY <1>3, GoneCounted
<1> QED BY <1>1, <1>2, <1>3, <1>5, <1>6, <1>7 DEF Book, Books

\* What is sent finds room on the path.
LEMMA PathRoom ==
    ASSUME BooksInv, NEW n \in Nodes, NEW m, m = Peer[n]
    PROVE  /\ m \in Nodes /\ m # n /\ Peer[m] = n /\ WireCap \in Nat
           /\ wire[n] \in Seq(Packets) /\ wire[m] \in Seq(Packets)
           /\ Len(wire[n]) \in Nat /\ Len(wire[m]) \in Nat /\ Len(wire[m]) <= WireCap
           /\ (\/ sent[n] < MaxData[n] \/ stat[n].packets_attempt < MaxAttempts[n]
               \/ writeQueue[n] # <<>> \/ wire[n] # <<>>) => Len(wire[m]) + 1 <= WireCap
<1>1. /\ m \in Nodes /\ m # n /\ Peer[m] = n /\ SessionInv /\ StatTypes
      /\ Settled(n) /\ Settled(m)
  BY PeerFacts DEF BooksInv, ColumnInv, SessionDelivery
<1>2. Book(n) \in Books /\ Book(m) \in Books
  BY <1>1, BookTyped
<1>3. PICK l1 \in Nat, l2 \in Nat, w1 \in Nat, w2 \in Nat, s1 \in Nat, s2 \in Nat,
           a1 \in Nat, a2 \in Nat :
        /\ l1 = Len(wire[n]) /\ l2 = Len(wire[m])
        /\ w1 = Len(writeQueue[n]) /\ w2 = Len(writeQueue[m])
        /\ s1 = sent[n] /\ s2 = sent[m]
        /\ a1 = stat[n].packets_attempt /\ a2 = stat[m].packets_attempt
        /\ l1 + l2 + w1 + w2 <= s1 + s2 + a1 + a2
  <2>1. LoadPaid(Book(n), Book(m))
    BY <1>1 DEF Settled, Balanced
  <2>2. PICK x \in Books, y \in Books : x = Book(n) /\ y = Book(m)
    BY <1>2
  <2>3. /\ x.load = Len(wire[n]) /\ x.waits = Len(writeQueue[n])
        /\ x.sent = sent[n] /\ x.again = stat[n].packets_attempt
        /\ y.load = Len(wire[m]) /\ y.waits = Len(writeQueue[m])
        /\ y.sent = sent[m] /\ y.again = stat[m].packets_attempt
    BY <2>2 DEF Book
  <2>4. x.load + y.load + x.waits + y.waits <= x.sent + y.sent + x.again + y.again
    BY <2>1, <2>2 DEF LoadPaid
  <2>5. /\ x.load \in Nat /\ x.waits \in Nat /\ x.sent \in Nat /\ x.again \in Nat
        /\ y.load \in Nat /\ y.waits \in Nat /\ y.sent \in Nat /\ y.again \in Nat
    BY DEF Books
  <2> QED BY <2>3, <2>4, <2>5
<1>4. PICK d1 \in Nat, d2 \in Nat, b1 \in Nat, b2 \in Nat, c \in Nat :
        /\ d1 = MaxData[n] /\ d2 = MaxData[m] /\ b1 = MaxAttempts[n] /\ b2 = MaxAttempts[m]
        /\ c = WireCap /\ c >= d1 + b1 + d2 + b2
  BY <1>1, StatAssumption, WireAssumption, PeerFacts
<1>5. s1 <= d1 /\ s2 <= d2 /\ a1 <= b1 /\ a2 <= b2
  BY <1>1, <1>3, <1>4 DEF Settled, SessionInv, SenderInv
<1>6. wire[n] \in Seq(Packets) /\ wire[m] \in Seq(Packets) /\ writeQueue[n] \in Seq(DataPackets)
  BY <1>1, OrderedPaths DEF SessionInv, TypeInv, TypeOK
<1>7. /\ writeQueue[n] # <<>> => w1 >= 1
      /\ wire[n] # <<>> => l1 >= 1
  BY <1>3, <1>6, TailPlaces
<1>8. /\ l2 <= c
      /\ s1 < d1 \/ a1 < b1 \/ w1 >= 1 \/ l1 >= 1 => l2 + 1 <= c
  <2>1. l1 + l2 + w1 + w2 <= s1 + s2 + a1 + a2 /\ c >= d1 + b1 + d2 + b2
    BY <1>3, <1>4
  <2> QED BY <1>5, <2>1
<1> QED BY <1>1, <1>3, <1>4, <1>6, <1>7, <1>8

\* Sending to the other end
LEMMA OrderedSends ==
    ASSUME BooksInv, NEW n \in Nodes, NEW m, m = Peer[n]
    PROVE  /\ \A p \in Packets :
                 Transmit(n, <<p>>) /\ Len(wire[m]) + 1 <= WireCap =>
                    /\ wire'[m] = Append(wire[m], p)
                    /\ \A k \in Nodes \ {m} : wire'[k] = wire[k]
           /\ Transmit(n, <<>>) => \A k \in Nodes : wire'[k] = wire[k]
<1>1. m \in Nodes /\ wire[m] \in Seq(Packets) /\ Len(wire[m]) <= WireCap
  BY PathRoom
<1>2. Ordered /\ wire \in [Nodes -> Seq(Packets)]
  BY OrderedPaths DEF BooksInv, ColumnInv
<1>3. ASSUME NEW p \in Packets, Transmit(n, <<p>>), Len(wire[m]) + 1 <= WireCap
      PROVE  /\ wire'[m] = Append(wire[m], p)
             /\ \A k \in Nodes \ {m} : wire'[k] = wire[k]
  <2>1. Put(wire[m], <<p>>) = Append(wire[m], p)
    BY <1>1, <1>2, <1>3, PutFits
  <2> QED BY <1>1, <1>2, <1>3, <2>1 DEF Transmit
<1>4. ASSUME Transmit(n, <<>>) PROVE \A k \in Nodes : wire'[k] = wire[k]
  <2>1. \E p : p \in Packets
    <3>1. 0 \in PacketIds
      BY PacketIdLimitAssumption DEF PacketIds
    <3>2. AckPacket([id |-> 0]) \in Packets
      BY <3>1 DEF AckPacket, Packets
    <3> QED BY <3>2
  <2>2. Put(wire[m], <<>>) = wire[m]
    BY <1>1, <1>2, <2>1, PutFits
  <2> QED BY <1>1, <1>2, <1>4, <2>2 DEF Transmit
<1> QED BY <1>3, <1>4

\* Answering the first packet of the path
LEMMA OrderedAnswers ==
    ASSUME BooksInv, NEW n \in Nodes, NEW m, m = Peer[n], NEW a \in Arrivals(wire[n])
    PROVE  /\ wire[n] # <<>> /\ a.pkt = Head(wire[n]) /\ a.pkt \in Packets
           /\ a.pkt \in InFlight(wire[n])
           /\ \A p \in Packets :
                 Answer(n, a, <<p>>) =>
                    /\ wire'[n] = Tail(wire[n]) /\ wire'[m] = Append(wire[m], p)
                    /\ \A k \in Nodes \ {n, m} : wire'[k] = wire[k]
           /\ Answer(n, a, <<>>) =>
                 /\ wire'[n] = Tail(wire[n])
                 /\ \A k \in Nodes \ {n} : wire'[k] = wire[k]
<1>1. /\ m \in Nodes /\ m # n /\ wire[m] \in Seq(Packets) /\ wire[n] \in Seq(Packets)
      /\ Len(wire[m]) <= WireCap /\ (wire[n] # <<>> => Len(wire[m]) + 1 <= WireCap)
  BY PathRoom
<1>2. Ordered /\ wire \in [Nodes -> Seq(Packets)]
  BY OrderedPaths DEF BooksInv, ColumnInv
<1>3. a = [pkt |-> Head(wire[n]), rest |-> Tail(wire[n])] /\ wire[n] # <<>>
  BY <1>2 DEF Arrivals
<1>4. a.pkt = Head(wire[n]) /\ a.rest = Tail(wire[n]) /\ a.pkt \in Packets
  BY <1>1, <1>3, TailPlaces
<1>5. a.pkt \in InFlight(wire[n])
  BY ArrivalsSound DEF BooksInv, ColumnInv, TypeInv, TypeOK
<1>6. \A p \in Packets : Put(wire[m], <<p>>) = Append(wire[m], p)
  BY <1>1, <1>2, <1>3, PutFits
<1>7. Put(wire[m], <<>>) = wire[m]
  BY <1>1, <1>2, <1>4, PutFits
<1>8. ASSUME NEW p \in Packets, Answer(n, a, <<p>>)
      PROVE  /\ wire'[n] = Tail(wire[n]) /\ wire'[m] = Append(wire[m], p)
             /\ \A k \in Nodes \ {n, m} : wire'[k] = wire[k]
  BY <1>1, <1>2, <1>4, <1>6, <1>8 DEF Answer
<1>9. ASSUME Answer(n, a, <<>>)
      PROVE  /\ wire'[n] = Tail(wire[n])
             /\ \A k \in Nodes \ {n} : wire'[k] = wire[k]
  BY <1>1, <1>2, <1>4, <1>7, <1>9 DEF Answer
<1> QED BY <1>3, <1>4, <1>5, <1>8, <1>9

LEMMA PathLosesFirst ==
    ASSUME NEW w \in Seq(Packets), w # <<>>, NEW v, v = Tail(w), NEW p, p = Head(w)
    PROVE  /\ v \in Seq(Packets) /\ Len(v) = Len(w) - 1
           /\ NumberOf(v, {"DATA"}) = NumberOf(w, {"DATA"}) - (IF p.type = "DATA" THEN 1 ELSE 0)
           /\ NumberOf(v, {"ACK"}) = NumberOf(w, {"ACK"}) - (IF p.type = "ACK" THEN 1 ELSE 0)
           /\ CopiesOn(v) \subseteq CopiesOn(w)
           /\ CopiesOn(w) \subseteq CopiesOn(v) \cup (IF p.type = "DATA" THEN {p.data} ELSE {})
           /\ p.type = "DATA" => p.data \in CopiesOn(w)
<1>1. 1 \in DOMAIN w /\ v = RemoveAt(w, 1) /\ p = w[1]
  BY TailIsRemoveAt
<1>2. /\ v \in Seq(Packets) /\ Len(w) \in Nat /\ Len(w) >= 1 /\ Len(v) = Len(w) - 1
      /\ NumberOf(v, {"DATA"}) \in Nat /\ NumberOf(v, {"ACK"}) \in Nat
      /\ NumberOf(w, {"DATA"}) = NumberOf(v, {"DATA"}) + (IF p.type = "DATA" THEN 1 ELSE 0)
      /\ NumberOf(w, {"ACK"}) = NumberOf(v, {"ACK"}) + (IF p.type = "ACK" THEN 1 ELSE 0)
      /\ CopiesOn(v) \subseteq CopiesOn(w)
      /\ CopiesOn(w) \subseteq CopiesOn(v) \cup (IF p.type = "DATA" THEN {p.data} ELSE {})
  BY <1>1, PathShrinks
<1>3. PICK i \in Nat, j \in Nat : i = NumberOf(v, {"DATA"}) /\ j = NumberOf(v, {"ACK"})
  BY <1>2
<1>4. /\ NumberOf(v, {"DATA"}) = NumberOf(w, {"DATA"}) - (IF p.type = "DATA" THEN 1 ELSE 0)
      /\ NumberOf(v, {"ACK"}) = NumberOf(w, {"ACK"}) - (IF p.type = "ACK" THEN 1 ELSE 0)
  BY <1>2, <1>3
<1>5. p.type = "DATA" => p.data \in CopiesOn(w)
  BY <1>1 DEF CopiesOn, PlacesOf
<1> QED BY <1>2, <1>4, <1>5

-----------------------------------------------------------------------------
\* What a step leaves alone

Aside(k) ==
    /\ stat'[k] = stat[k] /\ flushed'[k] = flushed[k] /\ pings'[k] = pings[k]
    /\ pingWire'[k] = pingWire[k] /\ lost'[k] = lost[k]
    /\ writeQueue'[k] = writeQueue[k] /\ sent'[k] = sent[k]
    /\ Received(k)' = Received(k) /\ wire'[k] = wire[k]

LEMMA AsideSettled ==
    ASSUME NEW n \in Nodes, NEW m, m = Peer[n], NEW k \in Nodes \ {n, m},
           \A i \in Nodes \ {n, m} : Aside(i), Settled(k)
    PROVE  Settled(k)'
<1>1. Peer[k] \in Nodes \ {n, m}
  <2>1. Peer[k] \in Nodes /\ Peer[Peer[k]] = k /\ Peer[m] = n
    BY PeerFacts
  <2> QED BY <2>1
<1>2. Aside(k) /\ Aside(Peer[k])
  BY <1>1
<1>3. /\ Waiting(k)' = Waiting(k) /\ Reach(k)' = Reach(k)
      /\ Waiting(Peer[k])' = Waiting(Peer[k]) /\ Reach(Peer[k])' = Reach(Peer[k])
  <2>1. Peer[Peer[k]] = k
    BY PeerFacts
  <2> QED BY <1>2, <2>1 DEF Aside, Waiting, Reach
<1>4. Uncovered(k)' = Uncovered(k) /\ Uncovered(Peer[k])' = Uncovered(Peer[k])
  BY <1>2, <1>3 DEF Aside, Uncovered, Covered, Reach
<1>5. Book(k)' = Book(k) /\ Book(Peer[k])' = Book(Peer[k])
  BY <1>2, <1>4 DEF Aside, Book
<1>6. stat'[k] = stat[k]
  BY <1>2 DEF Aside
<1> HIDE DEF Book
<1>7. Balanced(Book(k), Book(Peer[k]))'
  BY <1>5 DEF Settled, Balanced, CopiesAdd, AnswersAdd, PingsBound, GonePaid, LoadPaid
<1> QED BY <1>3, <1>6, <1>7 DEF Settled

\* Nothing is lost track of when what is covered stays covered.
LEMMA NoneGone ==
    ASSUME NEW k \in Nodes, sent[k] \in Nat, StatTypes, Uncovered(k)' \subseteq Uncovered(k)
    PROVE  Fewer(Book(k), Book(k)')
<1>1. IsFiniteSet(Uncovered(k)) /\ Cardinality(Uncovered(k)) \in Nat
  BY GoneCounted
<1>2. Uncovered(k)' \in SUBSET Uncovered(k)
  OBVIOUS
<1>3. PICK S, T : S = Uncovered(k) /\ T = Uncovered(k)'
  OBVIOUS
<1>4. IsFiniteSet(T) /\ Cardinality(T) <= Cardinality(S) /\ Cardinality(T) \in Nat
  BY <1>1, <1>2, <1>3, FS_Subset, FS_CardinalityType
<1>5. Book(k).gone = Cardinality(S) /\ Book(k)'.gone = Cardinality(T)
  BY <1>3 DEF Book
<1> QED BY <1>4, <1>5 DEF Fewer

LEMMA OneGone ==
    ASSUME NEW k \in Nodes, sent[k] \in Nat, StatTypes, NEW d,
           Uncovered(k)' \subseteq Uncovered(k) \cup {d}
    PROVE  Book(k)'.gone \in Nat /\ Book(k)'.gone <= Book(k).gone + 1
<1>1. IsFiniteSet(Uncovered(k)) /\ Cardinality(Uncovered(k)) \in Nat
  BY GoneCounted
<1>2. PICK S, T, U : S = Uncovered(k) /\ T = Uncovered(k)' /\ U = S \cup {d}
  OBVIOUS
<1>3. IsFiniteSet(U) /\ Cardinality(U) \in Nat /\ Cardinality(U) <= Cardinality(S) + 1
  <2>1. /\ IsFiniteSet(U)
        /\ Cardinality(U) = IF d \in S THEN Cardinality(S) ELSE Cardinality(S) + 1
    BY <1>1, <1>2, FS_AddElement
  <2> QED BY <1>1, <1>2, <2>1
<1>4. IsFiniteSet(T) /\ Cardinality(T) <= Cardinality(U) /\ Cardinality(T) \in Nat
  <2>1. T \in SUBSET U
    BY <1>2
  <2> QED BY <1>3, <2>1, FS_Subset, FS_CardinalityType
<1>5. Book(k).gone = Cardinality(S) /\ Book(k)'.gone = Cardinality(T)
  BY <1>2 DEF Book
<1>6. Cardinality(S) \in Nat
  BY <1>1, <1>2
<1> QED BY <1>3, <1>4, <1>5, <1>6

-----------------------------------------------------------------------------
\* An entry in the books of n and of its peer m

Apart(k) == Waiting(k) \cap Reach(k) = {}
Attempts(k) == stat[k].packets_attempt <= MaxAttempts[k]

LEMMA EntrySettles ==
    ASSUME BooksInv, NEW n \in Nodes, NEW m, m = Peer[n],
           Entry(Book(n), Book(m), Book(n)', Book(m)'),
           \A i \in Nodes \ {n, m} : Aside(i),
           Apart(n)', Apart(m)', Attempts(n)', Attempts(m)'
    PROVE  \A k \in Nodes : Settled(k)'
<1>1. /\ m \in Nodes /\ m # n /\ Peer[m] = n /\ SessionInv /\ StatTypes
      /\ \A k \in Nodes : Settled(k)
  BY PeerFacts DEF BooksInv, ColumnInv, SessionDelivery
<1>2. PICK x \in Books, y \in Books : x = Book(n) /\ y = Book(m)
  BY <1>1, BookTyped
<1>3. PICK v, w : v = Book(n)' /\ w = Book(m)'
  OBVIOUS
<1>4. BothBalanced(x, y)
  BY <1>1, <1>2 DEF BothBalanced, Settled
<1>5. Entry(x, y, v, w)
  BY <1>2, <1>3
<1>6. BothBalanced(v, w)
  BY <1>4, <1>5, EntryBalances
<1>7. Balanced(Book(n), Book(m))' /\ Balanced(Book(m), Book(n))'
  BY <1>3, <1>6 DEF BothBalanced, Balanced, CopiesAdd, AnswersAdd, PingsBound, GonePaid, LoadPaid
<1>8. Settled(n)' /\ Settled(m)'
  BY <1>1, <1>7 DEF Settled, Apart, Attempts
<1>9. ASSUME NEW k \in Nodes \ {n, m} PROVE Settled(k)'
  BY <1>1, AsideSettled
<1> QED BY <1>8, <1>9

\* What the actions of PINGs leave alone
LEMMA PingsAside ==
    ASSUME UNCHANGED vars
    PROVE  /\ \A k \in Nodes :
                 /\ Waiting(k)' = Waiting(k) /\ Reach(k)' = Reach(k)
                 /\ Received(k)' = Received(k) /\ Uncovered(k)' = Uncovered(k)
                 /\ writeQueue'[k] = writeQueue[k] /\ sent'[k] = sent[k] /\ wire'[k] = wire[k]
<1>1. UNCHANGED <<writeQueue, sent, wire, receiveQueue, delivered>>
  BY DEF vars, senderVars, receiverVars, historyVars
<1>2. \A k : Waiting(k)' = Waiting(k) /\ Received(k)' = Received(k)
  BY <1>1 DEF Waiting, Received
<1>3. \A k : Reach(k)' = Reach(k)
  BY <1>1, <1>2 DEF Reach
<1>4. \A k : Uncovered(k)' = Uncovered(k)
  BY <1>1, <1>2 DEF Uncovered, Covered
<1> QED BY <1>1, <1>2, <1>3, <1>4

LEMMA PingEntry ==
    ASSUME BooksInv, NEW n \in Nodes, NEW m, m = Peer[n],
           SendPing(n) \/ ReceivePing(n) \/ ReceiveAckPing(n) \/ StatLosePing(n)
    PROVE  \A k \in Nodes : Settled(k)'
<1>1. /\ m \in Nodes /\ m # n /\ Peer[m] = n /\ SessionInv /\ StatTypes
      /\ \A k \in Nodes : Settled(k)
  BY PeerFacts DEF BooksInv, ColumnInv, SessionDelivery
<1>2. UNCHANGED vars
  BY DEF SendPing, ReceivePing, ReceiveAckPing, StatLosePing
<1>3. \A k \in Nodes : /\ Waiting(k)' = Waiting(k) /\ Reach(k)' = Reach(k)
                       /\ Received(k)' = Received(k) /\ Uncovered(k)' = Uncovered(k)
                       /\ writeQueue'[k] = writeQueue[k] /\ sent'[k] = sent[k]
                       /\ wire'[k] = wire[k]
  BY <1>2, PingsAside
<1>4. Apart(n)' /\ Apart(m)'
  BY <1>1, <1>3 DEF Apart, Settled
<1>5. Fewer(Book(n), Book(n)') /\ Fewer(Book(m), Book(m)')
  <2>1. \A k \in Nodes : sent[k] \in Nat
    BY <1>1 DEF SessionInv, TypeInv, TypeOK
  <2> QED BY <1>1, <1>3, <2>1, NoneGone
<1>6. ASSUME Attempts(n)', Attempts(m)', \A i \in Nodes \ {n, m} : Aside(i),
             Post(Book(n), Book(m), Book(n)', Book(m)', {"send", "pings"}, {}, {"ping"})
             \/ Post(Book(n), Book(m), Book(n)', Book(m)', {"recv", "ack"}, {"ping"}, {"pong"})
             \/ Post(Book(n), Book(m), Book(n)', Book(m)', {"ack"}, {"pong"}, {})
             \/ Post(Book(n), Book(m), Book(n)', Book(m)', {"copies"}, {"ping"}, {})
             \/ Post(Book(n), Book(m), Book(n)', Book(m)', {"answers"}, {"pong"}, {})
      PROVE  \A k \in Nodes : Settled(k)'
  <2>1. Entry(Book(n), Book(m), Book(n)', Book(m)')
    BY <1>5, <1>6 DEF Entry, EntryPing, EntryPinged, EntryPonged, EntryLostPing, EntryLostPong
  <2> QED BY <1>4, <1>6, <2>1, EntrySettles
<1>7. CASE SendPing(n)
  <2>1. /\ Count(n, {"packets_send"}) /\ pings' = [pings EXCEPT ![n] = pings[n] + 1]
        /\ UNCHANGED <<flushed, lost>>
    BY <1>7 DEF SendPing
  <2>2. /\ stat'[n].packets_send = stat[n].packets_send + 1
        /\ stat'[n].packets_attempt = stat[n].packets_attempt
        /\ stat'[n].ack_receive = stat[n].ack_receive
        /\ stat'[n].packets_receive = stat[n].packets_receive
        /\ stat'[n].packets_receive_dropped = stat[n].packets_receive_dropped
        /\ \A k \in Nodes \ {n} : stat'[k] = stat[k]
    BY <1>1, <2>1, CountGives
  <2>3. pings'[n] = pings[n] + 1 /\ \A k \in Nodes \ {n} : pings'[k] = pings[k]
    BY <1>1, <2>1 DEF StatTypes
  <2>4. /\ pingWire'[m].ping = pingWire[m].ping + 1 /\ pingWire'[m].ack = pingWire[m].ack
        /\ \A k \in Nodes \ {m} : pingWire'[k] = pingWire[k]
    BY <1>1, <1>7, SendPingAdds
  <2>5. Turn(Book(n), Book(n)', {"send", "pings"}, {}) /\ Turn(Book(m), Book(m)', {"ping"}, {})
    BY <1>1, <1>3, <2>1, <2>2, <2>3, <2>4 DEF Turn, Lines, Book
  <2>6. \A i \in Nodes \ {n, m} : Aside(i)
    BY <1>3, <2>1, <2>2, <2>3, <2>4 DEF Aside
  <2>7. Attempts(n)' /\ Attempts(m)'
    BY <1>1, <2>2 DEF Attempts, Settled
  <2> QED BY <1>6, <2>5, <2>6, <2>7 DEF Post
<1>8. CASE ReceivePing(n)
  <2>1. Count(n, {"packets_receive", "ack_receive"}) /\ UNCHANGED <<pings, flushed, lost>>
    BY <1>8 DEF ReceivePing, CountPing
  <2>2. /\ stat'[n].packets_send = stat[n].packets_send
        /\ stat'[n].packets_attempt = stat[n].packets_attempt
        /\ stat'[n].ack_receive = stat[n].ack_receive + 1
        /\ stat'[n].packets_receive = stat[n].packets_receive + 1
        /\ stat'[n].packets_receive_dropped = stat[n].packets_receive_dropped
        /\ \A k \in Nodes \ {n} : stat'[k] = stat[k]
    BY <1>1, <2>1, CountGives
  <2>4. /\ pingWire'[n].ping = pingWire[n].ping - 1 /\ pingWire'[n].ack = pingWire[n].ack
        /\ pingWire'[m].ping = pingWire[m].ping /\ pingWire'[m].ack = pingWire[m].ack + 1
        /\ \A k \in Nodes \ {n, m} : pingWire'[k] = pingWire[k]
    BY <1>1, <1>8, ReceivePingTurns
  <2>5. /\ Turn(Book(n), Book(n)', {"recv", "ack"}, {"ping"})
        /\ Turn(Book(m), Book(m)', {"pong"}, {})
    BY <1>1, <1>3, <2>1, <2>2, <2>4 DEF Turn, Lines, Book
  <2>6. \A i \in Nodes \ {n, m} : Aside(i)
    BY <1>3, <2>1, <2>2, <2>4 DEF Aside
  <2>7. Attempts(n)' /\ Attempts(m)'
    BY <1>1, <2>2 DEF Attempts, Settled
  <2> QED BY <1>6, <2>5, <2>6, <2>7 DEF Post
<1>9. CASE ReceiveAckPing(n)
  <2>1. Count(n, {"ack_receive"}) /\ UNCHANGED <<pings, flushed, lost>>
    BY <1>9 DEF ReceiveAckPing
  <2>2. /\ stat'[n].packets_send = stat[n].packets_send
        /\ stat'[n].packets_attempt = stat[n].packets_attempt
        /\ stat'[n].ack_receive = stat[n].ack_receive + 1
        /\ stat'[n].packets_receive = stat[n].packets_receive
        /\ stat'[n].packets_receive_dropped = stat[n].packets_receive_dropped
        /\ \A k \in Nodes \ {n} : stat'[k] = stat[k]
    BY <1>1, <2>1, CountGives
  <2>4. /\ pingWire'[n].ping = pingWire[n].ping /\ pingWire'[n].ack = pingWire[n].ack - 1
        /\ \A k \in Nodes \ {n} : pingWire'[k] = pingWire[k]
    BY <1>1, <1>9, AckPingTaken
  <2>5. Turn(Book(n), Book(n)', {"ack"}, {"pong"}) /\ Turn(Book(m), Book(m)', {}, {})
    BY <1>1, <1>3, <2>1, <2>2, <2>4 DEF Turn, Lines, Book
  <2>6. \A i \in Nodes \ {n, m} : Aside(i)
    BY <1>3, <2>1, <2>2, <2>4 DEF Aside
  <2>7. Attempts(n)' /\ Attempts(m)'
    BY <1>1, <2>2 DEF Attempts, Settled
  <2> QED BY <1>6, <2>5, <2>6, <2>7 DEF Post
<1>10. CASE StatLosePing(n)
  <2>1. UNCHANGED <<stat, pings, flushed>>
    BY <1>10 DEF StatLosePing
  <2>2. /\ \A k \in Nodes \ {n} : pingWire'[k] = pingWire[k] /\ lost'[k] = lost[k]
        /\ PingTaken(n) \/ PongTaken(n)
    BY <1>1, <1>10, PingLost
  <2>3. Turn(Book(m), Book(m)', {}, {})
    BY <1>1, <1>3, <2>1, <2>2 DEF Turn, Lines, Book
  <2>4. PingTaken(n) => Turn(Book(n), Book(n)', {"copies"}, {"ping"})
    BY <1>1, <1>3, <2>1 DEF Turn, Lines, Book, PingTaken
  <2>5. PongTaken(n) => Turn(Book(n), Book(n)', {"answers"}, {"pong"})
    BY <1>1, <1>3, <2>1 DEF Turn, Lines, Book, PongTaken
  <2>6. \A i \in Nodes \ {n, m} : Aside(i)
    BY <1>3, <2>1, <2>2 DEF Aside
  <2>7. Attempts(n)' /\ Attempts(m)'
    BY <1>1, <2>1 DEF Attempts, Settled
  <2> QED BY <1>6, <2>2, <2>3, <2>4, <2>5, <2>6, <2>7 DEF Post
<1> QED BY <1>7, <1>8, <1>9, <1>10

-----------------------------------------------------------------------------
\* Sending

LEMMA BooksGive ==
    ASSUME BooksInv, NEW n \in Nodes, NEW m, m = Peer[n]
    PROVE  /\ m \in Nodes /\ m # n /\ Peer[m] = n /\ TypeInv /\ StatTypes
           /\ SessionInv /\ DeliveryInv /\ QueueInv(n)
           /\ Apart(n) /\ Apart(m) /\ Attempts(n) /\ Attempts(m)
           /\ sent[n] \in Nat /\ sent[m] \in Nat /\ MaxData[n] \in Nat
           /\ Waiting(n) \subseteq 1 .. sent[n] /\ Reach(n) \subseteq 1 .. sent[n]
           /\ Received(m) \subseteq 1 .. sent[n]
           /\ wire[n] \in Seq(Packets) /\ wire[m] \in Seq(Packets)
           /\ writeQueue[n] \in Seq(DataPackets) /\ sendQueue[n] \in Seq(DataPackets)
<1>1. /\ m \in Nodes /\ m # n /\ Peer[m] = n /\ TypeInv /\ StatTypes
      /\ SessionInv /\ DeliveryInv /\ Settled(n) /\ Settled(m)
  BY PeerFacts DEF BooksInv, ColumnInv, SessionDelivery
<1>2. QueueInv(n)
  BY <1>1 DEF DeliveryInv
<1>3. Apart(n) /\ Apart(m) /\ Attempts(n) /\ Attempts(m)
  BY <1>1 DEF Settled, Apart, Attempts
<1>4. Waiting(n) \subseteq 1 .. sent[n]
  BY <1>1, <1>2, WaitingCounted
<1>5. Received(m) \subseteq 1 .. sent[n]
  BY <1>1, GotIsReceived
<1>6. wire[n] \in Seq(Packets) /\ wire[m] \in Seq(Packets)
  BY PathRoom
<1>7. CopiesOn(wire[m]) \subseteq 1 .. sent[n]
  <2>1. ASSUME NEW i \in DOMAIN wire[m], wire[m][i].type = "DATA"
        PROVE  wire[m][i].data \in 1 .. sent[n]
    <3>1. wire[m][i] \in InFlight(wire[m])
      BY <1>1, OrderedPaths DEF InFlight, ToSet
    <3> QED BY <1>1, <2>1, <3>1 DEF SessionInv, WireInv, Numbered
  <2> QED BY <2>1 DEF CopiesOn, PlacesOf
<1>8. Reach(n) \subseteq 1 .. sent[n]
  BY <1>1, <1>5, <1>7 DEF Reach
<1>9. sent[n] \in Nat /\ sent[m] \in Nat /\ MaxData[n] \in Nat
  BY <1>1, PeerFacts DEF TypeInv, TypeOK
<1> QED BY <1>1, <1>2, <1>3, <1>4, <1>5, <1>6, <1>8, <1>9, QueuedPackets

\* A copy of n's payload d is put on the path to m.
Leaves(n, m, d) ==
    /\ Len(wire'[m]) = Len(wire[m]) + 1
    /\ NumberOf(wire'[m], {"DATA"}) = NumberOf(wire[m], {"DATA"}) + 1
    /\ NumberOf(wire'[m], {"ACK"}) = NumberOf(wire[m], {"ACK"})
    /\ CopiesOn(wire'[m]) = CopiesOn(wire[m]) \cup {d}

LEMMA CopyLeaves ==
    ASSUME BooksInv, NEW n \in Nodes, NEW m, m = Peer[n], NEW p \in DataPackets,
           wire'[m] = Append(wire[m], p)
    PROVE  Leaves(n, m, p.data)
<1>1. wire[m] \in Seq(Packets) /\ p \in Packets /\ p.type = "DATA"
  BY PathRoom DEF Packets, DataPackets
<1>2. /\ Len(Append(wire[m], p)) = Len(wire[m]) + 1
      /\ NumberOf(Append(wire[m], p), {"DATA"})
           = NumberOf(wire[m], {"DATA"}) + (IF p.type = "DATA" THEN 1 ELSE 0)
      /\ NumberOf(Append(wire[m], p), {"ACK"})
           = NumberOf(wire[m], {"ACK"}) + (IF p.type = "ACK" THEN 1 ELSE 0)
      /\ CopiesOn(Append(wire[m], p))
           = CopiesOn(wire[m]) \cup (IF p.type = "DATA" THEN {p.data} ELSE {})
  BY <1>1, PathGrows
<1>3. NumberOf(wire[m], {"ACK"}) \in Nat
  BY <1>1, PlacesFinite
<1> QED BY <1>1, <1>2, <1>3 DEF Leaves

\* What no step of a sender changes
SenderFrame(n, m) ==
    /\ UNCHANGED <<pings, pingWire, lost>>
    /\ \A k \in Nodes : Received(k)' = Received(k)
    /\ \A k \in Nodes \ {m} : wire'[k] = wire[k]
    /\ \A k \in Nodes \ {n} : /\ stat'[k] = stat[k] /\ flushed'[k] = flushed[k]
                              /\ writeQueue'[k] = writeQueue[k] /\ sent'[k] = sent[k]

LEMMA CopyBooked ==
    ASSUME NEW n \in Nodes, NEW m, m = Peer[n], NEW d, SenderFrame(n, m), Leaves(n, m, d)
    PROVE  Turn(Book(m), Book(m)', {"load", "data"}, {})
<1>1. m \in Nodes /\ m # n
  BY PeerFacts
<1>2. /\ UNCHANGED <<pings, pingWire, lost>> /\ Received(m)' = Received(m)
      /\ stat'[m] = stat[m] /\ flushed'[m] = flushed[m]
      /\ writeQueue'[m] = writeQueue[m] /\ sent'[m] = sent[m]
  BY <1>1 DEF SenderFrame
<1>3. /\ Len(wire'[m]) = Len(wire[m]) + 1
      /\ NumberOf(wire'[m], {"DATA"}) = NumberOf(wire[m], {"DATA"}) + 1
      /\ NumberOf(wire'[m], {"ACK"}) = NumberOf(wire[m], {"ACK"})
  BY DEF Leaves
<1> QED BY <1>2, <1>3 DEF Turn, Lines, Book

LEMMA SenderSettles ==
    ASSUME BooksInv, NEW n \in Nodes, NEW m, m = Peer[n], SenderFrame(n, m),
           Apart(n)', Attempts(n)', sent'[n] \in Nat,
           Uncovered(n)' \subseteq Uncovered(n),
           \/ EntrySent(Book(n), Book(m), Book(n)', Book(m)')
           \/ EntryKept(Book(n), Book(m), Book(n)', Book(m)')
           \/ EntryAgain(Book(n), Book(m), Book(n)', Book(m)')
           \/ EntryFlushed(Book(n), Book(m), Book(n)', Book(m)')
    PROVE  \A k \in Nodes : Settled(k)'
<1>1. /\ m \in Nodes /\ m # n /\ Peer[m] = n /\ StatTypes /\ Apart(m) /\ Attempts(m)
      /\ sent[n] \in Nat /\ sent[m] \in Nat
  BY BooksGive
<1>2. Waiting(m)' = Waiting(m) /\ Reach(m)' = Reach(m) /\ sent'[m] = sent[m]
  BY <1>1 DEF SenderFrame, Waiting, Reach
<1>3. Uncovered(m)' = Uncovered(m)
  BY <1>1, <1>2 DEF Uncovered, Covered, Reach
<1>4. Fewer(Book(n), Book(n)') /\ Fewer(Book(m), Book(m)')
  BY <1>1, <1>3, NoneGone
<1>5. Entry(Book(n), Book(m), Book(n)', Book(m)')
  BY <1>4 DEF Entry
<1>6. \A i \in Nodes \ {n, m} : Aside(i)
  BY DEF SenderFrame, Aside
<1>7. Apart(m)' /\ Attempts(m)'
  BY <1>1, <1>2 DEF Apart, Attempts, SenderFrame
<1> QED BY <1>5, <1>6, <1>7, EntrySettles

LEMMA ResendEntry ==
    ASSUME BooksInv, NEW n \in Nodes, StatResend(n)
    PROVE  \A k \in Nodes : Settled(k)'
<1>1. PICK m : m = Peer[n]
  OBVIOUS
<1>2. /\ m \in Nodes /\ m # n /\ StatTypes /\ SessionInv /\ DeliveryInv /\ QueueInv(n)
      /\ Apart(n) /\ sent[n] \in Nat /\ sendQueue[n] \in Seq(DataPackets)
  BY <1>1, BooksGive
<1>3. PICK h : h = Head(sendQueue[n])
  OBVIOUS
<1>4. /\ stat[n].packets_attempt < MaxAttempts[n] /\ sendQueue[n] # <<>>
      /\ Transmit(n, <<h>>) /\ Count(n, {"packets_attempt"})
      /\ UNCHANGED <<writeQueue, sent, delivered, receiveQueue, pings, pingWire, flushed, lost>>
  BY <1>3 DEF StatResend, Resend, senderVars, receiverVars, historyVars
<1>5. h \in DataPackets /\ h \in ToSet(sendQueue[n]) /\ h \in Packets
  BY <1>2, <1>3, <1>4, HeadElement DEF Packets
<1>6. wire'[m] = Append(wire[m], h) /\ \A k \in Nodes \ {m} : wire'[k] = wire[k]
  BY <1>1, <1>4, <1>5, OrderedSends, PathRoom
<1>7. Leaves(n, m, h.data)
  BY <1>1, <1>5, <1>6, CopyLeaves
<1>8. /\ stat'[n].packets_send = stat[n].packets_send
      /\ stat'[n].packets_attempt = stat[n].packets_attempt + 1
      /\ stat'[n].ack_receive = stat[n].ack_receive
      /\ stat'[n].packets_receive = stat[n].packets_receive
      /\ stat'[n].packets_receive_dropped = stat[n].packets_receive_dropped
      /\ stat[n].packets_attempt \in Nat
      /\ \A k \in Nodes \ {n} : stat'[k] = stat[k]
  BY <1>2, <1>4, CountGives
<1>9. \A k \in Nodes : Received(k)' = Received(k) /\ Waiting(k)' = Waiting(k)
  BY <1>4 DEF Received, Waiting
<1>10. SenderFrame(n, m)
  BY <1>4, <1>6, <1>8, <1>9 DEF SenderFrame
<1>11. Reach(n)' = Reach(n) \cup {h.data}
  BY <1>1, <1>2, <1>7, <1>9 DEF Reach, Leaves
<1>12. h.data \notin Waiting(n)
  <2> SUFFICES ASSUME NEW p \in ToSet(writeQueue[n]), p.data = h.data PROVE FALSE
    BY DEF Waiting
  <2>1. Numbered(p, n) /\ Numbered(h, n)
    BY <1>2, <1>5, QueuedPackets
  <2>2. p.id = h.id
    BY <2>1 DEF Numbered
  <2>3. p = h
    BY <1>2, <2>1, <2>2, SameIdSamePacket
  <2> QED BY <1>2, <1>5, <2>3 DEF QueueInv
<1>13. Apart(n)'
  BY <1>2, <1>9, <1>11, <1>12 DEF Apart
<1>14. Uncovered(n)' \subseteq Uncovered(n)
  <2>1. Covered(n) = Waiting(n) \cup Reach(n) /\ Covered(n)' = Waiting(n)' \cup Reach(n)'
    BY DEF Covered, Reach
  <2> QED BY <1>4, <1>9, <1>11, <2>1 DEF Uncovered
<1>15. Attempts(n)'
  <2>1. MaxAttempts[n] \in Nat
    BY StatAssumption
  <2> QED BY <1>4, <1>8, <2>1 DEF Attempts
<1>16. Turn(Book(n), Book(n)', {"again"}, {}) /\ Turn(Book(m), Book(m)', {"load", "data"}, {})
  <2>1. Turn(Book(n), Book(n)', {"again"}, {})
    BY <1>2, <1>4, <1>6, <1>8, <1>9 DEF Turn, Lines, Book
  <2> QED BY <1>1, <1>7, <1>10, <2>1, CopyBooked
<1>17. EntryAgain(Book(n), Book(m), Book(n)', Book(m)')
  BY <1>16 DEF EntryAgain, Post
<1> QED BY <1>1, <1>2, <1>4, <1>10, <1>13, <1>14, <1>15, <1>17, SenderSettles

\* The first packet leaves the write queue.
LEMMA WaitingTail ==
    ASSUME SessionInv, NEW n \in Nodes, QueueInv(n), writeQueue[n] # <<>>,
           writeQueue'[n] = Tail(writeQueue[n]), NEW h, h = Head(writeQueue[n])
    PROVE  /\ Len(writeQueue'[n]) = Len(writeQueue[n]) - 1
           /\ Waiting(n)' \subseteq Waiting(n) /\ Waiting(n) \subseteq Waiting(n)' \cup {h.data}
           /\ h.data \notin Waiting(n)' /\ h.data \in Waiting(n)
<1>1. PICK w, v : w = writeQueue[n] /\ v = writeQueue'[n]
  OBVIOUS
<1>2. w \in Seq(DataPackets) /\ w # <<>> /\ v = Tail(w) /\ h = Head(w) /\ IsInjective(w)
  BY <1>1, QueuedPackets DEF QueueInv
<1>3. /\ Len(v) = Len(w) - 1 /\ h \in ToSet(w) /\ h \notin ToSet(v)
      /\ ToSet(v) \subseteq ToSet(w) /\ ToSet(w) \subseteq ToSet(v) \cup {h}
  BY <1>2, TailPlaces, HeadElement, TailElements, HeadAndTail, InjectiveTail
<1>4. Waiting(n) = {p.data : p \in ToSet(w)} /\ Waiting(n)' = {p.data : p \in ToSet(v)}
  BY <1>1 DEF Waiting
<1>5. ASSUME NEW p \in ToSet(v), p.data = h.data PROVE FALSE
  <2>1. Numbered(p, n) /\ Numbered(h, n)
    BY <1>1, <1>3, QueuedPackets
  <2>2. p.id = h.id
    BY <1>5, <2>1 DEF Numbered
  <2> QED BY <1>3, <1>5, <2>1, <2>2, SameIdSamePacket
<1> QED BY <1>1, <1>3, <1>4, <1>5

LEMMA FlushEntry ==
    ASSUME BooksInv, NEW n \in Nodes, StatFlush(n)
    PROVE  \A k \in Nodes : Settled(k)'
<1>1. PICK m : m = Peer[n]
  OBVIOUS
<1>2. /\ m \in Nodes /\ m # n /\ TypeInv /\ StatTypes /\ SessionInv /\ QueueInv(n)
      /\ Apart(n) /\ Attempts(n) /\ sent[n] \in Nat /\ writeQueue[n] \in Seq(DataPackets)
  BY <1>1, BooksGive
<1>3. PICK h : h = Head(writeQueue[n])
  OBVIOUS
<1>4. /\ writeQueue[n] # <<>> /\ Transmit(n, <<h>>)
      /\ writeQueue' = [writeQueue EXCEPT ![n] = Tail(@)]
      /\ flushed' = [flushed EXCEPT ![n] = @ + 1]
      /\ UNCHANGED <<sent, delivered, receiveQueue, stat, pings, pingWire, lost>>
  BY <1>3 DEF StatFlush, FlushWriteQueue, receiverVars, historyVars
<1>5. h \in DataPackets /\ h \in ToSet(writeQueue[n]) /\ h \in Packets
  BY <1>2, <1>3, <1>4, HeadElement DEF Packets
<1>6. wire'[m] = Append(wire[m], h) /\ \A k \in Nodes \ {m} : wire'[k] = wire[k]
  BY <1>1, <1>4, <1>5, OrderedSends, PathRoom
<1>7. Leaves(n, m, h.data)
  BY <1>1, <1>5, <1>6, CopyLeaves
<1>8. /\ writeQueue'[n] = Tail(writeQueue[n]) /\ flushed'[n] = flushed[n] + 1
      /\ \A k \in Nodes \ {n} : writeQueue'[k] = writeQueue[k] /\ flushed'[k] = flushed[k]
  BY <1>2, <1>4 DEF TypeInv, TypeOK, StatTypes
<1>9. /\ Len(writeQueue'[n]) = Len(writeQueue[n]) - 1
      /\ Waiting(n)' \subseteq Waiting(n) /\ Waiting(n) \subseteq Waiting(n)' \cup {h.data}
      /\ h.data \notin Waiting(n)'
  BY <1>2, <1>3, <1>4, <1>8, WaitingTail
<1>10. \A k \in Nodes : Received(k)' = Received(k)
  BY <1>4 DEF Received
<1>11. SenderFrame(n, m)
  BY <1>4, <1>6, <1>8, <1>10 DEF SenderFrame
<1>12. Reach(n)' = Reach(n) \cup {h.data}
  BY <1>1, <1>2, <1>7, <1>10 DEF Reach, Leaves
<1>13. Apart(n)'
  BY <1>2, <1>9, <1>12 DEF Apart
<1>14. Uncovered(n)' \subseteq Uncovered(n)
  <2>1. Covered(n) = Waiting(n) \cup Reach(n) /\ Covered(n)' = Waiting(n)' \cup Reach(n)'
    BY DEF Covered, Reach
  <2> QED BY <1>4, <1>9, <1>12, <2>1 DEF Uncovered
<1>15. Attempts(n)'
  BY <1>2, <1>4 DEF Attempts
<1>16. /\ Turn(Book(n), Book(n)', {"flushed"}, {"waits"})
       /\ Turn(Book(m), Book(m)', {"load", "data"}, {})
  <2>1. Turn(Book(n), Book(n)', {"flushed"}, {"waits"})
    BY <1>2, <1>4, <1>6, <1>8, <1>9, <1>10 DEF Turn, Lines, Book
  <2> QED BY <1>1, <1>7, <1>11, <2>1, CopyBooked
<1>17. EntryFlushed(Book(n), Book(m), Book(n)', Book(m)')
  BY <1>16 DEF EntryFlushed, Post
<1> QED BY <1>1, <1>2, <1>4, <1>11, <1>13, <1>14, <1>15, <1>17, SenderSettles

LEMMA SendDataEntry ==
    ASSUME BooksInv, NEW n \in Nodes, StatSendData(n)
    PROVE  \A k \in Nodes : Settled(k)'
<1>1. PICK m, d, p : m = Peer[n] /\ d = sent[n] + 1 /\ p = DataPacket(sendId[n], d)
  OBVIOUS
<1>2. /\ m \in Nodes /\ m # n /\ TypeInv /\ StatTypes /\ SessionInv
      /\ Apart(n) /\ Attempts(n) /\ sent[n] \in Nat /\ MaxData[n] \in Nat
      /\ Waiting(n) \subseteq 1 .. sent[n] /\ Reach(n) \subseteq 1 .. sent[n]
      /\ writeQueue[n] \in Seq(DataPackets) /\ sendQueue[n] \in Seq(DataPackets)
  BY <1>1, BooksGive
<1>3. PICK r : r = SendPacket(sendQueue[n], writeQueue[n], p)
  OBVIOUS
<1>4. /\ sent[n] < MaxData[n] /\ sent' = [sent EXCEPT ![n] = @ + 1]
      /\ sendQueue' = [sendQueue EXCEPT ![n] = r.sq]
      /\ writeQueue' = [writeQueue EXCEPT ![n] = r.wq]
      /\ Transmit(n, r.out)
      /\ UNCHANGED <<receiveQueue, delivered, pings, pingWire, flushed, lost>>
      /\ CountSent(n)
  BY <1>1, <1>3 DEF StatSendData, SendData, receiverVars
<1>5. p \in DataPackets /\ p.data = d /\ p \in Packets
  <2>1. d \in 1 .. MaxData[n] /\ sendId[n] \in PacketIds
    BY <1>1, <1>2, <1>4 DEF TypeInv, TypeOK
  <2> QED BY <1>1, <2>1 DEF DataPacket, DataPackets, Payloads, Packets
<1>6. /\ sendQueue'[n] = r.sq /\ writeQueue'[n] = r.wq /\ sent'[n] = sent[n] + 1
      /\ sent'[n] \in Nat
      /\ \A k \in Nodes \ {n} : writeQueue'[k] = writeQueue[k] /\ sent'[k] = sent[k]
  BY <1>2, <1>4 DEF TypeInv, TypeOK
<1>7. \A k \in Nodes : Received(k)' = Received(k)
  BY <1>4 DEF Received
<1>8. /\ Len(Append(sendQueue[n], p)) = Len(sendQueue[n]) + 1
      /\ Len(Append(writeQueue[n], p)) = Len(writeQueue[n]) + 1
      /\ ToSet(Append(writeQueue[n], p)) = ToSet(writeQueue[n]) \cup {p}
      /\ Len(sendQueue[n]) \in Nat
  BY <1>2, <1>5, AppendProperties, AppendElements, LenProperties
<1>9. \A k \in Nodes \ {n} : stat'[k] = stat[k]
  BY <1>2, <1>4, CountAdds DEF CountSent
<1>10. d \notin 1 .. sent[n] /\ 1 .. sent'[n] = 1 .. sent[n] \cup {d}
  BY <1>1, <1>2, <1>6
<1>11. /\ Covered(n) = Waiting(n) \cup Reach(n)
       /\ Covered(n)' = Waiting(n)' \cup Reach(n)'
  BY DEF Covered, Reach
<1>12. CASE SendNow(sendQueue[n])
  <2>1. r.sq = Append(sendQueue[n], p) /\ r.wq = writeQueue[n] /\ r.out = <<p>>
    BY <1>3, <1>12 DEF SendPacket
  <2>2. Count(n, {"packets_send"})
    BY <1>4, <1>6, <1>8, <2>1 DEF CountSent
  <2>3. /\ stat'[n].packets_send = stat[n].packets_send + 1
        /\ stat'[n].packets_attempt = stat[n].packets_attempt
        /\ stat'[n].ack_receive = stat[n].ack_receive
        /\ stat'[n].packets_receive = stat[n].packets_receive
        /\ stat'[n].packets_receive_dropped = stat[n].packets_receive_dropped
    BY <1>2, <2>2, CountGives
  <2>4. wire'[m] = Append(wire[m], p) /\ \A k \in Nodes \ {m} : wire'[k] = wire[k]
    BY <1>1, <1>4, <1>5, <2>1, OrderedSends, PathRoom
  <2>5. Leaves(n, m, d)
    BY <1>1, <1>5, <2>4, CopyLeaves
  <2>6. SenderFrame(n, m)
    BY <1>4, <1>6, <1>7, <1>9, <2>4 DEF SenderFrame
  <2>7. Waiting(n)' = Waiting(n)
    BY <1>6, <2>1 DEF Waiting
  <2>8. Reach(n)' = Reach(n) \cup {d}
    BY <1>1, <1>2, <1>7, <2>5 DEF Reach, Leaves
  <2>9. Apart(n)'
    BY <1>2, <1>10, <2>7, <2>8 DEF Apart
  <2>10. Uncovered(n)' \subseteq Uncovered(n)
    BY <1>10, <1>11, <2>7, <2>8 DEF Uncovered
  <2>11. Attempts(n)'
    BY <1>2, <2>3 DEF Attempts
  <2>12. Turn(Book(n), Book(n)', {"send", "sent"}, {})
    BY <1>2, <1>4, <1>6, <1>7, <2>1, <2>3, <2>4 DEF Turn, Lines, Book
  <2>13. Turn(Book(m), Book(m)', {"load", "data"}, {})
    BY <1>1, <2>5, <2>6, CopyBooked
  <2>14. EntrySent(Book(n), Book(m), Book(n)', Book(m)')
    BY <2>12, <2>13 DEF EntrySent, Post
  <2> QED BY <1>1, <1>6, <2>6, <2>9, <2>10, <2>11, <2>14, SenderSettles
<1>13. CASE ~SendNow(sendQueue[n])
  <2>1. r.sq = sendQueue[n] /\ r.wq = Append(writeQueue[n], p) /\ r.out = <<>>
    BY <1>3, <1>13 DEF SendPacket
  <2>2. Count(n, {})
    BY <1>4, <1>6, <1>8, <2>1 DEF CountSent
  <2>3. /\ stat'[n].packets_send = stat[n].packets_send
        /\ stat'[n].packets_attempt = stat[n].packets_attempt
        /\ stat'[n].ack_receive = stat[n].ack_receive
        /\ stat'[n].packets_receive = stat[n].packets_receive
        /\ stat'[n].packets_receive_dropped = stat[n].packets_receive_dropped
    BY <1>2, <2>2, CountGives
  <2>4. \A k \in Nodes : wire'[k] = wire[k]
    BY <1>1, <1>4, <2>1, OrderedSends
  <2>6. SenderFrame(n, m)
    BY <1>4, <1>6, <1>7, <1>9, <2>4 DEF SenderFrame
  <2>7. Waiting(n)' = Waiting(n) \cup {d} /\ Len(writeQueue'[n]) = Len(writeQueue[n]) + 1
    BY <1>5, <1>6, <1>8, <2>1 DEF Waiting
  <2>8. Reach(n)' = Reach(n)
    BY <1>1, <1>2, <1>7, <2>4 DEF Reach
  <2>9. Apart(n)'
    BY <1>2, <1>10, <2>7, <2>8 DEF Apart
  <2>10. Uncovered(n)' \subseteq Uncovered(n)
    BY <1>10, <1>11, <2>7, <2>8 DEF Uncovered
  <2>11. Attempts(n)'
    BY <1>2, <2>3 DEF Attempts
  <2>12. Turn(Book(n), Book(n)', {"sent", "waits"}, {})
    BY <1>2, <1>4, <1>6, <1>7, <2>3, <2>4, <2>7 DEF Turn, Lines, Book
  <2>13. Turn(Book(m), Book(m)', {}, {})
    BY <1>2, <1>4, <1>6, <1>7, <1>9, <2>4 DEF Turn, Lines, Book
  <2>14. EntryKept(Book(n), Book(m), Book(n)', Book(m)')
    BY <2>12, <2>13 DEF EntryKept, Post
  <2> QED BY <1>1, <1>6, <2>6, <2>9, <2>10, <2>11, <2>14, SenderSettles
<1> QED BY <1>12, <1>13

-----------------------------------------------------------------------------
\* Loss on the path to n

LEMMA LoseEntry ==
    ASSUME BooksInv, NEW n \in Nodes, StatLose(n)
    PROVE  \A k \in Nodes : Settled(k)'
<1>1. PICK m : m = Peer[n]
  OBVIOUS
<1>2. /\ m \in Nodes /\ m # n /\ Peer[m] = n /\ TypeInv /\ StatTypes /\ SessionInv
      /\ Apart(n) /\ Attempts(n) /\ Apart(m) /\ Attempts(m)
      /\ sent[n] \in Nat /\ sent[m] \in Nat /\ wire[n] \in Seq(Packets)
  BY <1>1, BooksGive
<1>3. PICK j \in DOMAIN wire[n] : /\ wire'[n] = RemoveAt(wire[n], j)
                                  /\ \A k \in Nodes \ {n} : wire'[k] = wire[k]
  BY <1>2, LossTakes DEF StatLose
<1>4. UNCHANGED <<stat, pings, pingWire, flushed, writeQueue, sent, receiveQueue, delivered>>
  BY DEF StatLose, Lose, senderVars, receiverVars, historyVars
<1>5. lost' = [lost EXCEPT
            ![n].copies = @ + NumberOf(wire[n], {"DATA"}) - NumberOf(wire'[n], {"DATA"}),
            ![n].answers = @ + NumberOf(wire[n], {"ACK"}) - NumberOf(wire'[n], {"ACK"})]
  BY InFlightIsNumber DEF StatLose
<1>6. PICK q : q = wire[n][j]
  OBVIOUS
<1>7. q.type \in {"DATA", "ACK"}
  <2>1. q \in InFlight(wire[n])
    BY <1>2, <1>3, <1>6, OrderedPaths DEF InFlight, ToSet
  <2> QED BY <1>2, <2>1 DEF SessionInv, WireInv
<1>8. /\ Len(wire[n]) \in Nat /\ Len(wire'[n]) = Len(wire[n]) - 1
      /\ NumberOf(wire'[n], {"DATA"}) \in Nat /\ NumberOf(wire'[n], {"ACK"}) \in Nat
      /\ NumberOf(wire[n], {"DATA"})
           = NumberOf(wire'[n], {"DATA"}) + (IF q.type = "DATA" THEN 1 ELSE 0)
      /\ NumberOf(wire[n], {"ACK"})
           = NumberOf(wire'[n], {"ACK"}) + (IF q.type = "ACK" THEN 1 ELSE 0)
      /\ CopiesOn(wire'[n]) \subseteq CopiesOn(wire[n])
      /\ CopiesOn(wire[n]) \subseteq
            CopiesOn(wire'[n]) \cup (IF q.type = "DATA" THEN {q.data} ELSE {})
  BY <1>2, <1>3, <1>6, PathShrinks
<1>9. PICK b \in Nat, e \in Nat :
        b = NumberOf(wire'[n], {"DATA"}) /\ e = NumberOf(wire'[n], {"ACK"})
  BY <1>8
<1>10. \A k \in Nodes : Received(k)' = Received(k) /\ Waiting(k)' = Waiting(k)
  BY <1>4 DEF Received, Waiting
<1>11. Reach(n)' = Reach(n)
  BY <1>1, <1>2, <1>3, <1>10 DEF Reach
<1>12. Uncovered(n)' = Uncovered(n)
  BY <1>4, <1>10, <1>11 DEF Uncovered, Covered, Reach
<1>13. Reach(m)' \subseteq Reach(m)
  BY <1>2, <1>8, <1>10 DEF Reach
<1>14. /\ q.type = "DATA" => Reach(m) \subseteq Reach(m)' \cup {q.data}
       /\ q.type # "DATA" => Reach(m) \subseteq Reach(m)'
  BY <1>2, <1>8, <1>10 DEF Reach
<1>15. /\ Covered(m) = Waiting(m) \cup Reach(m)
       /\ Covered(m)' = Waiting(m)' \cup Reach(m)'
       /\ Waiting(m)' = Waiting(m) /\ sent'[m] = sent[m]
  BY <1>2, <1>4, <1>10 DEF Covered, Reach
<1>16. Apart(n)' /\ Apart(m)' /\ Attempts(n)' /\ Attempts(m)'
  BY <1>2, <1>4, <1>10, <1>11, <1>13 DEF Apart, Attempts
<1>17. /\ \A k \in Nodes \ {n} : lost'[k] = lost[k]
       /\ lost[n].copies \in Nat /\ lost[n].answers \in Nat
       /\ lost'[n].copies = lost[n].copies + NumberOf(wire[n], {"DATA"}) - b
       /\ lost'[n].answers = lost[n].answers + NumberOf(wire[n], {"ACK"}) - e
  <2>1. lost \in LostCounts /\ lost[n] \in [copies : Nat, answers : Nat]
    BY <1>2, StatPaths
  <2>2. PICK a, c : a = NumberOf(wire[n], {"DATA"}) /\ c = NumberOf(wire[n], {"ACK"})
    OBVIOUS
  <2>3. lost' = [lost EXCEPT ![n].copies = @ + a - b, ![n].answers = @ + c - e]
    BY <1>5, <1>9, <2>2
  <2> QED BY <2>1, <2>2, <2>3 DEF LostCounts
<1>18. \A i \in Nodes \ {n, m} : Aside(i)
  BY <1>3, <1>4, <1>10, <1>17 DEF Aside
<1>19. Fewer(Book(n), Book(n)')
  BY <1>2, <1>12, NoneGone
<1>20. Turn(Book(m), Book(m)', {}, {})
  <2>1. wire'[m] = wire[m] /\ lost'[m] = lost[m] /\ Received(m)' = Received(m)
    BY <1>2, <1>3, <1>10, <1>17
  <2> QED BY <1>4, <2>1 DEF Turn, Lines, Book
<1>21. ASSUME q.type = "DATA" PROVE Entry(Book(n), Book(m), Book(n)', Book(m)')
  <2>1. NumberOf(wire[n], {"DATA"}) = b + 1 /\ NumberOf(wire[n], {"ACK"}) = e
    BY <1>8, <1>9, <1>21
  <2>2. /\ lost'[n].copies = lost[n].copies + 1 /\ lost'[n].answers = lost[n].answers
        /\ NumberOf(wire'[n], {"DATA"}) = NumberOf(wire[n], {"DATA"}) - 1
        /\ NumberOf(wire'[n], {"ACK"}) = NumberOf(wire[n], {"ACK"})
    BY <1>9, <1>17, <2>1
  <2>3. Len(wire'[n]) = Len(wire[n]) - 1 /\ Received(n)' = Received(n)
    BY <1>8, <1>10
  <2>4. Turn(Book(n), Book(n)', {"copies"}, {"data", "load"})
    BY <1>4, <2>2, <2>3 DEF Turn, Lines, Book
  <2>5. Uncovered(m)' \subseteq Uncovered(m) \cup {q.data}
    BY <1>14, <1>15, <1>21 DEF Uncovered
  <2>6. Book(m)'.gone \in Nat /\ Book(m)'.gone <= Book(m).gone + 1
    BY <1>2, <2>5, OneGone
  <2>7. EntryLostCopy(Book(n), Book(m), Book(n)', Book(m)')
    BY <1>20, <2>4 DEF EntryLostCopy, Post
  <2> QED BY <1>19, <2>6, <2>7 DEF Entry
<1>22. ASSUME q.type = "ACK" PROVE Entry(Book(n), Book(m), Book(n)', Book(m)')
  <2>1. NumberOf(wire[n], {"DATA"}) = b /\ NumberOf(wire[n], {"ACK"}) = e + 1
    BY <1>8, <1>9, <1>22
  <2>2. /\ lost'[n].copies = lost[n].copies /\ lost'[n].answers = lost[n].answers + 1
        /\ NumberOf(wire'[n], {"DATA"}) = NumberOf(wire[n], {"DATA"})
        /\ NumberOf(wire'[n], {"ACK"}) = NumberOf(wire[n], {"ACK"}) - 1
    <3>1. PICK g \in Nat, h \in Nat : g = lost[n].copies /\ h = lost[n].answers
      BY <1>17
    <3>2. lost'[n].copies = g + b - b /\ lost'[n].answers = h + (e + 1) - e
      BY <1>17, <2>1, <3>1
    <3>3. g + b - b = g /\ h + (e + 1) - e = h + 1 /\ (e + 1) - 1 = e
      OBVIOUS
    <3> QED BY <1>9, <2>1, <3>1, <3>2, <3>3
  <2>3. Len(wire'[n]) = Len(wire[n]) - 1 /\ Received(n)' = Received(n)
    BY <1>8, <1>10
  <2>4. Turn(Book(n), Book(n)', {"answers"}, {"acks", "load"})
    BY <1>4, <2>2, <2>3 DEF Turn, Lines, Book
  <2>5. Uncovered(m)' \subseteq Uncovered(m)
    BY <1>14, <1>15, <1>22 DEF Uncovered
  <2>6. Fewer(Book(m), Book(m)')
    BY <1>2, <2>5, NoneGone
  <2>7. EntryLostAnswer(Book(n), Book(m), Book(n)', Book(m)')
    BY <1>20, <2>4 DEF EntryLostAnswer, Post
  <2> QED BY <1>19, <2>6, <2>7 DEF Entry
<1>23. Entry(Book(n), Book(m), Book(n)', Book(m)')
  BY <1>7, <1>21, <1>22
<1> QED BY <1>1, <1>16, <1>18, <1>23, EntrySettles

-----------------------------------------------------------------------------
\* An ACK is received.

\* The first packet of the path to n is taken from it.
ComesIn(n, data, ack) ==
    /\ Len(wire'[n]) = Len(wire[n]) - 1
    /\ NumberOf(wire'[n], {"DATA"}) = NumberOf(wire[n], {"DATA"}) - data
    /\ NumberOf(wire'[n], {"ACK"}) = NumberOf(wire[n], {"ACK"}) - ack
    /\ CopiesOn(wire'[n]) \subseteq CopiesOn(wire[n])

LEMMA ComesFrom ==
    ASSUME NEW n, wire[n] \in Seq(Packets), wire[n] # <<>>, wire'[n] = Tail(wire[n]),
           NEW p, p = Head(wire[n])
    PROVE  /\ p.type = "ACK" => ComesIn(n, 0, 1) /\ CopiesOn(wire'[n]) = CopiesOn(wire[n])
           /\ p.type = "DATA" => /\ ComesIn(n, 1, 0) /\ p.data \in CopiesOn(wire[n])
                                 /\ CopiesOn(wire[n]) \subseteq CopiesOn(wire'[n]) \cup {p.data}
<1>1. PICK w, v : w = wire[n] /\ v = wire'[n]
  OBVIOUS
<1>2. /\ Len(v) = Len(w) - 1 /\ CopiesOn(v) \subseteq CopiesOn(w)
      /\ p.type = "DATA" => p.data \in CopiesOn(w)
      /\ NumberOf(v, {"DATA"}) = NumberOf(w, {"DATA"}) - (IF p.type = "DATA" THEN 1 ELSE 0)
      /\ NumberOf(v, {"ACK"}) = NumberOf(w, {"ACK"}) - (IF p.type = "ACK" THEN 1 ELSE 0)
      /\ CopiesOn(w) \subseteq CopiesOn(v) \cup (IF p.type = "DATA" THEN {p.data} ELSE {})
  BY <1>1, PathLosesFirst
<1>3. CASE p.type = "ACK"
  <2>1. /\ NumberOf(v, {"DATA"}) = NumberOf(w, {"DATA"}) - 0
        /\ NumberOf(v, {"ACK"}) = NumberOf(w, {"ACK"}) - 1
    BY <1>2, <1>3
  <2>2. CopiesOn(w) \subseteq CopiesOn(v)
    BY <1>2, <1>3
  <2> QED BY <1>1, <1>2, <1>3, <2>1, <2>2 DEF ComesIn
<1>4. CASE p.type = "DATA"
  <2>1. /\ NumberOf(v, {"DATA"}) = NumberOf(w, {"DATA"}) - 1
        /\ NumberOf(v, {"ACK"}) = NumberOf(w, {"ACK"}) - 0
    BY <1>2, <1>4
  <2>2. CopiesOn(w) \subseteq CopiesOn(v) \cup {p.data}
    BY <1>2, <1>4
  <2> QED BY <1>1, <1>2, <1>4, <2>1, <2>2 DEF ComesIn
<1> QED BY <1>3, <1>4

LEMMA AckEntry ==
    ASSUME BooksInv, NEW n \in Nodes, NEW a \in Arrivals(wire[n]), StatReceiveAck(n, a)
    PROVE  \A k \in Nodes : Settled(k)'
<1>1. PICK m : m = Peer[n]
  OBVIOUS
<1>2. /\ m \in Nodes /\ m # n /\ Peer[m] = n /\ TypeInv /\ StatTypes /\ SessionInv
      /\ DeliveryInv /\ QueueInv(n) /\ Apart(n) /\ Attempts(n) /\ Apart(m) /\ Attempts(m)
      /\ sent[n] \in Nat /\ sent[m] \in Nat /\ wire[n] \in Seq(Packets)
      /\ writeQueue[n] \in Seq(DataPackets)
      /\ NumberOf(wire[n], {"DATA"}) \in Nat /\ NumberOf(wire[m], {"DATA"}) \in Nat
  BY <1>1, BooksGive, PlacesFinite
<1>3. /\ UNCHANGED <<sent, receiveQueue, delivered, pings, pingWire, flushed, lost>>
      /\ Count(n, {"ack_receive"} \cup (IF Refilled(n) THEN {"packets_send"} ELSE {}))
      /\ a.pkt.type = "ACK" /\ (ReceiveAck(n, a) \/ ReceiveUnknownAck(n, a))
  BY DEF StatReceiveAck, ReceiveAck, ReceiveUnknownAck, receiverVars, historyVars
<1>4. \/ writeQueue' = writeQueue /\ Answer(n, a, <<>>)
      \/ /\ writeQueue[n] # <<>> /\ writeQueue' = [writeQueue EXCEPT ![n] = Tail(writeQueue[n])]
         /\ Answer(n, a, <<Head(writeQueue[n])>>)
  <2>1. CASE ReceiveUnknownAck(n, a)
    BY <2>1 DEF ReceiveUnknownAck, senderVars
  <2>2. CASE ReceiveAck(n, a)
    <3>1. PICK i \in DOMAIN sendQueue[n] :
            IF writeQueue[n] = <<>>
            THEN UNCHANGED writeQueue /\ Answer(n, a, <<>>)
            ELSE LET r == SendPacket(RemoveAt(sendQueue[n], i), writeQueue[n],
                                     Head(writeQueue[n]))
                 IN  /\ writeQueue' = [writeQueue EXCEPT ![n] = Tail(r.wq)]
                     /\ Answer(n, a, r.out)
      BY <2>2 DEF ReceiveAck
    <3>2. SendNow(RemoveAt(sendQueue[n], i))
      BY <1>2, RefillFits
    <3>3. PICK r : r = SendPacket(RemoveAt(sendQueue[n], i), writeQueue[n],
                                  Head(writeQueue[n]))
      OBVIOUS
    <3>4. r.wq = writeQueue[n] /\ r.out = <<Head(writeQueue[n])>>
      BY <3>2, <3>3 DEF SendPacket
    <3> QED BY <3>1, <3>3, <3>4
  <2> QED BY <1>3, <2>1, <2>2
<1>5. /\ wire[n] # <<>> /\ a.pkt = Head(wire[n])
      /\ wire'[n] = Tail(wire[n])
      /\ \A k \in Nodes \ {n, m} : wire'[k] = wire[k]
      /\ Answer(n, a, <<>>) => wire'[m] = wire[m]
      /\ writeQueue[n] # <<>> /\ Answer(n, a, <<Head(writeQueue[n])>>)
            => wire'[m] = Append(wire[m], Head(writeQueue[n]))
  <2>1. writeQueue[n] # <<>> => Head(writeQueue[n]) \in Packets
    BY <1>2, HeadElement DEF Packets
  <2>2. /\ wire[n] # <<>> /\ a.pkt = Head(wire[n])
        /\ \A p \in Packets :
              Answer(n, a, <<p>>) =>
                 /\ wire'[n] = Tail(wire[n]) /\ wire'[m] = Append(wire[m], p)
                 /\ \A k \in Nodes \ {n, m} : wire'[k] = wire[k]
        /\ Answer(n, a, <<>>) =>
              wire'[n] = Tail(wire[n]) /\ \A k \in Nodes \ {n} : wire'[k] = wire[k]
    BY <1>1, OrderedAnswers
  <2> QED BY <1>2, <1>4, <2>1, <2>2
<1>6. ComesIn(n, 0, 1) /\ CopiesOn(wire'[n]) = CopiesOn(wire[n])
  BY <1>2, <1>3, <1>5, ComesFrom
<1>7. /\ \A k \in Nodes : Received(k)' = Received(k)
      /\ \A k \in Nodes \ {n} : /\ stat'[k] = stat[k] /\ writeQueue'[k] = writeQueue[k]
                                /\ Waiting(k)' = Waiting(k)
  <2>1. \A k \in Nodes \ {n} : stat'[k] = stat[k]
    BY <1>2, <1>3, CountAdds
  <2>2. \A k \in Nodes \ {n} : writeQueue'[k] = writeQueue[k]
    BY <1>2, <1>4 DEF TypeInv, TypeOK
  <2> QED BY <1>3, <2>1, <2>2 DEF Received, Waiting
<1>8. \A i \in Nodes \ {n, m} : Aside(i)
  BY <1>3, <1>5, <1>7 DEF Aside
<1>9. Reach(m)' = Reach(m) /\ Waiting(m)' = Waiting(m)
  BY <1>2, <1>6, <1>7 DEF Reach
<1>10. Uncovered(m)' = Uncovered(m)
  BY <1>3, <1>9 DEF Uncovered, Covered, Reach
<1>11. Apart(m)' /\ Attempts(m)' /\ Fewer(Book(m), Book(m)')
  BY <1>2, <1>7, <1>9, <1>10, NoneGone DEF Apart, Attempts
<1>12. /\ Covered(n) = Waiting(n) \cup Reach(n)
       /\ Covered(n)' = Waiting(n)' \cup Reach(n)'
  BY DEF Covered, Reach
<1>13. ASSUME writeQueue'[n] = writeQueue[n], wire'[m] = wire[m]
       PROVE  \A k \in Nodes : Settled(k)'
  <2>1. ~Refilled(n)
    <3>1. Len(writeQueue[n]) \in Nat
      BY <1>2, LenProperties
    <3> QED BY <1>13, <3>1 DEF Refilled
  <2>2. Count(n, {"ack_receive"})
    BY <1>3, <2>1
  <2>3. /\ stat'[n].packets_send = stat[n].packets_send
        /\ stat'[n].packets_attempt = stat[n].packets_attempt
        /\ stat'[n].ack_receive = stat[n].ack_receive + 1
        /\ stat'[n].packets_receive = stat[n].packets_receive
        /\ stat'[n].packets_receive_dropped = stat[n].packets_receive_dropped
    BY <1>2, <2>2, CountGives
  <2>4. Waiting(n)' = Waiting(n) /\ Reach(n)' = Reach(n)
    BY <1>1, <1>2, <1>7, <1>13 DEF Waiting, Reach
  <2>5. Apart(n)' /\ Attempts(n)'
    BY <1>2, <2>3, <2>4 DEF Apart, Attempts
  <2>6. Uncovered(n)' \subseteq Uncovered(n)
    BY <1>3, <1>12, <2>4 DEF Uncovered
  <2>7. Fewer(Book(n), Book(n)')
    BY <1>2, <2>6, NoneGone
  <2>8. Turn(Book(m), Book(m)', {}, {})
    BY <1>2, <1>3, <1>7, <1>13 DEF Turn, Lines, Book
  <2>9. Turn(Book(n), Book(n)', {"ack"}, {"acks", "load"})
    <3>1. NumberOf(wire'[n], {"DATA"}) = NumberOf(wire[n], {"DATA"})
      BY <1>2, <1>6 DEF ComesIn
    <3>2. /\ NumberOf(wire'[n], {"ACK"}) = NumberOf(wire[n], {"ACK"}) - 1
          /\ Len(wire'[n]) = Len(wire[n]) - 1
      BY <1>6 DEF ComesIn
    <3> QED BY <1>3, <1>7, <1>13, <2>3, <3>1, <3>2 DEF Turn, Lines, Book
  <2>10. Entry(Book(n), Book(m), Book(n)', Book(m)')
    BY <1>11, <2>7, <2>8, <2>9 DEF Entry, EntryAck, Post
  <2> QED BY <1>1, <1>8, <1>11, <2>5, <2>10, EntrySettles
<1>14. ASSUME writeQueue[n] # <<>>, writeQueue'[n] = Tail(writeQueue[n]),
              wire'[m] = Append(wire[m], Head(writeQueue[n]))
       PROVE  \A k \in Nodes : Settled(k)'
  <2>1. PICK h : h = Head(writeQueue[n])
    OBVIOUS
  <2>2. /\ Len(writeQueue'[n]) = Len(writeQueue[n]) - 1
        /\ Waiting(n)' \subseteq Waiting(n) /\ Waiting(n) \subseteq Waiting(n)' \cup {h.data}
        /\ h.data \notin Waiting(n)'
    BY <1>2, <1>14, <2>1, WaitingTail
  <2>3. Refilled(n)
    <3>1. Len(writeQueue[n]) \in Nat
      BY <1>2, LenProperties
    <3> QED BY <2>2, <3>1 DEF Refilled
  <2>4. Count(n, {"ack_receive", "packets_send"})
    <3>1. {"ack_receive"} \cup {"packets_send"} = {"ack_receive", "packets_send"}
      OBVIOUS
    <3> QED BY <1>3, <2>3, <3>1
  <2>5. /\ stat'[n].packets_send = stat[n].packets_send + 1
        /\ stat'[n].packets_attempt = stat[n].packets_attempt
        /\ stat'[n].ack_receive = stat[n].ack_receive + 1
        /\ stat'[n].packets_receive = stat[n].packets_receive
        /\ stat'[n].packets_receive_dropped = stat[n].packets_receive_dropped
    <3>1. \A c \in Counters :
             stat'[n][c] = IF c \in {"ack_receive", "packets_send"} THEN stat[n][c] + 1
                           ELSE stat[n][c]
      BY <1>2, <2>4, CountAdds
    <3> QED BY <3>1 DEF Counters
  <2>6. h \in DataPackets
    BY <1>2, <1>14, <2>1, HeadElement
  <2>7. Leaves(n, m, h.data)
    BY <1>1, <1>14, <2>1, <2>6, CopyLeaves
  <2>8. Reach(n)' = Reach(n) \cup {h.data}
    BY <1>1, <1>2, <1>7, <2>7 DEF Reach, Leaves
  <2>9. Apart(n)' /\ Attempts(n)'
    BY <1>2, <2>2, <2>5, <2>8 DEF Apart, Attempts
  <2>10. Uncovered(n)' \subseteq Uncovered(n)
    BY <1>3, <1>12, <2>2, <2>8 DEF Uncovered
  <2>11. Fewer(Book(n), Book(n)')
    BY <1>2, <2>10, NoneGone
  <2>12. Turn(Book(m), Book(m)', {"load", "data"}, {})
    <3>1. stat'[m] = stat[m] /\ writeQueue'[m] = writeQueue[m] /\ Received(m)' = Received(m)
      BY <1>2, <1>7
    <3>2. UNCHANGED <<sent, pings, pingWire, flushed, lost>>
      BY <1>3
    <3> QED BY <2>7, <3>1, <3>2 DEF Turn, Lines, Book, Leaves
  <2>13. Turn(Book(n), Book(n)', {"ack", "send"}, {"acks", "load", "waits"})
    <3>1. NumberOf(wire'[n], {"DATA"}) = NumberOf(wire[n], {"DATA"})
      BY <1>2, <1>6 DEF ComesIn
    <3>2. /\ NumberOf(wire'[n], {"ACK"}) = NumberOf(wire[n], {"ACK"}) - 1
          /\ Len(wire'[n]) = Len(wire[n]) - 1
      BY <1>6 DEF ComesIn
    <3> QED BY <1>3, <1>7, <2>2, <2>5, <3>1, <3>2 DEF Turn, Lines, Book
  <2>14. Entry(Book(n), Book(m), Book(n)', Book(m)')
    BY <1>11, <2>11, <2>12, <2>13 DEF Entry, EntryAckRefill, Post
  <2> QED BY <1>1, <1>8, <1>11, <2>9, <2>14, EntrySettles
<1>15. \/ writeQueue'[n] = writeQueue[n] /\ wire'[m] = wire[m]
       \/ /\ writeQueue[n] # <<>> /\ writeQueue'[n] = Tail(writeQueue[n])
          /\ wire'[m] = Append(wire[m], Head(writeQueue[n]))
  BY <1>4, <1>5, <1>2 DEF TypeInv, TypeOK
<1> QED BY <1>13, <1>14, <1>15

-----------------------------------------------------------------------------
\* A data packet is received.

\* What n gets of it: a payload it did not have, or none
LEMMA DataComes ==
    ASSUME Orderly, BooksInv, NEW n \in Nodes, NEW a \in Arrivals(wire[n]),
           StatReceiveData(n, a)
    PROVE  /\ a.pkt \in DataPackets /\ a.pkt.type = "DATA"
           /\ UNCHANGED <<writeQueue, sent, pings, pingWire, flushed, lost>>
           /\ Answer(n, a, <<AckPacket(a.pkt)>>) /\ AckPacket(a.pkt) \in Packets
           /\ \A k \in Nodes \ {n} : Received(k)' = Received(k)
           /\ \/ /\ Count(n, {"packets_receive"}) /\ a.pkt.data \notin Received(n)
                 /\ Received(n)' = Received(n) \cup {a.pkt.data}
              \/ /\ Count(n, {"packets_receive_dropped"}) /\ a.pkt.data \in Received(n)
                 /\ Received(n)' = Received(n)
<1>1. PICK m, d, e : m = Peer[n] /\ d = Len(delivered[n]) /\ e = a.pkt.data
  OBVIOUS
<1>2. /\ m \in Nodes /\ TypeInv /\ SessionInv /\ DeliveryInv
  BY <1>1, BooksGive
<1>3. /\ a.pkt \in InFlight(wire[n]) /\ a.pkt.type = "DATA" /\ a.pkt \in Packets
      /\ ReceiveData(n, a) /\ CountReceived(n, a.pkt)
      /\ UNCHANGED <<pings, pingWire, flushed, lost>>
  BY OrderedAnswers DEF StatReceiveData, ReceiveData
<1>4. Numbered(a.pkt, m) /\ a.pkt \in DataPackets
  BY <1>1, <1>2, <1>3 DEF SessionInv, WireInv, Numbered
<1>5. AckPacket(a.pkt) \in Packets
  <2>1. a.pkt.id \in PacketIds
    BY <1>4 DEF DataPackets
  <2> QED BY <2>1 DEF AckPacket, Packets
<1>6. Welcome(n, a.pkt)
  BY <1>2, <1>3, DeliveryWelcomes DEF AllWelcome
<1>7. ~NotOpened(n, a.pkt) /\ (AcceptExpected(n, a) \/ SaveOutrunning(n, a) \/ DropProcessed(n, a))
  BY <1>3, <1>6 DEF ReceiveData, RejectNotOpened, RejectNewSession, Welcome
<1>8. /\ UNCHANGED <<writeQueue, sent>> /\ Answer(n, a, <<AckPacket(a.pkt)>>)
      /\ \A k \in Nodes \ {n} :
            delivered'[k] = delivered[k] /\ receiveQueue'[k] = receiveQueue[k]
  BY <1>2, <1>7
  DEF AcceptExpected, SaveOutrunning, DropProcessed, senderVars, receiverVars, historyVars,
      TypeInv, TypeOK
<1>9. \A k \in Nodes \ {n} : Received(k)' = Received(k)
  BY <1>8 DEF Received
<1>10. /\ d \in Nat /\ sent[m] \in Nat /\ MaxData[m] \in Nat
       /\ d <= sent[m] /\ sent[m] <= MaxData[m] /\ delivered[n] \in Seq(Payloads)
       /\ receiveExpectedId[n] = IdOf(d + 1)
       /\ \A x \in receiveQueue[n] : x.data \in d + 2 .. sent[m] /\ x.id = IdOf(x.data)
  BY <1>1, <1>2, ReceiverFacts
<1>11. \A k \in Received(n) : k \in 1 .. d \/ \E x \in receiveQueue[n] : k = x.data
  <2>1. DOMAIN delivered[n] = 1 .. d /\ \A i \in 1 .. d : delivered[n][i] = i
    BY <1>1, <1>2, <1>10, LenProperties DEF SessionInv, ReceiverInv
  <2> QED BY <2>1 DEF Received, ToSet
<1>12. ASSUME AcceptExpected(n, a)
       PROVE  /\ Count(n, {"packets_receive"}) /\ e \notin Received(n)
              /\ Received(n)' = Received(n) \cup {e}
  <2>1. e = d + 1 /\ Received(n)' = Received(n) \cup {e}
    BY <1>1, <1>2, <1>4, <1>12, AcceptReceives
  <2>2. e \notin Received(n)
    <3>1. e \notin 1 .. d
      BY <1>10, <2>1
    <3>2. \A x \in receiveQueue[n] : x.data # e
      BY <1>10, <2>1
    <3> QED BY <1>11, <3>1, <3>2
  <2>3. Count(n, {"packets_receive"})
    BY <1>3, <1>7, <1>12 DEF CountReceived, AcceptExpected
  <2> QED BY <2>1, <2>2, <2>3
<1>13. ASSUME SaveOutrunning(n, a)
       PROVE  /\ Count(n, {"packets_receive"}) /\ e \notin Received(n)
              /\ Received(n)' = Received(n) \cup {e}
  <2>1. delivered'[n] = delivered[n] /\ receiveQueue'[n] = receiveQueue[n] \cup {a.pkt}
    BY <1>2, <1>13 DEF SaveOutrunning, historyVars, TypeInv, TypeOK
  <2>2. Received(n)' = Received(n) \cup {e}
    BY <1>1, <2>1 DEF Received
  <2>3. e \in 1 .. sent[m] /\ a.pkt.id = IdOf(e)
    BY <1>1, <1>4 DEF Numbered
  <2>4. e \in 1 .. MaxData[m] + 1 /\ d + 1 \in 1 .. MaxData[m] + 1
    BY <1>10, <2>3
  <2>5. GetSeqIdDistance(IdOf(d + 1), IdOf(e)) > 0 /\ a.pkt.id \notin Ids(receiveQueue[n])
    BY <1>10, <1>13, <2>3 DEF SaveOutrunning, IsOutrunning
  <2>6. e > d + 1
    BY <1>2, <2>4, <2>5, IdsOrdered
  <2>7. ~(\E x \in receiveQueue[n] : e = x.data)
    BY <1>10, <2>3, <2>5 DEF Ids
  <2>8. e \notin Received(n)
    BY <1>10, <1>11, <2>6, <2>7
  <2>9. Count(n, {"packets_receive"})
    BY <1>3, <1>7, <1>13 DEF CountReceived, SaveOutrunning
  <2> QED BY <2>2, <2>8, <2>9
<1>14. ASSUME DropProcessed(n, a)
       PROVE  /\ Count(n, {"packets_receive_dropped"}) /\ e \in Received(n)
              /\ Received(n)' = Received(n)
  <2>1. Received(n)' = Received(n)
    BY <1>14 DEF DropProcessed, receiverVars, historyVars, Received
  <2>2. e \in Received(n)
    BY <1>1, <1>2, <1>4, <1>14, DropReceives DEF DropProcessed
  <2>3. Count(n, {"packets_receive_dropped"})
    BY <1>3, <1>14 DEF CountReceived, DropProcessed
  <2> QED BY <2>1, <2>2, <2>3
<1> QED BY <1>1, <1>3, <1>4, <1>5, <1>7, <1>8, <1>9, <1>12, <1>13, <1>14

LEMMA DataEntry ==
    ASSUME Orderly, BooksInv, NEW n \in Nodes, NEW a \in Arrivals(wire[n]),
           StatReceiveData(n, a)
    PROVE  \A k \in Nodes : Settled(k)'
<1>1. PICK m, d : m = Peer[n] /\ d = a.pkt.data
  OBVIOUS
<1>2. /\ m \in Nodes /\ m # n /\ Peer[m] = n /\ TypeInv /\ StatTypes /\ SessionInv
      /\ Apart(n) /\ Attempts(n) /\ Apart(m) /\ Attempts(m)
      /\ sent[n] \in Nat /\ sent[m] \in Nat
      /\ wire[n] \in Seq(Packets) /\ wire[m] \in Seq(Packets)
      /\ NumberOf(wire[n], {"ACK"}) \in Nat /\ NumberOf(wire[m], {"DATA"}) \in Nat
  BY <1>1, BooksGive, PlacesFinite
<1>3. /\ a.pkt \in DataPackets /\ a.pkt.type = "DATA"
      /\ UNCHANGED <<writeQueue, sent, pings, pingWire, flushed, lost>>
      /\ Answer(n, a, <<AckPacket(a.pkt)>>) /\ AckPacket(a.pkt) \in Packets
      /\ \A k \in Nodes \ {n} : Received(k)' = Received(k)
  BY DataComes
<1>4. \/ /\ Count(n, {"packets_receive"}) /\ d \notin Received(n)
         /\ Received(n)' = Received(n) \cup {d}
      \/ /\ Count(n, {"packets_receive_dropped"}) /\ d \in Received(n)
         /\ Received(n)' = Received(n)
  BY <1>1, DataComes
<1>5. PICK q : q = AckPacket(a.pkt) /\ q \in Packets /\ q.type = "ACK"
  BY <1>3 DEF AckPacket
<1>6. /\ wire[n] # <<>> /\ a.pkt = Head(wire[n]) /\ wire'[n] = Tail(wire[n])
      /\ wire'[m] = Append(wire[m], q) /\ \A k \in Nodes \ {n, m} : wire'[k] = wire[k]
  <2>1. /\ wire[n] # <<>> /\ a.pkt = Head(wire[n])
        /\ \A p \in Packets :
              Answer(n, a, <<p>>) =>
                 /\ wire'[n] = Tail(wire[n]) /\ wire'[m] = Append(wire[m], p)
                 /\ \A k \in Nodes \ {n, m} : wire'[k] = wire[k]
    BY <1>1, OrderedAnswers
  <2> QED BY <1>3, <1>5, <2>1
<1>7. /\ ComesIn(n, 1, 0) /\ d \in CopiesOn(wire[n])
      /\ CopiesOn(wire[n]) \subseteq CopiesOn(wire'[n]) \cup {d}
  BY <1>1, <1>2, <1>3, <1>6, ComesFrom
<1>8. /\ Len(wire'[m]) = Len(wire[m]) + 1
      /\ NumberOf(wire'[m], {"DATA"}) = NumberOf(wire[m], {"DATA"})
      /\ NumberOf(wire'[m], {"ACK"}) = NumberOf(wire[m], {"ACK"}) + 1
      /\ CopiesOn(wire'[m]) = CopiesOn(wire[m])
  <2>1. /\ Len(Append(wire[m], q)) = Len(wire[m]) + 1
        /\ NumberOf(Append(wire[m], q), {"DATA"})
             = NumberOf(wire[m], {"DATA"}) + (IF q.type = "DATA" THEN 1 ELSE 0)
        /\ NumberOf(Append(wire[m], q), {"ACK"})
             = NumberOf(wire[m], {"ACK"}) + (IF q.type = "ACK" THEN 1 ELSE 0)
        /\ CopiesOn(Append(wire[m], q))
             = CopiesOn(wire[m]) \cup (IF q.type = "DATA" THEN {q.data} ELSE {})
    BY <1>2, <1>5, PathGrows
  <2> QED BY <1>2, <1>5, <1>6, <2>1
<1>9. \A k \in Nodes : Waiting(k)' = Waiting(k)
  BY <1>3 DEF Waiting
<1>10. Reach(n)' = Reach(n)
  BY <1>1, <1>2, <1>3, <1>8 DEF Reach
<1>11. Reach(m)' = Reach(m)
  <2>1. Received(n)' = Received(n) \cup {d}
    BY <1>4
  <2>2. CopiesOn(wire'[n]) \subseteq CopiesOn(wire[n])
    BY <1>7 DEF ComesIn
  <2> QED BY <1>2, <1>7, <2>1, <2>2 DEF Reach
<1>12. /\ Uncovered(n)' = Uncovered(n) /\ Uncovered(m)' = Uncovered(m)
  BY <1>2, <1>3, <1>9, <1>10, <1>11 DEF Uncovered, Covered, Reach
<1>13. Fewer(Book(n), Book(n)') /\ Fewer(Book(m), Book(m)')
  BY <1>2, <1>12, NoneGone
<1>14. \A k \in Nodes \ {n} : stat'[k] = stat[k]
  BY <1>2, <1>4, CountAdds
<1>15. \A i \in Nodes \ {n, m} : Aside(i)
  BY <1>3, <1>6, <1>14 DEF Aside
<1>16. Turn(Book(m), Book(m)', {"load", "acks"}, {})
  <2>1. stat'[m] = stat[m] /\ Received(m)' = Received(m)
    BY <1>2, <1>3, <1>14
  <2> QED BY <1>3, <1>8, <2>1 DEF Turn, Lines, Book
<1>17. /\ Len(wire'[n]) = Len(wire[n]) - 1
       /\ NumberOf(wire'[n], {"DATA"}) = NumberOf(wire[n], {"DATA"}) - 1
       /\ NumberOf(wire'[n], {"ACK"}) = NumberOf(wire[n], {"ACK"})
  BY <1>2, <1>7 DEF ComesIn
<1>18. Apart(n)' /\ Apart(m)' /\ Attempts(m)'
  BY <1>2, <1>9, <1>10, <1>11, <1>14 DEF Apart, Attempts
<1>19. ASSUME Count(n, {"packets_receive"}), d \notin Received(n),
              Received(n)' = Received(n) \cup {d}
       PROVE  Attempts(n)' /\ Entry(Book(n), Book(m), Book(n)', Book(m)')
  <2>1. /\ stat'[n].packets_send = stat[n].packets_send
        /\ stat'[n].packets_attempt = stat[n].packets_attempt
        /\ stat'[n].ack_receive = stat[n].ack_receive
        /\ stat'[n].packets_receive = stat[n].packets_receive + 1
        /\ stat'[n].packets_receive_dropped = stat[n].packets_receive_dropped
    BY <1>2, <1>19, CountGives
  <2>2. Cardinality(Received(n)') = Cardinality(Received(n)) + 1
    <3>1. PICK S, T : S = Received(n) /\ T = Received(n)'
      OBVIOUS
    <3>2. IsFiniteSet(S) /\ T = S \cup {d} /\ d \notin S
      BY <1>2, <1>19, <3>1, GotIsReceived
    <3>3. Cardinality(S \cup {d}) = Cardinality(S) + 1
      BY <3>2, FS_AddElement
    <3> QED BY <3>1, <3>2, <3>3
  <2>3. Turn(Book(n), Book(n)', {"recv", "got"}, {"data", "load"})
    BY <1>3, <1>17, <2>1, <2>2 DEF Turn, Lines, Book
  <2> QED BY <1>2, <1>13, <1>16, <2>1, <2>3 DEF Entry, EntryReceived, Post, Attempts
<1>20. ASSUME Count(n, {"packets_receive_dropped"}), Received(n)' = Received(n)
       PROVE  Attempts(n)' /\ Entry(Book(n), Book(m), Book(n)', Book(m)')
  <2>1. /\ stat'[n].packets_send = stat[n].packets_send
        /\ stat'[n].packets_attempt = stat[n].packets_attempt
        /\ stat'[n].ack_receive = stat[n].ack_receive
        /\ stat'[n].packets_receive = stat[n].packets_receive
        /\ stat'[n].packets_receive_dropped = stat[n].packets_receive_dropped + 1
    BY <1>2, <1>20, CountGives
  <2>2. Turn(Book(n), Book(n)', {"drop"}, {"data", "load"})
    BY <1>3, <1>17, <1>20, <2>1 DEF Turn, Lines, Book
  <2> QED BY <1>2, <1>13, <1>16, <2>1, <2>2 DEF Entry, EntryDropped, Post, Attempts
<1> QED BY <1>1, <1>4, <1>15, <1>18, <1>19, <1>20, EntrySettles

-----------------------------------------------------------------------------
\* The invariant holds.

LEMMA BooksInit == StatInit => BooksInv
<1> SUFFICES ASSUME StatInit PROVE BooksInv
  OBVIOUS
<1>1. ColumnInv /\ SessionDelivery
  BY ColumnInit, SessionDeliveryInit DEF StatInit
<1>2. ASSUME NEW k \in Nodes
      PROVE  /\ stat[k] = NoCounts /\ pings[k] = 0 /\ flushed[k] = 0
             /\ pingWire[k] = [ping |-> 0, ack |-> 0]
             /\ lost[k] = [copies |-> 0, answers |-> 0]
             /\ sent[k] = 0 /\ writeQueue[k] = <<>> /\ wire[k] = <<>>
             /\ delivered[k] = <<>> /\ receiveQueue[k] = {}
  BY StatAssumption DEF StatInit, Init, EmptyWire
<1>3. ASSUME NEW k \in Nodes
      PROVE  /\ Received(k) = {} /\ Waiting(k) = {} /\ Uncovered(k) = {}
             /\ CopiesOn(wire[k]) = {}
  <2>1. ToSet(delivered[k]) = {} /\ ToSet(writeQueue[k]) = {}
    BY <1>2, EmptySeq DEF ToSet
  <2>2. PlacesOf(wire[k], {"DATA"}) = {}
    BY <1>2, EmptySeq DEF PlacesOf
  <2>3. Received(k) = {} /\ Waiting(k) = {}
    BY <1>2, <2>1 DEF Received, Waiting
  <2>4. 1 .. sent[k] = {}
    BY <1>2
  <2> QED BY <2>2, <2>3, <2>4 DEF CopiesOn, Uncovered
<1>4. /\ \A k \in Nodes : Len(wire[k]) = 0 /\ Len(writeQueue[k]) = 0
      /\ \A k \in Nodes : NumberOf(wire[k], {"DATA"}) = 0 /\ NumberOf(wire[k], {"ACK"}) = 0
  <2>1. \A k \in Nodes : wire[k] \in Seq(Packets)
    BY <1>1, OrderedPaths DEF ColumnInv
  <2> QED BY <1>2, <2>1, EmptySeq, PlacesFinite
<1>5. Cardinality({}) = 0
  BY FS_EmptySet
<1>6. ASSUME NEW k \in Nodes
      PROVE  Reads(Book(k), 0, 0, 0, 0, 0, 0, 0, 0, 0, 0, 0, 0, 0, 0, 0, 0, 0, 0)
  <2>1. /\ stat[k].packets_send = 0 /\ stat[k].packets_attempt = 0
        /\ stat[k].ack_receive = 0 /\ stat[k].packets_receive = 0
        /\ stat[k].packets_receive_dropped = 0
    BY <1>2 DEF NoCounts, Counters
  <2>2. /\ pingWire[k].ping = 0 /\ pingWire[k].ack = 0
        /\ lost[k].copies = 0 /\ lost[k].answers = 0
        /\ pings[k] = 0 /\ flushed[k] = 0 /\ sent[k] = 0
    BY <1>2
  <2>3. Cardinality(Received(k)) = 0 /\ Cardinality(Uncovered(k)) = 0
    BY <1>3, <1>5
  <2> QED BY <1>4, <2>1, <2>2, <2>3 DEF Book, Reads
<1>7. ASSUME NEW n \in Nodes PROVE Settled(n)
  <2>1. Peer[n] \in Nodes
    BY PeerFacts
  <2>2. PICK x, y : x = Book(n) /\ y = Book(Peer[n])
    OBVIOUS
  <2>3. /\ Reads(x, 0, 0, 0, 0, 0, 0, 0, 0, 0, 0, 0, 0, 0, 0, 0, 0, 0, 0)
        /\ Reads(y, 0, 0, 0, 0, 0, 0, 0, 0, 0, 0, 0, 0, 0, 0, 0, 0, 0, 0)
    BY <1>6, <2>1, <2>2
  <2>4. Balanced(x, y)
    BY <2>3 DEF Reads, Balanced, CopiesAdd, AnswersAdd, PingsBound, GonePaid, LoadPaid
  <2>5. stat[n].packets_attempt <= MaxAttempts[n]
    BY <1>2, StatAssumption DEF NoCounts, Counters
  <2>6. Waiting(n) \cap Reach(n) = {}
    BY <1>3
  <2> QED BY <2>2, <2>4, <2>5, <2>6 DEF Settled
<1> QED BY <1>1, <1>7 DEF BooksInv

LEMMA BooksStutter ==
    ASSUME BooksInv, UNCHANGED allVars, NEW n \in Nodes
    PROVE  Settled(n)'
<1>1. /\ UNCHANGED vars /\ UNCHANGED <<stat, pings, pingWire, flushed, lost>>
      /\ Peer[n] \in Nodes /\ Settled(n)
  BY PeerFacts DEF allVars, statVars, BooksInv
<1>2. \A k \in Nodes : /\ Waiting(k)' = Waiting(k) /\ Reach(k)' = Reach(k)
                       /\ Received(k)' = Received(k) /\ Uncovered(k)' = Uncovered(k)
                       /\ writeQueue'[k] = writeQueue[k] /\ sent'[k] = sent[k]
                       /\ wire'[k] = wire[k]
  BY <1>1, PingsAside
<1>3. \A k \in Nodes : Book(k)' = Book(k)
  BY <1>1, <1>2 DEF Book
<1> HIDE DEF Book
<1>4. Balanced(Book(n), Book(Peer[n]))'
  BY <1>1, <1>3 DEF Settled, Balanced, CopiesAdd, AnswersAdd, PingsBound, GonePaid, LoadPaid
<1> QED BY <1>1, <1>2, <1>4 DEF Settled

LEMMA BooksStep == Orderly /\ BooksInv /\ [StatNext]_allVars => BooksInv'
<1> SUFFICES ASSUME Orderly, BooksInv, [StatNext]_allVars PROVE BooksInv'
  OBVIOUS
<1>1. ColumnInv' /\ SessionDelivery'
  BY ColumnStep, StatIsSession, SessionDeliveryStep DEF BooksInv
<1>2. \A k \in Nodes : Settled(k)'
  <2>1. CASE UNCHANGED allVars
    BY <2>1, BooksStutter
  <2>2. ASSUME NEW n \in Nodes,
               SendPing(n) \/ ReceivePing(n) \/ ReceiveAckPing(n) \/ StatLosePing(n)
        PROVE  \A k \in Nodes : Settled(k)'
    BY <2>2, PingEntry
  <2>3. ASSUME NEW n \in Nodes, StatReceive(n) PROVE \A k \in Nodes : Settled(k)'
    BY <2>3, AckEntry, DataEntry DEF StatReceive
  <2>4. ASSUME NEW n \in Nodes,
               StatSendData(n) \/ StatResend(n) \/ StatFlush(n) \/ StatLose(n)
        PROVE  \A k \in Nodes : Settled(k)'
    BY <2>4, SendDataEntry, ResendEntry, FlushEntry, LoseEntry
  <2> QED BY <2>1, <2>2, <2>3, <2>4 DEF StatNext
<1> QED BY <1>1, <1>2 DEF BooksInv

-----------------------------------------------------------------------------
\* What the tables of the two ends show

\* The payloads of n wait, are received or on the way, or are nowhere.
LEMMA PayloadsCounted ==
    ASSUME BooksInv, NEW n \in Nodes, NEW m, m = Peer[n]
    PROVE  /\ sent[n] <= Len(writeQueue[n]) + Cardinality(Received(m))
                         + NumberOf(wire[m], {"DATA"}) + Cardinality(Uncovered(n))
           /\ Len(writeQueue[n]) + Cardinality(Received(m)) <= sent[n]
<1>1. /\ m \in Nodes /\ Peer[m] = n /\ SessionInv /\ StatTypes /\ QueueInv(n) /\ Apart(n)
      /\ sent[n] \in Nat /\ wire[m] \in Seq(Packets)
  BY BooksGive
<1>2. PICK W, R, C, U, t, c : /\ W = Waiting(n) /\ R = Received(m) /\ C = CopiesOn(wire[m])
                              /\ U = Uncovered(n) /\ t = sent[n]
                              /\ c = NumberOf(wire[m], {"DATA"})
  OBVIOUS
<1>3. /\ IsFiniteSet(W) /\ Cardinality(W) = Len(writeQueue[n]) /\ W \subseteq 1 .. t
  BY <1>1, <1>2, WaitingCounted
<1>4. IsFiniteSet(R) /\ R \subseteq 1 .. t
  BY <1>1, <1>2, GotIsReceived
<1>5. IsFiniteSet(C) /\ Cardinality(C) <= c
  BY <1>1, <1>2, CopiesCounted
<1>6. IsFiniteSet(U)
  BY <1>1, <1>2, GoneCounted
<1>7. W \cap R = {} /\ U = (1 .. t) \ (W \cup R \cup C)
  BY <1>1, <1>2 DEF Apart, Reach, Uncovered, Covered
<1>8. t \in Nat /\ IsFiniteSet(1 .. t) /\ Cardinality(1 .. t) = t
  <2>1. 1 \in Int /\ t \in Int /\ (1 > t <=> t = 0) /\ t - 1 + 1 = t
    BY <1>1, <1>2
  <2> QED BY <1>1, <1>2, <2>1, FS_Interval
<1>9. /\ Cardinality(W) \in Nat /\ Cardinality(R) \in Nat /\ Cardinality(C) \in Nat
      /\ Cardinality(U) \in Nat /\ c \in Nat
  BY <1>1, <1>2, <1>3, <1>4, <1>5, <1>6, FS_CardinalityType, PlacesFinite
<1>10. IsFiniteSet(W \cup R) /\ Cardinality(W \cup R) = Cardinality(W) + Cardinality(R)
  <2>1. /\ IsFiniteSet(W \cup R)
        /\ Cardinality(W \cup R) = Cardinality(W) + Cardinality(R) - Cardinality(W \cap R)
    BY <1>3, <1>4, FS_Union
  <2>2. Cardinality(W \cap R) = 0
    BY <1>7, FS_EmptySet
  <2> QED BY <1>9, <2>1, <2>2
<1>11. Cardinality(W \cup R) <= t
  <2>1. W \cup R \in SUBSET (1 .. t)
    BY <1>3, <1>4
  <2> QED BY <1>8, <2>1, FS_Subset
<1>12. ASSUME NEW S, NEW T, IsFiniteSet(S), IsFiniteSet(T)
       PROVE  IsFiniteSet(S \cup T) /\ Cardinality(S \cup T) <= Cardinality(S) + Cardinality(T)
  <2>1. /\ IsFiniteSet(S \cup T)
        /\ Cardinality(S \cup T) = Cardinality(S) + Cardinality(T) - Cardinality(S \cap T)
    BY <1>12, FS_Union
  <2>2. IsFiniteSet(S \cap T)
    <3>1. S \cap T \in SUBSET S
      OBVIOUS
    <3> QED BY <1>12, <3>1, FS_Subset
  <2>3. Cardinality(S \cap T) \in Nat /\ Cardinality(S) \in Nat /\ Cardinality(T) \in Nat
    BY <1>12, <2>2, FS_CardinalityType
  <2> QED BY <2>1, <2>3
<1>13. t <= Cardinality(W) + Cardinality(R) + c + Cardinality(U)
  <2>1. PICK V, X : V = (W \cup R) \cup C /\ X = V \cup U
    OBVIOUS
  <2>2. IsFiniteSet(V) /\ Cardinality(V) <= Cardinality(W \cup R) + Cardinality(C)
    BY <1>5, <1>10, <1>12, <2>1
  <2>3. IsFiniteSet(X) /\ Cardinality(X) <= Cardinality(V) + Cardinality(U)
    BY <1>6, <1>12, <2>1, <2>2
  <2>4. t <= Cardinality(X)
    <3>1. 1 .. t \in SUBSET X
      BY <1>7, <2>1
    <3> QED BY <1>8, <2>3, <3>1, FS_Subset
  <2>5. PICK i \in Nat, j \in Nat : i = Cardinality(V) /\ j = Cardinality(X)
    BY <2>2, <2>3, FS_CardinalityType
  <2>6. PICK b \in Nat, e \in Nat, k \in Nat, z \in Nat :
          /\ b = Cardinality(W) /\ e = Cardinality(R)
          /\ k = Cardinality(C) /\ z = Cardinality(U)
    BY <1>9
  <2>7. t <= j /\ j <= i + z /\ i <= (b + e) + k /\ k <= c
    BY <1>5, <1>10, <2>2, <2>3, <2>4, <2>5, <2>6
  <2>8. t <= b + e + c + z
    BY <1>8, <1>9, <2>7
  <2> QED BY <2>6, <2>8
<1> QED BY <1>2, <1>3, <1>10, <1>11, <1>13

LEMMA CopiesShown == BooksInv => EveryCopyCountedOnce
<1> SUFFICES ASSUME BooksInv, NEW n \in Nodes, NEW m, m = Peer[n]
             PROVE  /\ Row(n).send + Row(n).repeat + flushed[n]
                       = Row(m).recv + Row(m).drop + InFlightOf(wire[m], "DATA")
                         + pingWire[m].ping + lost[m].copies
                    /\ Row(m).drop <= Row(n).repeat
                    /\ lost[m].copies = 0 /\ wire[m] = <<>> => Row(m).drop = Row(n).repeat
  BY DEF EveryCopyCountedOnce
<1>1. /\ m \in Nodes /\ Peer[m] = n /\ SessionInv /\ TypeInv /\ StatTypes
      /\ Settled(n) /\ Columns(n) /\ wire[m] \in Seq(Packets)
  BY BooksGive DEF BooksInv, ColumnInv
<1>2. PICK x \in Books, y \in Books : x = Book(n) /\ y = Book(m)
  BY <1>1, BookTyped
<1>3. PICK s \in Nat, g \in Nat, f \in Nat, w \in Nat, t \in Nat, p \in Nat, u \in Nat :
        /\ s = x.send /\ g = x.again /\ f = x.flushed /\ w = x.waits /\ t = x.sent
        /\ p = x.pings /\ u = x.gone
  BY DEF Books
<1>4. PICK r \in Nat, d \in Nat, c \in Nat, i \in Nat, l \in Nat, h \in Nat :
        /\ r = y.recv /\ d = y.drop /\ c = y.data /\ i = y.ping /\ l = y.copies /\ h = y.got
  BY DEF Books
<1>5. /\ s = stat[n].packets_send /\ g = stat[n].packets_attempt /\ f = flushed[n]
      /\ w = Len(writeQueue[n]) /\ t = sent[n] /\ p = pings[n]
      /\ u = Cardinality(Uncovered(n))
  BY <1>2, <1>3 DEF Book
<1>6. /\ r = stat[m].packets_receive /\ d = stat[m].packets_receive_dropped
      /\ c = NumberOf(wire[m], {"DATA"}) /\ i = pingWire[m].ping /\ l = lost[m].copies
      /\ h = Cardinality(Received(m))
  BY <1>2, <1>4 DEF Book
<1>7. Balanced(x, y)
  BY <1>1, <1>2 DEF Settled
<1>8. s + g + f = r + d + c + i + l /\ r + i <= h + p /\ u + p + h <= r + i + l
  BY <1>3, <1>4, <1>7 DEF Balanced, CopiesAdd, PingsBound, GonePaid
<1>9. s + f + w = t + p
  BY <1>1, <1>5 DEF Columns
<1>10. t <= w + h + c + u /\ w + h <= t
  BY <1>5, <1>6, PayloadsCounted
<1>11. /\ d <= g
       /\ l = 0 /\ c = 0 => d = g
  BY <1>8, <1>9, <1>10
<1>12. /\ Row(n).send = s /\ Row(n).repeat = g /\ Row(m).recv = r /\ Row(m).drop = d
       /\ InFlightOf(wire[m], "DATA") = c
  BY <1>1, <1>5, <1>6, RowReads, InFlightIsNumber
<1>13. wire[m] = <<>> => c = 0
  BY <1>1, <1>6, PlacesFinite
<1> QED BY <1>5, <1>6, <1>8, <1>11, <1>12, <1>13

LEMMA AnswersShown == BooksInv => EveryAnswerCountedOnce
<1> SUFFICES ASSUME BooksInv, NEW n \in Nodes, NEW m, m = Peer[n]
             PROVE  Row(n).recv + Row(n).drop
                    = Row(m).ack - PingsReceived(m) + InFlightOf(wire[m], "ACK")
                      + pingWire[m].ack + lost[m].answers
  BY DEF EveryAnswerCountedOnce
<1>1. /\ m \in Nodes /\ SessionInv /\ TypeInv /\ StatTypes /\ Settled(n)
  BY BooksGive DEF BooksInv
<1>2. PICK x \in Books, y \in Books : x = Book(n) /\ y = Book(m)
  BY <1>1, BookTyped
<1>3. PICK r \in Nat, d \in Nat, v \in Nat, k \in Nat, h \in Nat, c \in Nat, i \in Nat, l \in Nat :
        /\ r = x.recv /\ d = x.drop
        /\ v = y.recv /\ k = y.ack /\ h = y.got /\ c = y.acks /\ i = y.pong /\ l = y.answers
  BY DEF Books
<1>4. /\ r = stat[n].packets_receive /\ d = stat[n].packets_receive_dropped
      /\ v = stat[m].packets_receive /\ k = stat[m].ack_receive
      /\ h = Cardinality(Received(m)) /\ c = NumberOf(wire[m], {"ACK"})
      /\ i = pingWire[m].ack /\ l = lost[m].answers
  BY <1>2, <1>3 DEF Book
<1>5. r + d + v = k + h + c + i + l
  BY <1>1, <1>2, <1>3 DEF Settled, Balanced, AnswersAdd
<1>6. h = Len(delivered[m]) + Row(m).RQ
  BY <1>1, <1>4, GotIsReceived, RowReads
<1>7. PingsReceived(m) = v - h
  BY <1>1, <1>4, <1>6, RowReads DEF PingsReceived
<1>8. /\ Row(n).recv = r /\ Row(n).drop = d /\ Row(m).ack = k
      /\ InFlightOf(wire[m], "ACK") = c
  BY <1>1, <1>4, RowReads, InFlightIsNumber
<1>9. r + d = k - (v - h) + c + i + l
  BY <1>5
<1> QED BY <1>4, <1>7, <1>8, <1>9

\* In a session on ordered paths that lose packets, what one end shows as sent
\* and repeated is what the other end shows as received and dropped, with what
\* is in flight, what the path lost and what a flush sent; no more is dropped
\* than was repeated, and exactly that when nothing was lost.
\* (the counters of trudp_channel.c, ksnTRUDPstatShowStr)
THEOREM CopiesCountedOnce == Orderly => (StatSpec => []EveryCopyCountedOnce)
<1> SUFFICES ASSUME Orderly PROVE StatSpec => []EveryCopyCountedOnce
  OBVIOUS
<1>1. BooksInv /\ [StatNext]_allVars => BooksInv'
  BY BooksStep
<1> QED BY <1>1, BooksInit, CopiesShown, PTL DEF StatSpec

\* Every copy that was received was answered once: the ACK column of the other
\* end lacks the answers in flight and the lost ones only, when the PINGs, which
\* it counts as ACKs too, are taken out.
\* (trudpChannelProcessReceivedPacket, _trudpChannelCalculateTriptime)
THEOREM AnswersCountedOnce == Orderly => (StatSpec => []EveryAnswerCountedOnce)
<1> SUFFICES ASSUME Orderly PROVE StatSpec => []EveryAnswerCountedOnce
  OBVIOUS
<1>1. BooksInv /\ [StatNext]_allVars => BooksInv'
  BY BooksStep
<1> QED BY <1>1, BooksInit, AnswersShown, PTL DEF StatSpec
=============================================================================
