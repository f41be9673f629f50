---------------------- MODULE ExternalConnectionProofs ----------------------
(***************************************************************************)
(* Proofs about ExternalConnection, for any set of devices and any bounds. *)
(***************************************************************************)
EXTENDS ExternalConnection, QueueLemmas

-----------------------------------------------------------------------------
(* The inductive invariant *)

\* A server message is a command within the bound, or no command.
Numbered(m) == m.kind = "command" => m.ctr <= MaxCommand

\* TypeOK is not inductive by itself: serverMessageCounter_ takes the number of a command.
TypeInv ==
    /\ TypeOK
    /\ \A i \in 1..Len(fromServer) : Numbered(fromServer[i])
    /\ \A i \in 1..Len(received) : Numbered(received[i])

\* What a thread has in its hand, and what it relies on from one step to the next.
HandsInv ==
    /\ caller = "item" => reconnects # <<>>
    /\ lpc = "handle" <=> received # <<>>
    /\ xpc = "send" => reading # <<>> /\ reading[1] \in todo
    /\ inHand # <<>> => cpc = "fill"
    /\ xpc \in {"none", "init", "connect", "response"} => todo = {}

\* The client thread waits while the connect thread runs, state_ says where that is, and
\* without a session there is no listener but one that is about to be joined.  A failed
\* send in the connect sequence leaves NOT_INITIALIZED behind: the sequence cannot succeed
\* any more, as the channel is down and a response is awaited.
ThreadInv ==
    /\ xpc # "none" <=> cpc \in {"drain", "fill", "joinConnect"}
    /\ state = "NOT_INITIALIZED" /\ cpc # "join" => lpc = "none"
    /\ cpc \in {"join", "collect", "force", "forced"} \/ xpc = "init" => state = "NOT_INITIALIZED"
    /\ xpc = "none" => state # "CONNECTING"
    /\ xpc \in {"connect", "response", "command", "listening"} => state = "CONNECTING"
    /\ xpc \in {"status", "send", "ack"} =>
          \/ state = "CONNECTING"
          \/ state = "NOT_INITIALIZED" /\ ~up /\ listed # {} /\ (xpc = "ack" => todo = listed)
    /\ xpc \in {"clear", "ok"} => state = "CONNECTED"
    /\ xpc = "failed" => state = "NOT_CONNECTED"
    /\ ListenerJoined

-----------------------------------------------------------------------------
(* The operations of the error aggregator and of the sent messages *)

SentStatuses == [ctr : Nat, dev : Devices, n : 0..MaxStatus]

\* What the error aggregator can be fed with.
Feed(s) ==
    /\ Len(s) \in Nat
    /\ \A i \in 1..Len(s) : s[i].dev \in Devices /\ s[i].n \in 0..MaxStatus

\* add_status_to_error_aggregator registers the devices and keeps every status.
LEMMA AddToAggregatorProperties ==
    ASSUME TypeOK, NEW s, Feed(s), AddToAggregator(s)
    PROVE  /\ registered' \subseteq Devices
           /\ lastStatus' \in [Devices -> 0..MaxStatus]
           /\ error' \in [Devices -> SUBSET (0..MaxStatus)]
           /\ registered \subseteq registered'
           /\ \A d \in Devices : error[d] \subseteq error'[d]
           /\ \A i \in 1..Len(s) : s[i].dev \in registered' /\ s[i].n \in error'[s[i].dev]
<1> DEFINE of(d) == {i \in 1..Len(s) : s[i].dev = d}
           last(d) == CHOOSE i \in of(d) : \A j \in of(d) : j <= i
<1>1. /\ registered' = registered \cup {s[i].dev : i \in 1..Len(s)}
      /\ lastStatus' = [d \in Devices |-> IF of(d) = {} THEN lastStatus[d] ELSE s[last(d)].n]
      /\ error' = [d \in Devices |-> error[d] \cup {s[i].n : i \in of(d)}]
  BY DEF AddToAggregator
<1>2. ASSUME NEW d \in Devices, of(d) # {} PROVE s[last(d)].n \in 0..MaxStatus
  <2>1. of(d) \in SUBSET (0..Len(s)) /\ Len(s) \in Nat
    BY DEF Feed
  <2>2. \E i \in of(d) : \A j \in of(d) : j <= i
    BY <1>2, <2>1, LargestIndex
  <2>3. last(d) \in of(d)
    BY <2>2
  <2> QED
    BY <2>3 DEF Feed
<1>3. lastStatus' \in [Devices -> 0..MaxStatus]
  <2> HIDE DEF last, of
  <2> QED
    BY <1>1, <1>2 DEF TypeOK
<1>4. error' \in [Devices -> SUBSET (0..MaxStatus)]
  BY <1>1, SMTT(30) DEF TypeOK, Feed
<1>5. registered' \subseteq Devices /\ registered \subseteq registered'
  BY <1>1 DEF TypeOK, Feed
<1>6. \A d \in Devices : error[d] \subseteq error'[d]
  BY <1>1
<1>7. \A i \in 1..Len(s) : s[i].dev \in registered' /\ s[i].n \in error'[s[i].dev]
  BY <1>1 DEF Feed
<1> QED
  BY <1>3, <1>4, <1>5, <1>6, <1>7

\* The statuses that wait for a response and those that follow can be fed to it, and all
\* of them are entries of the concatenation.
LEMMA FeedOfTwo ==
    ASSUME TypeOK, NEW S, NEW more \in Seq(S), Feed(more)
    PROVE  /\ Feed(notAcked \o more)
           /\ \A i \in 1..Len(notAcked) : \E k \in 1..Len(notAcked \o more) :
                 (notAcked \o more)[k] = notAcked[i]
           /\ \A i \in 1..Len(more) : \E k \in 1..Len(notAcked \o more) :
                 (notAcked \o more)[k] = more[i]
<1> DEFINE T == SentStatuses \cup S
           a == notAcked
           r == notAcked \o more
<1>1. a \in Seq(T) /\ more \in Seq(T)
  <2>1. a \in Seq(SentStatuses)
    BY DEF TypeOK, SentStatuses
  <2>2. \A X, Y : \A q \in Seq(X) : X \subseteq Y => q \in Seq(Y)
    OBVIOUS
  <2>3. SentStatuses \subseteq T /\ S \subseteq T
    OBVIOUS
  <2> QED
    BY <2>1, <2>2, <2>3
<1> HIDE DEF T
<1>2. /\ Len(a) \in Nat /\ Len(more) \in Nat
      /\ Len(r) = Len(a) + Len(more)
      /\ \A i \in 1..(Len(a) + Len(more)) : r[i] = IF i <= Len(a) THEN a[i] ELSE more[i - Len(a)]
  BY <1>1, ConcatProperties, LenProperties
<1>3. \A i \in 1..Len(a) : a[i].dev \in Devices /\ a[i].n \in 0..MaxStatus
  <2>1. notAcked \in Seq(SentStatuses)
    BY DEF TypeOK, SentStatuses
  <2>2. \A i \in 1..Len(a) : a[i] \in SentStatuses
    BY <2>1, ElementOfSeq
  <2> QED
    BY <2>2 DEF SentStatuses
<1> HIDE DEF a, r
<1>4. Feed(r)
  <2>1. ASSUME NEW i \in 1..Len(r) PROVE r[i].dev \in Devices /\ r[i].n \in 0..MaxStatus
    <3>1. CASE i <= Len(a)
      BY <1>2, <1>3, <3>1
    <3>2. CASE ~(i <= Len(a))
      <4>1. i - Len(a) \in 1..Len(more) /\ r[i] = more[i - Len(a)]
        BY <1>2, <3>2
      <4> QED
        BY <4>1 DEF Feed
    <3> QED
      BY <3>1, <3>2
  <2> QED
    BY <1>2, <2>1 DEF Feed
<1>5. ASSUME NEW i \in 1..Len(a) PROVE \E k \in 1..Len(r) : r[k] = a[i]
  <2>1. i \in 1..Len(r) /\ r[i] = a[i]
    BY <1>2
  <2> QED
    BY <2>1
<1>6. ASSUME NEW i \in 1..Len(more) PROVE \E k \in 1..Len(r) : r[k] = more[i]
  <2>1. Len(a) + i \in 1..Len(r) /\ ~(Len(a) + i <= Len(a)) /\ (Len(a) + i) - Len(a) = i
    BY <1>2
  <2>2. r[Len(a) + i] = more[i]
    BY <1>2, <2>1
  <2> QED
    BY <2>1, <2>2
<1> QED
  BY <1>4, <1>5, <1>6 DEF a, r


\* What erasing the i-th element does to a list.
LEMMA EraseProperties ==
    ASSUME NEW S, NEW q \in Seq(S), NEW i \in 1..Len(q)
    PROVE  /\ RemoveAt(q, i) \in Seq(S)
           /\ Len(RemoveAt(q, i)) = Len(q) - 1
           /\ \A k \in 1..(Len(q) - 1) :
                 RemoveAt(q, i)[k] = IF k < i THEN q[k] ELSE q[k + 1]
<1> DEFINE a == SubSeq(q, 1, i - 1)
           b == SubSeq(q, i + 1, Len(q))
           r == a \o b
<1>0. Len(q) \in Nat
  BY LenProperties
<1>1. /\ a \in Seq(S) /\ Len(a) = i - 1
      /\ \A k \in 1..(i - 1) : a[k] = q[k]
  <2>1. 1 \in 1..(Len(q) + 1) /\ i - 1 \in 0..Len(q) /\ 1 <= i - 1 + 1
    BY <1>0
  <2>2. /\ a \in Seq(S) /\ Len(a) = (i - 1) - 1 + 1
        /\ \A k \in 1..((i - 1) - 1 + 1) : a[k] = q[1 + k - 1]
    BY <2>1, PartProperties
  <2> QED
    BY <1>0, <2>2
<1>2. /\ b \in Seq(S) /\ Len(b) = Len(q) - i
      /\ \A k \in 1..(Len(q) - i) : b[k] = q[i + k]
  <2>1. i + 1 \in 1..(Len(q) + 1) /\ Len(q) \in 0..Len(q) /\ i + 1 <= Len(q) + 1
    BY <1>0
  <2>2. /\ b \in Seq(S) /\ Len(b) = Len(q) - (i + 1) + 1
        /\ \A k \in 1..(Len(q) - (i + 1) + 1) : b[k] = q[(i + 1) + k - 1]
    BY <2>1, PartProperties
  <2> QED
    BY <1>0, <2>2
<1> HIDE DEF a, b
<1>3. /\ r \in Seq(S) /\ Len(r) = Len(a) + Len(b)
      /\ \A k \in 1..(Len(a) + Len(b)) : r[k] = IF k <= Len(a) THEN a[k] ELSE b[k - Len(a)]
  BY <1>1, <1>2, ConcatProperties
<1> HIDE DEF r
<1>4. Len(r) = Len(q) - 1
  BY <1>0, <1>1, <1>2, <1>3
<1>5. ASSUME NEW k \in 1..(Len(q) - 1) PROVE r[k] = IF k < i THEN q[k] ELSE q[k + 1]
  <2>0. k \in 1..(Len(a) + Len(b))
    BY <1>0, <1>1, <1>2
  <2>1. r[k] = IF k <= Len(a) THEN a[k] ELSE b[k - Len(a)]
    BY <1>3, <2>0
  <2>2. CASE k < i
    BY <1>0, <1>1, <2>1, <2>2
  <2>3. CASE ~(k < i)
    <3>1. k - (i - 1) \in 1..(Len(q) - i) /\ i + (k - (i - 1)) = k + 1 /\ ~(k <= i - 1)
      BY <1>0, <2>3
    <3>2. r[k] = b[k - (i - 1)]
      BY <1>1, <2>1, <3>1
    <3> QED
      BY <1>2, <2>3, <3>1, <3>2
  <2> QED
    BY <2>2, <2>3
<1>6. RemoveAt(q, i) = r
  BY DEF RemoveAt, a, b, r
<1> QED
  BY <1>3, <1>4, <1>5, <1>6

\* What inserting e at the i-th place does to a list.
LEMMA InsertProperties ==
    ASSUME NEW S, NEW q \in Seq(S), NEW i \in 1..(Len(q) + 1), NEW e \in S
    PROVE  /\ InsertAt(q, i, e) \in Seq(S)
           /\ Len(InsertAt(q, i, e)) = Len(q) + 1
           /\ \A k \in 1..(Len(q) + 1) :
                 InsertAt(q, i, e)[k] = IF k < i THEN q[k] ELSE IF k = i THEN e ELSE q[k - 1]
<1> DEFINE a == SubSeq(q, 1, i - 1)
           c == a \o <<e>>
           b == SubSeq(q, i, Len(q))
           r == c \o b
<1>0. Len(q) \in Nat
  BY LenProperties
<1>1. /\ a \in Seq(S) /\ Len(a) = i - 1
      /\ \A k \in 1..(i - 1) : a[k] = q[k]
  <2>1. 1 \in 1..(Len(q) + 1) /\ i - 1 \in 0..Len(q) /\ 1 <= i - 1 + 1
    BY <1>0
  <2>2. /\ a \in Seq(S) /\ Len(a) = (i - 1) - 1 + 1
        /\ \A k \in 1..((i - 1) - 1 + 1) : a[k] = q[1 + k - 1]
    BY <2>1, PartProperties
  <2> QED
    BY <1>0, <2>2
<1>2. /\ b \in Seq(S) /\ Len(b) = Len(q) - i + 1
      /\ \A k \in 1..(Len(q) - i + 1) : b[k] = q[i + k - 1]
  <2>1. Len(q) \in 0..Len(q) /\ i <= Len(q) + 1
    BY <1>0
  <2> QED
    BY <2>1, PartProperties
<1> HIDE DEF a, b
<1>3. c \in Seq(S) /\ Len(c) = i /\ \A k \in 1..i : c[k] = IF k < i THEN q[k] ELSE e
  <2>1. c = Append(a, e)
    BY <1>1, PushIsConcat
  <2>2. /\ c \in Seq(S) /\ Len(c) = Len(a) + 1
        /\ \A k \in 1..Len(a) : c[k] = a[k]
        /\ c[Len(a) + 1] = e
    BY <1>1, <2>1, PushProperties
  <2> HIDE DEF c
  <2>3. Len(c) = i /\ c[i] = e /\ \A k \in 1..(i - 1) : c[k] = q[k]
    BY <1>0, <1>1, <2>2
  <2> QED
    BY <1>0, <2>2, <2>3
<1> HIDE DEF c
<1>4. /\ r \in Seq(S) /\ Len(r) = Len(c) + Len(b)
      /\ \A k \in 1..(Len(c) + Len(b)) : r[k] = IF k <= Len(c) THEN c[k] ELSE b[k - Len(c)]
  BY <1>2, <1>3, ConcatProperties
<1> HIDE DEF r
<1>5. Len(r) = Len(q) + 1
  BY <1>0, <1>2, <1>3, <1>4
<1>6. ASSUME NEW k \in 1..(Len(q) + 1)
      PROVE  r[k] = IF k < i THEN q[k] ELSE IF k = i THEN e ELSE q[k - 1]
  <2>1. r[k] = IF k <= i THEN c[k] ELSE b[k - i]
    BY <1>0, <1>2, <1>3, <1>4
  <2>2. CASE k <= i
    BY <1>0, <1>3, <2>1, <2>2
  <2>3. CASE ~(k <= i)
    <3>1. k - i \in 1..(Len(q) - i + 1) /\ i + (k - i) - 1 = k - 1 /\ ~(k < i) /\ k # i
      BY <1>0, <2>3
    <3> QED
      BY <1>2, <2>1, <2>3, <3>1
  <2> QED
    BY <2>2, <2>3
<1>7. InsertAt(q, i, e) = r
  BY DEF InsertAt, a, b, c, r
<1> QED
  BY <1>4, <1>5, <1>6, <1>7


\* fillErrorAggregator: nothing that waits for a response, and nothing given, is lost.
LEMMA FillProperties ==
    ASSUME TypeOK, NEW S, NEW more \in Seq(S), Feed(more), FillErrorAggregator(more)
    PROVE  /\ registered' \subseteq Devices
           /\ lastStatus' \in [Devices -> 0..MaxStatus]
           /\ error' \in [Devices -> SUBSET (0..MaxStatus)]
           /\ notAcked' = <<>>
           /\ responseHandled' = FALSE
           /\ connectedDevices' = connectedDevices
           /\ registered \subseteq registered'
           /\ \A d \in Devices : error[d] \subseteq error'[d]
           /\ \A i \in 1..Len(notAcked) : notAcked[i].n \in error'[notAcked[i].dev]
           /\ \A i \in 1..Len(more) : more[i].dev \in registered' /\ more[i].n \in error'[more[i].dev]
<1>1. AddToAggregator(notAcked \o more) /\ Feed(notAcked \o more)
  BY FeedOfTwo DEF FillErrorAggregator
<1> DEFINE r == notAcked \o more
<1>4. \A k \in 1..Len(r) : r[k].dev \in registered' /\ r[k].n \in error'[r[k].dev]
  BY <1>1, AddToAggregatorProperties
<1>5. /\ \A i \in 1..Len(notAcked) : \E k \in 1..Len(r) : r[k] = notAcked[i]
      /\ \A i \in 1..Len(more) : \E k \in 1..Len(r) : r[k] = more[i]
  BY FeedOfTwo
<1> HIDE DEF r
<1>2. ASSUME NEW i \in 1..Len(notAcked) PROVE notAcked[i].n \in error'[notAcked[i].dev]
  <2>1. PICK k \in 1..Len(r) : r[k] = notAcked[i]
    BY <1>5
  <2>2. r[k].n \in error'[r[k].dev]
    BY <1>4
  <2> QED
    BY <2>1, <2>2
<1>3. ASSUME NEW i \in 1..Len(more)
      PROVE  more[i].dev \in registered' /\ more[i].n \in error'[more[i].dev]
  <2>1. PICK k \in 1..Len(r) : r[k] = more[i]
    BY <1>5
  <2>2. r[k].dev \in registered' /\ r[k].n \in error'[r[k].dev]
    BY <1>4
  <2> QED
    BY <2>1, <2>2
<1> QED
  BY <1>1, <1>2, <1>3, AddToAggregatorProperties DEF FillErrorAggregator

\* Queues of well-formed statuses can be fed to the error aggregator.
LEMMA FeedOfStatuses ==
    ASSUME NEW q \in Seq(Statuses)
    PROVE  /\ Feed(q)
           /\ q # <<>> => <<Head(q)>> \in Seq(Statuses) /\ Feed(<<Head(q)>>)
                          /\ Tail(q) \in Seq(Statuses) /\ Head(q) \in Statuses
                          /\ Head(q).dev \in Devices /\ Head(q).n \in 0..MaxStatus
<1>1. \A m \in Statuses : m.dev \in Devices /\ m.n \in 0..MaxStatus
  BY ConnectionAssumption DEF Statuses
<1>2. \A i \in 1..Len(q) : q[i] \in Statuses
  BY ElementOfSeq
<1>3. Feed(q)
  BY <1>1, <1>2, LenProperties DEF Feed
<1>4. ASSUME q # <<>> PROVE Head(q) \in Statuses /\ Tail(q) \in Seq(Statuses)
  BY <1>4
<1>5. ASSUME NEW m \in Statuses PROVE <<m>> \in Seq(Statuses) /\ Feed(<<m>>)
  <2>1. Len(<<m>>) = 1 /\ <<m>>[1] = m /\ <<m>> \in Seq(Statuses)
    OBVIOUS
  <2>2. \A i \in 1..1 : i = 1
    OBVIOUS
  <2> QED
    BY <1>1, <2>1, <2>2 DEF Feed
<1> QED
  BY <1>1, <1>3, <1>4, <1>5

\* acknowledgeStatus: one entry, if any, moves to the acknowledged statuses.
LEMMA AcknowledgeProperties ==
    ASSUME TypeOK, NEW m, Acknowledge(m)
    PROVE  /\ notAcked' \in Seq(SentStatuses)
           /\ settled' \in [Devices -> SUBSET (0..MaxStatus)]
           /\ \A d \in Devices : settled[d] \subseteq settled'[d]
           /\ \A k \in 1..Len(notAcked') : \E j \in 1..Len(notAcked) : notAcked'[k] = notAcked[j]
           /\ \A j \in 1..Len(notAcked) :
                 \/ notAcked[j].n \in settled'[notAcked[j].dev]
                 \/ \E k \in 1..Len(notAcked') : notAcked'[k] = notAcked[j]
<1>0. /\ notAcked \in Seq(SentStatuses) /\ Len(notAcked) \in Nat
      /\ settled \in [Devices -> SUBSET (0..MaxStatus)]
  <2>1. notAcked \in Seq(SentStatuses)
    BY DEF TypeOK, SentStatuses
  <2> QED
    BY <2>1, LenProperties DEF TypeOK
<1>1. CASE WithCounter(m.ctr) = {}
  <2>1. notAcked' = notAcked /\ settled' = settled
    BY <1>1 DEF Acknowledge
  <2> QED
    BY <1>0, <2>1
<1>2. CASE WithCounter(m.ctr) # {}
  <2> DEFINE i == CHOOSE i \in WithCounter(m.ctr) : \A j \in WithCounter(m.ctr) : i <= j
             r == RemoveAt(notAcked, i)
  <2>1. i \in 1..Len(notAcked)
    <3>1. WithCounter(m.ctr) \in SUBSET Nat
      BY <1>0 DEF WithCounter
    <3>2. \E x \in WithCounter(m.ctr) : \A j \in WithCounter(m.ctr) : x <= j
      BY <1>2, <3>1, SmallestIndex
    <3>3. i \in WithCounter(m.ctr)
      BY <3>2
    <3> QED
      BY <3>3 DEF WithCounter
  <2>2. notAcked' = r /\ settled' = [settled EXCEPT ![notAcked[i].dev] = @ \cup {notAcked[i].n}]
    BY <1>2 DEF Acknowledge
  <2> HIDE DEF i
  <2>3. /\ r \in Seq(SentStatuses) /\ Len(r) = Len(notAcked) - 1
        /\ \A k \in 1..(Len(notAcked) - 1) : r[k] = IF k < i THEN notAcked[k] ELSE notAcked[k + 1]
    BY <1>0, <2>1, EraseProperties
  <2> HIDE DEF r
  <2>4. notAcked[i].dev \in Devices /\ notAcked[i].n \in 0..MaxStatus
    <3>1. notAcked[i] \in SentStatuses
      BY <1>0, <2>1, ElementOfSeq
    <3> QED
      BY <3>1 DEF SentStatuses
  <2>5. /\ settled' \in [Devices -> SUBSET (0..MaxStatus)]
        /\ \A d \in Devices : settled[d] \subseteq settled'[d]
        /\ notAcked[i].n \in settled'[notAcked[i].dev]
    BY <1>0, <2>2, <2>4
  <2>6. ASSUME NEW k \in 1..Len(r) PROVE \E j \in 1..Len(notAcked) : r[k] = notAcked[j]
    <3>1. k \in 1..Len(notAcked) /\ k + 1 \in 1..Len(notAcked) /\ k \in 1..(Len(notAcked) - 1)
      BY <1>0, <2>3
    <3> QED
      BY <2>3, <3>1
  <2>7. ASSUME NEW j \in 1..Len(notAcked), j # i PROVE \E k \in 1..Len(r) : r[k] = notAcked[j]
    <3>1. CASE j < i
      <4>1. j \in 1..(Len(notAcked) - 1)
        BY <1>0, <2>1, <3>1
      <4> QED
        BY <2>3, <3>1, <4>1
    <3>2. CASE ~(j < i)
      <4>1. j - 1 \in 1..(Len(notAcked) - 1) /\ ~(j - 1 < i) /\ (j - 1) + 1 = j
        BY <1>0, <2>1, <2>7, <3>2
      <4>2. r[j - 1] = notAcked[j]
        BY <2>3, <4>1
      <4> QED
        BY <2>3, <4>1, <4>2
    <3> QED
      BY <3>1, <3>2
  <2> QED
    BY <2>2, <2>3, <2>5, <2>6, <2>7
<1> QED
  BY <1>1, <1>2

\* A message that arrives goes somewhere behind what is left of an earlier session.
LEMMA ArrivesProperties ==
    ASSUME NEW s \in Seq(ServerMessages), NEW m \in ServerMessages, NEW r \in Arrives(s, m)
    PROVE  /\ r \in Seq(ServerMessages)
           /\ \A k \in 1..Len(r) : r[k] = m \/ \E j \in 1..Len(s) : r[k] = s[j]
           /\ m.mine /\ (\A i, j \in 1..Len(s) : i <= j /\ s[i].mine => s[j].mine)
                => \A i, j \in 1..Len(r) : i <= j /\ r[i].mine => r[j].mine
<1>0. Len(s) \in Nat
  BY LenProperties
<1>1. PICK i \in 1..(Len(s) + 1) : r = InsertAt(s, i, m) /\ \A k \in i..Len(s) : s[k].mine
  BY <1>0 DEF Arrives
<1>2. /\ r \in Seq(ServerMessages) /\ Len(r) = Len(s) + 1
      /\ \A k \in 1..(Len(s) + 1) : r[k] = IF k < i THEN s[k] ELSE IF k = i THEN m ELSE s[k - 1]
  <2>1. /\ InsertAt(s, i, m) \in Seq(ServerMessages)
        /\ Len(InsertAt(s, i, m)) = Len(s) + 1
        /\ \A k \in 1..(Len(s) + 1) :
              InsertAt(s, i, m)[k] = IF k < i THEN s[k] ELSE IF k = i THEN m ELSE s[k - 1]
    <3>1. s \in Seq(ServerMessages) /\ m \in ServerMessages /\ i \in 1..(Len(s) + 1)
      OBVIOUS
    <3>2. InsertAt(s, i, m) \in Seq(ServerMessages)
      BY <3>1, InsertProperties, SMTT(20)
    <3>3. Len(InsertAt(s, i, m)) = Len(s) + 1
      BY <3>1, InsertProperties, SMTT(20)
    <3>4. ASSUME NEW k \in 1..(Len(s) + 1)
          PROVE InsertAt(s, i, m)[k] = IF k < i THEN s[k] ELSE IF k = i THEN m ELSE s[k - 1]
      BY <3>1, InsertProperties, SMTT(20)
    <3> QED
      BY <3>2, <3>3, <3>4
  <2>2. r = InsertAt(s, i, m)
    BY <1>1
  <2> QED
    BY <2>1, <2>2, Zenon
<1>3. ASSUME NEW k \in 1..Len(r) PROVE r[k] = m \/ \E j \in 1..Len(s) : r[k] = s[j]
  <2>1. CASE k < i
    <3>1. k \in 1..Len(s)
      BY <1>0, <1>2, <2>1
    <3> QED
      BY <1>2, <2>1, <3>1
  <2>2. CASE k = i
    BY <1>0, <1>2, <2>2
  <2>3. CASE ~(k < i) /\ k # i
    <3>1. k - 1 \in 1..Len(s)
      BY <1>0, <1>2, <2>3
    <3> QED
      BY <1>2, <2>3, <3>1
  <2> QED
    BY <2>1, <2>2, <2>3
<1>4. ASSUME m.mine, \A x, y \in 1..Len(s) : x <= y /\ s[x].mine => s[y].mine,
             NEW x \in 1..Len(r), NEW y \in 1..Len(r), x <= y, r[x].mine
      PROVE  r[y].mine
  <2>1. CASE y < i
    <3>1. x \in 1..Len(s) /\ y \in 1..Len(s) /\ x < i
      BY <1>0, <1>2, <1>4, <2>1
    <3> QED
      BY <1>2, <1>4, <2>1, <3>1
  <2>2. CASE y = i
    BY <1>0, <1>2, <1>4, <2>2
  <2>3. CASE ~(y < i) /\ y # i
    <3>1. y - 1 \in i..Len(s)
      BY <1>0, <1>2, <2>3
    <3> QED
      BY <1>1, <1>2, <2>3, <3>1
  <2> QED
    BY <2>1, <2>2, <2>3
<1> QED
  BY <1>2, <1>3, <1>4

\* connectedDevices_ counts: deleteConnectedDevice erases only a device it has found.
LEMMA DeviceEntriesType ==
    ASSUME TypeOK, NEW d \in Devices, NEW devState
    PROVE  DeviceEntries(d, devState) \in [Devices -> 0..MaxEntries]
<1> DEFINE n == connectedDevices[d]
<1>1. n \in 0..MaxEntries /\ MaxEntries \in Nat \ {0}
  BY ConnectionAssumption DEF TypeOK
<1>2. /\ (IF n > 0 THEN n - 1 ELSE 0) \in 0..MaxEntries
      /\ (IF n < MaxEntries THEN n + 1 ELSE n) \in 0..MaxEntries
  BY <1>1
<1>3. \E x \in 0..MaxEntries : DeviceEntries(d, devState) = [connectedDevices EXCEPT ![d] = x]
  <2> DEFINE s == IF d \notin registered THEN "CONNECTING" ELSE devState
  <2>1. CASE s = "DISCONNECT"
    BY <1>2, <2>1 DEF DeviceEntries
  <2>2. CASE s # "DISCONNECT" /\ (s = "CONNECTING" \/ n = 0)
    BY <1>2, <2>2 DEF DeviceEntries
  <2>3. CASE s # "DISCONNECT" /\ ~(s = "CONNECTING" \/ n = 0)
    BY <1>1, <2>3 DEF DeviceEntries
  <2> QED
    BY <2>1, <2>2, <2>3
<1> QED
  BY <1>3 DEF TypeOK

-----------------------------------------------------------------------------
(* The steps, by what they do to the statuses *)

\* The variables a status can be in.
statusVars == <<toExternal, statusCount, registered, lastStatus, error, notAcked, settled, inHand>>

\* A status is taken from the queue, and with the sent ones it goes to the error aggregator.
TakesAndFills ==
    /\ toExternal # <<>> /\ toExternal' = Tail(toExternal)
    /\ FillErrorAggregator(<<Head(toExternal)>>)
    /\ UNCHANGED <<statusCount, settled, inHand>>

\* The sent ones go there alone, or with the one in hand.
Fills ==
    /\ \/ FillErrorAggregator(<<>>) /\ inHand' = inHand
       \/ FillErrorAggregator(inHand) /\ inHand' = <<>>
    /\ UNCHANGED <<toExternal, statusCount, settled>>

TakesInHand ==
    /\ inHand = <<>>
    /\ toExternal # <<>> /\ toExternal' = Tail(toExternal) /\ inHand' = <<Head(toExternal)>>
    /\ UNCHANGED <<statusCount, registered, lastStatus, error, notAcked, settled>>

PutsBack ==
    /\ toExternal # <<>> /\ toExternal' = Append(Tail(toExternal), Head(toExternal))
    /\ UNCHANGED <<statusCount, registered, lastStatus, error, notAcked, settled, inHand>>

\* sendStatus enters a status, whether its message is sent or not.
Enters(d, n) ==
    /\ \/ UNCHANGED <<registered, lastStatus, error>>
       \/ \E m : m.dev = d /\ m.n = n /\ AddToAggregator(<<m>>)
    /\ notAcked' = Append(notAcked, [ctr |-> clientCounter + 1, dev |-> d, n |-> n])
    /\ UNCHANGED <<statusCount, settled, inHand>>

TakesAndSends ==
    /\ cpc = "take" /\ xpc' = xpc
    /\ toExternal # <<>> /\ toExternal' = Tail(toExternal)
    /\ Enters(Head(toExternal).dev, Head(toExternal).n)

Announces ==
    /\ xpc = "send" /\ todo' = todo \ {reading[1]}
    /\ \/ Enters(reading[1], reading[2])
       \/ /\ AddToAggregator(notAcked \o <<[dev |-> reading[1], n |-> reading[2]]>>)
          /\ notAcked' = <<>>
          /\ UNCHANGED <<statusCount, settled, inHand>>
    /\ UNCHANGED toExternal

Acknowledges ==
    /\ \E m : Acknowledge(m)
    /\ UNCHANGED <<toExternal, statusCount, registered, lastStatus, error, inHand>>

Clears ==
    /\ xpc' = "ok"
    /\ lastStatus' = [d \in Devices |-> 0]
    /\ error' = [d \in Devices |-> {}]
    /\ settled' = [d \in Devices |-> settled[d] \cup error[d]]
    /\ UNCHANGED <<toExternal, statusCount, registered, notAcked, inHand>>

Queues(d) ==
    /\ \E b \in BOOLEAN : Queued(d, b)
    /\ UNCHANGED <<registered, lastStatus, error, notAcked, settled, inHand>>

\* These are all.
StatusStep ==
    \/ UNCHANGED statusVars
    \/ TakesAndFills \/ Fills \/ TakesInHand \/ PutsBack \/ TakesAndSends \/ Announces
    \/ Acknowledges \/ Clears \/ \E d \in Devices : Queues(d)

\* Every step of the specification does one of them.
LEMMA StatusSteps ==
    ASSUME HandsInv, [Next]_vars
    PROVE  StatusStep
<1> USE DEF statusVars, StatusStep
<1>1. CASE ClientThread
  <2>1. CASE ServeReconnect \/ NoReconnect \/ TakeNothing \/ ListDevices \/ ForceAggregation
             \/ DrainDone \/ JoinConnect
    BY <2>1 DEF ServeReconnect, NoReconnect, TakeNothing, ListDevices, ForceAggregation, DrainDone,
                JoinConnect, Goto, Deinitialize, queueVars, errorVars, sentVars, auxVars
  <2>2. CASE TakeUnconnected \/ Collect
    BY <2>2 DEF TakeUnconnected, Collect, Pop, TakesAndFills, clientVars, auxVars
  <2>3. CASE TakeSend
    BY <2>3 DEF TakeSend, SendStatus, Pop, TakesAndSends, Enters, errorVars, auxVars, connectVars
  <2>4. CASE TakeSendFails
    BY <2>4 DEF TakeSendFails, Pop, TakesAndSends, Enters, errorVars, auxVars, connectVars,
                Deinitialize
  <2>5. CASE JoinListener \/ StartConnect \/ DrainFill
    BY <2>5 DEF JoinListener, StartConnect, DrainFill, Fills, queueVars, auxVars
  <2>6. CASE AwaitForced
    BY <2>6 DEF AwaitForced, TakesAndFills, PutsBack, errorVars, sentVars, auxVars
  <2>7. CASE DrainTake
    BY <2>7 DEF DrainTake, Pop, TakesInHand, errorVars, sentVars, auxVars, HandsInv
  <2> QED
    BY <1>1, <2>1, <2>2, <2>3, <2>4, <2>5, <2>6, <2>7 DEF ClientThread
<1>2. CASE ConnectThread
  <2> USE DEF ConnectKeeps, queueVars, clientVars
  <2>1. CASE InitChannel \/ SendConnect \/ ConnectResponse \/ (\E d \in Devices : ReadDevice(d))
    BY <2>1 DEF InitChannel, SendConnect, ConnectResponse, ReadDevice, errorVars, sentVars, auxVars
  <2>2. CASE NextLoop("status", "ack") \/ NextLoop("ack", "command") \/ ConnectCommand
             \/ StartListener \/ SetConnected
    BY <2>2 DEF NextLoop, ConnectCommand, StartListener, SetConnected, errorVars, sentVars, auxVars
  <2>3. CASE SendDevice
    BY <2>3 DEF SendDevice, SendStatus, Announces, Enters, errorVars, auxVars
  <2>4. CASE SendDeviceFails
    BY <2>4 DEF SendDeviceFails, Announces, auxVars
  <2>5. CASE ConnectAck
    BY <2>5 DEF ConnectAck, Acknowledges, errorVars
  <2>6. CASE ClearErrors
    BY <2>6 DEF ClearErrors, Clears, sentVars
  <2> QED
    BY <1>2, <2>1, <2>2, <2>3, <2>4, <2>5, <2>6 DEF ConnectThread
<1>3. CASE Listener
  <2> USE DEF ListenerKeeps, queueVars, clientVars, errorVars
  <2>1. CASE ListenerStarts \/ ListenerTop \/ ListenerReceives
    BY <2>1 DEF ListenerStarts, ListenerTop, ListenerReceives
  <2>2. CASE ListenerHandles
    BY <2>2 DEF ListenerHandles, Acknowledges
  <2> QED
    BY <1>3, <2>1, <2>2 DEF Listener
<1>4. CASE ResponseTimeout \/ TimeoutHandler \/ ReconnectTimer
  BY <1>4 DEF ResponseTimeout, TimeoutHandler, ReconnectTimer, IoKeeps, queueVars, clientVars,
              errorVars, auxVars
<1>5. CASE Environment
  <2>1. CASE \E d \in Devices : ModuleRegisters(d) \/ ModuleErases(d)
    BY <2>1 DEF ModuleRegisters, ModuleErases, ModuleKeeps, errorVars, sentVars, clientVars, auxVars
  <2>2. CASE \E d \in Devices : ModuleStatus(d) \/ ModuleDisconnect(d)
    BY <2>2 DEF ModuleStatus, ModuleDisconnect, Queues, Queued, ModuleKeeps, errorVars, sentVars,
                clientVars, auxVars
  <2>3. CASE (\E d \in Devices : ServerCommand(d)) \/ ServerBreaks \/ ChannelLost
    BY <2>3 DEF ServerCommand, ServerBreaks, ServerSends, ChannelLost, queueVars, errorVars,
                sentVars, clientVars, auxVars
  <2> QED
    BY <1>5, <2>1, <2>2, <2>3 DEF Environment
<1>6. CASE UNCHANGED vars
  BY <1>6 DEF vars, queueVars, errorVars, sentVars, clientVars, auxVars
<1> QED
  BY <1>1, <1>2, <1>3, <1>4, <1>5, <1>6 DEF Next

\* The types of these variables.
StatusType ==
    /\ toExternal \in Seq(Statuses) /\ inHand \in Seq(Statuses)
    /\ statusCount \in [Devices -> 0..MaxStatus]
    /\ registered \subseteq Devices
    /\ lastStatus \in [Devices -> 0..MaxStatus]
    /\ error \in [Devices -> SUBSET (0..MaxStatus)]
    /\ notAcked \in Seq(SentStatuses)
    /\ settled \in [Devices -> SUBSET (0..MaxStatus)]

LEMMA StatusTypeOfTypeOK ==
    TypeOK => StatusType
BY DEF TypeOK, StatusType, SentStatuses

\* What sendStatus enters joins the statuses that wait for a response.
LEMMA EntersProperties ==
    ASSUME TypeOK, NEW d \in Devices, NEW n \in 0..MaxStatus, Enters(d, n)
    PROVE  /\ registered' \subseteq Devices /\ registered \subseteq registered'
           /\ lastStatus' \in [Devices -> 0..MaxStatus]
           /\ error' \in [Devices -> SUBSET (0..MaxStatus)]
           /\ \A x \in Devices : error[x] \subseteq error'[x]
           /\ notAcked' \in Seq(SentStatuses)
           /\ Len(notAcked) \in Nat /\ Len(notAcked') = Len(notAcked) + 1
           /\ \A i \in 1..Len(notAcked) : notAcked'[i] = notAcked[i]
           /\ notAcked'[Len(notAcked) + 1] = [ctr |-> clientCounter + 1, dev |-> d, n |-> n]
<1> DEFINE e == [ctr |-> clientCounter + 1, dev |-> d, n |-> n]
<1>1. /\ registered' \subseteq Devices /\ registered \subseteq registered'
      /\ lastStatus' \in [Devices -> 0..MaxStatus]
      /\ error' \in [Devices -> SUBSET (0..MaxStatus)]
      /\ \A x \in Devices : error[x] \subseteq error'[x]
  <2>1. CASE UNCHANGED <<registered, lastStatus, error>>
    BY <2>1 DEF TypeOK
  <2>2. CASE \E m : m.dev = d /\ m.n = n /\ AddToAggregator(<<m>>)
    <3>1. PICK m : m.dev = d /\ m.n = n /\ AddToAggregator(<<m>>)
      BY <2>2
    <3>2. Len(<<m>>) = 1 /\ <<m>>[1] = m /\ \A i \in 1..1 : i = 1
      OBVIOUS
    <3>3. Feed(<<m>>)
      BY <3>1, <3>2 DEF Feed
    <3> QED
      BY <3>1, <3>3, AddToAggregatorProperties
  <2> QED
    BY <2>1, <2>2 DEF Enters
<1>2. notAcked \in Seq(SentStatuses) /\ e \in SentStatuses
  BY DEF TypeOK, SentStatuses
<1>3. notAcked' = Append(notAcked, e)
  BY DEF Enters
<1> HIDE DEF e
<1>4. /\ notAcked' \in Seq(SentStatuses)
      /\ Len(notAcked) \in Nat /\ Len(notAcked') = Len(notAcked) + 1
      /\ \A i \in 1..Len(notAcked) : notAcked'[i] = notAcked[i]
      /\ notAcked'[Len(notAcked) + 1] = e
  BY <1>2, <1>3, PushProperties
<1> QED
  BY <1>1, <1>4 DEF e

\* What the connect thread is about to announce.
LEMMA ReadingType ==
    ASSUME TypeOK, HandsInv, xpc = "send"
    PROVE  /\ reading[1] \in Devices /\ reading[2] \in 0..MaxStatus
           /\ <<[dev |-> reading[1], n |-> reading[2]]>> \in Seq([dev : Devices, n : 0..MaxStatus])
           /\ Feed(<<[dev |-> reading[1], n |-> reading[2]]>>)
<1> DEFINE e == [dev |-> reading[1], n |-> reading[2]]
<1>1. reading[1] \in Devices /\ reading[2] \in 0..MaxStatus
  BY DEF TypeOK, HandsInv
<1>2. e \in [dev : Devices, n : 0..MaxStatus] /\ e.dev = reading[1] /\ e.n = reading[2]
  BY <1>1
<1> HIDE DEF e
<1>3. Len(<<e>>) = 1 /\ <<e>>[1] = e /\ \A i \in 1..1 : i = 1
  OBVIOUS
<1>4. Feed(<<e>>)
  BY <1>1, <1>2, <1>3 DEF Feed
<1>5. <<e>> \in Seq([dev : Devices, n : 0..MaxStatus])
  BY <1>2
<1> QED
  BY <1>1, <1>4, <1>5 DEF e

\* A failed announcement: the statuses that wait for a response are kept.
LEMMA AnnounceFailsProperties ==
    ASSUME TypeOK, HandsInv, xpc = "send",
           AddToAggregator(notAcked \o <<[dev |-> reading[1], n |-> reading[2]]>>)
    PROVE  /\ registered' \subseteq Devices /\ registered \subseteq registered'
           /\ lastStatus' \in [Devices -> 0..MaxStatus]
           /\ error' \in [Devices -> SUBSET (0..MaxStatus)]
           /\ \A x \in Devices : error[x] \subseteq error'[x]
           /\ \A i \in 1..Len(notAcked) : notAcked[i].n \in error'[notAcked[i].dev]
<1> DEFINE more == <<[dev |-> reading[1], n |-> reading[2]]>>
           S == [dev : Devices, n : 0..MaxStatus]
           r == notAcked \o more
<1>1. more \in Seq(S) /\ Feed(more)
  BY ReadingType
<1>2. AddToAggregator(r)
  OBVIOUS
<1> HIDE DEF more, S
<1>3. /\ Feed(r)
      /\ \A i \in 1..Len(notAcked) : \E k \in 1..Len(r) : r[k] = notAcked[i]
  BY <1>1, FeedOfTwo
<1> HIDE DEF r
<1>4. /\ registered' \subseteq Devices /\ registered \subseteq registered'
      /\ lastStatus' \in [Devices -> 0..MaxStatus]
      /\ error' \in [Devices -> SUBSET (0..MaxStatus)]
      /\ \A x \in Devices : error[x] \subseteq error'[x]
      /\ \A k \in 1..Len(r) : r[k].n \in error'[r[k].dev]
  BY <1>2, <1>3, AddToAggregatorProperties
<1>5. ASSUME NEW i \in 1..Len(notAcked) PROVE notAcked[i].n \in error'[notAcked[i].dev]
  <2>1. PICK k \in 1..Len(r) : r[k] = notAcked[i]
    BY <1>3
  <2>2. r[k].n \in error'[r[k].dev]
    BY <1>4
  <2> QED
    BY <2>1, <2>2
<1> QED
  BY <1>4, <1>5

\* The empty list and the status in hand can be fed to the error aggregator.
LEMMA FillsProperties ==
    ASSUME TypeOK, Fills
    PROVE  /\ registered' \subseteq Devices /\ registered \subseteq registered'
           /\ lastStatus' \in [Devices -> 0..MaxStatus]
           /\ error' \in [Devices -> SUBSET (0..MaxStatus)]
           /\ \A x \in Devices : error[x] \subseteq error'[x]
           /\ \A i \in 1..Len(notAcked) : notAcked[i].n \in error'[notAcked[i].dev]
           /\ notAcked' = <<>>
           /\ inHand' \in Seq(Statuses)
           /\ inHand' = inHand \/ \A i \in 1..Len(inHand) : inHand[i].n \in error'[inHand[i].dev]
<1>1. CASE FillErrorAggregator(<<>>) /\ inHand' = inHand
  <2>1. <<>> \in Seq(Statuses)
    OBVIOUS
  <2>2. Feed(<<>>)
    BY <2>1, FeedOfStatuses
  <2> QED
    BY <1>1, <2>1, <2>2, FillProperties DEF TypeOK
<1>2. CASE FillErrorAggregator(inHand) /\ inHand' = <<>>
  <2>1. inHand \in Seq(Statuses)
    BY DEF TypeOK
  <2>2. Feed(inHand)
    BY <2>1, FeedOfStatuses
  <2>3. inHand' \in Seq(Statuses)
    BY <1>2
  <2> QED
    BY <1>2, <2>1, <2>2, <2>3, FillProperties
<1> QED
  BY <1>1, <1>2 DEF Fills

\* What taking a status to the error aggregator does.
LEMMA TakesAndFillsProperties ==
    ASSUME TypeOK, TakesAndFills
    PROVE  /\ registered' \subseteq Devices /\ registered \subseteq registered'
           /\ lastStatus' \in [Devices -> 0..MaxStatus]
           /\ error' \in [Devices -> SUBSET (0..MaxStatus)]
           /\ \A x \in Devices : error[x] \subseteq error'[x]
           /\ \A i \in 1..Len(notAcked) : notAcked[i].n \in error'[notAcked[i].dev]
           /\ notAcked' = <<>>
           /\ Head(toExternal).dev \in registered'
           /\ Head(toExternal).n \in error'[Head(toExternal).dev]
           /\ toExternal' \in Seq(Statuses)
<1> DEFINE m == Head(toExternal)
           more == <<m>>
<1>1. toExternal \in Seq(Statuses) /\ toExternal # <<>> /\ toExternal' = Tail(toExternal)
  BY DEF TypeOK, TakesAndFills
<1>2. more \in Seq(Statuses) /\ Feed(more) /\ toExternal' \in Seq(Statuses)
  BY <1>1, FeedOfStatuses
<1>3. FillErrorAggregator(more)
  BY DEF TakesAndFills
<1>4. Len(more) = 1 /\ more[1] = m
  OBVIOUS
<1> HIDE DEF m, more
<1>5. \A i \in 1..Len(more) : more[i].dev \in registered' /\ more[i].n \in error'[more[i].dev]
  BY <1>2, <1>3, FillProperties
<1>6. m.dev \in registered' /\ m.n \in error'[m.dev]
  BY <1>4, <1>5
<1>7. /\ registered' \subseteq Devices /\ registered \subseteq registered'
      /\ lastStatus' \in [Devices -> 0..MaxStatus]
      /\ error' \in [Devices -> SUBSET (0..MaxStatus)]
      /\ \A x \in Devices : error[x] \subseteq error'[x]
      /\ \A i \in 1..Len(notAcked) : notAcked[i].n \in error'[notAcked[i].dev]
      /\ notAcked' = <<>>
  BY <1>2, <1>3, FillProperties
<1> QED
  BY <1>2, <1>6, <1>7 DEF m

\* Every step keeps the types, and no device is ever unregistered.
LEMMA StatusTypeStep ==
    ASSUME TypeOK, HandsInv, StatusStep
    PROVE  StatusType' /\ registered \subseteq registered'
<1>0. StatusType /\ MaxStatus \in Nat
  BY StatusTypeOfTypeOK, ConnectionAssumption
<1>1. CASE UNCHANGED statusVars
  BY <1>0, <1>1 DEF statusVars, StatusType
<1>2. CASE TakesAndFills
  <2>1. UNCHANGED <<statusCount, settled, inHand>>
    BY <1>2 DEF TakesAndFills
  <2>2. notAcked' \in Seq(SentStatuses)
    BY <1>2, TakesAndFillsProperties
  <2> QED
    BY <1>0, <1>2, <2>1, <2>2, TakesAndFillsProperties DEF StatusType
<1>3. CASE Fills
  <2>1. UNCHANGED <<toExternal, statusCount, settled>>
    BY <1>3 DEF Fills
  <2>2. notAcked' \in Seq(SentStatuses)
    BY <1>3, FillsProperties
  <2> QED
    BY <1>0, <1>3, <2>1, <2>2, FillsProperties DEF StatusType
<1>4. CASE TakesInHand
  <2>1. toExternal' \in Seq(Statuses) /\ inHand' \in Seq(Statuses)
    BY <1>0, <1>4, FeedOfStatuses DEF TakesInHand, StatusType
  <2> QED
    BY <1>0, <1>4, <2>1 DEF TakesInHand, StatusType
<1>5. CASE PutsBack
  <2>1. Head(toExternal) \in Statuses /\ Tail(toExternal) \in Seq(Statuses)
    BY <1>0, <1>5, FeedOfStatuses DEF PutsBack, StatusType
  <2>2. toExternal' \in Seq(Statuses)
    BY <1>5, <2>1, PushProperties DEF PutsBack
  <2> QED
    BY <1>0, <1>5, <2>2 DEF PutsBack, StatusType
<1>6. CASE TakesAndSends
  <2> DEFINE m == Head(toExternal)
  <2>1. m.dev \in Devices /\ m.n \in 0..MaxStatus /\ toExternal' \in Seq(Statuses)
    BY <1>0, <1>6, FeedOfStatuses DEF TakesAndSends, StatusType
  <2>2. Enters(m.dev, m.n)
    BY <1>6 DEF TakesAndSends
  <2> HIDE DEF m
  <2>3. UNCHANGED <<statusCount, settled, inHand>>
    BY <2>2 DEF Enters
  <2> QED
    BY <1>0, <2>1, <2>2, <2>3, EntersProperties DEF StatusType
<1>7. CASE Announces
  <2>1. xpc = "send" /\ reading[1] \in Devices /\ reading[2] \in 0..MaxStatus
    BY <1>7, ReadingType DEF Announces
  <2>2. UNCHANGED <<toExternal, statusCount, settled, inHand>>
    BY <1>7 DEF Announces, Enters
  <2>3. CASE Enters(reading[1], reading[2])
    BY <1>0, <2>1, <2>2, <2>3, EntersProperties DEF StatusType
  <2>4. CASE ~Enters(reading[1], reading[2])
    <3>1. /\ AddToAggregator(notAcked \o <<[dev |-> reading[1], n |-> reading[2]]>>)
          /\ notAcked' = <<>>
      BY <1>7, <2>4 DEF Announces
    <3>2. notAcked' \in Seq(SentStatuses)
      BY <3>1
    <3> QED
      BY <1>0, <2>1, <2>2, <3>1, <3>2, AnnounceFailsProperties DEF StatusType
  <2> QED
    BY <2>3, <2>4
<1>8. CASE Acknowledges
  BY <1>0, <1>8, AcknowledgeProperties DEF Acknowledges, StatusType
<1>9. CASE Clears
  BY <1>0, <1>9 DEF Clears, StatusType
<1>10. CASE \E d \in Devices : Queues(d)
  <2>1. PICK d \in Devices : Queues(d)
    BY <1>10
  <2>2. PICK b \in BOOLEAN : Queued(d, b)
    BY <2>1 DEF Queues
  <2> DEFINE m == [dev |-> d, n |-> statusCount'[d], disconnected |-> b]
  <2>3. /\ statusCount[d] \in 0..MaxStatus /\ statusCount[d] < MaxStatus
        /\ statusCount' = [statusCount EXCEPT ![d] = @ + 1]
    BY <1>0, <2>2 DEF Queued, StatusType
  <2>4. statusCount[d] + 1 \in 1..MaxStatus /\ statusCount'[d] = statusCount[d] + 1
    BY <1>0, <2>3 DEF StatusType
  <2>5. statusCount' \in [Devices -> 0..MaxStatus]
    BY <1>0, <2>3, <2>4 DEF StatusType
  <2>6. m \in Statuses
    BY <2>4 DEF Statuses
  <2>7. toExternal' = Append(toExternal, m)
    BY <2>2 DEF Queued
  <2> HIDE DEF m
  <2>8. toExternal' \in Seq(Statuses)
    BY <1>0, <2>6, <2>7, PushProperties DEF StatusType
  <2> QED
    BY <1>0, <2>1, <2>5, <2>8 DEF Queues, StatusType
<1> QED
  BY <1>1, <1>2, <1>3, <1>4, <1>5, <1>6, <1>7, <1>8, <1>9, <1>10 DEF StatusStep

-----------------------------------------------------------------------------
(* No status is forgotten *)

InQueue(d, n) == \E i \in 1..Len(toExternal) : toExternal[i].dev = d /\ toExternal[i].n = n
Waiting(d, n) == \E i \in 1..Len(notAcked) : notAcked[i].dev = d /\ notAcked[i].n = n
InHand(d, n) == inHand # <<>> /\ inHand[1].dev = d /\ inHand[1].n = n

\* Where the n-th status of d may be.
Kept(d, n) ==
    InQueue(d, n) \/ n \in settled[d] \cup error[d] \/ Waiting(d, n) \/ InHand(d, n)

LEMMA NothingForgottenIsKept ==
    NothingForgotten <=> \A d \in Devices, n \in 1..MaxStatus : n > statusCount[d] \/ Kept(d, n)
BY DEF NothingForgotten, Kept, InQueue, Waiting, InHand

\* The front of the queue leaves it, the others stay.
LEMMA PopKeeps ==
    ASSUME StatusType, toExternal # <<>>, toExternal' = Tail(toExternal),
           NEW d, NEW n, InQueue(d, n)
    PROVE  InQueue(d, n)' \/ (Head(toExternal).dev = d /\ Head(toExternal).n = n)
<1> DEFINE q == toExternal
           r == Tail(toExternal)
<1>1. /\ Head(q) = q[1] /\ Len(q) \in Nat \ {0} /\ Len(r) = Len(q) - 1
      /\ \A i \in 1..Len(r) : r[i] = q[i + 1]
  BY PopProperties DEF StatusType
<1>2. PICK i \in 1..Len(q) : q[i].dev = d /\ q[i].n = n
  BY DEF InQueue
<1>3. CASE i = 1
  BY <1>1, <1>2, <1>3
<1>4. CASE i # 1
  <2>1. i - 1 \in 1..Len(r) /\ (i - 1) + 1 = i
    BY <1>1, <1>4
  <2>2. r[i - 1] = q[i]
    BY <1>1, <2>1
  <2> QED
    BY <1>2, <2>1, <2>2 DEF InQueue
<1> QED
  BY <1>3, <1>4

\* What is pushed joins the queue.
LEMMA PushKeeps ==
    ASSUME NEW STATE q, q \in Seq(Statuses), NEW STATE m, m \in Statuses,
           toExternal' = Append(q, m)
    PROVE  /\ \A i \in 1..Len(q) : \A d, n : q[i].dev = d /\ q[i].n = n => InQueue(d, n)'
           /\ \A d, n : m.dev = d /\ m.n = n => InQueue(d, n)'
<1>1. /\ Len(q) \in Nat /\ Len(toExternal') = Len(q) + 1
      /\ \A i \in 1..Len(q) : toExternal'[i] = q[i]
      /\ toExternal'[Len(q) + 1] = m
  BY PushProperties
<1>2. ASSUME NEW i \in 1..Len(q), NEW d, NEW n, q[i].dev = d, q[i].n = n PROVE InQueue(d, n)'
  <2>1. i \in 1..Len(toExternal') /\ toExternal'[i] = q[i]
    BY <1>1
  <2> QED
    BY <1>2, <2>1 DEF InQueue
<1>3. ASSUME NEW d, NEW n, m.dev = d, m.n = n PROVE InQueue(d, n)'
  <2>1. Len(q) + 1 \in 1..Len(toExternal') /\ toExternal'[Len(q) + 1] = m
    BY <1>1
  <2> QED
    BY <1>3, <2>1 DEF InQueue
<1> QED
  BY <1>2, <1>3

\* Wherever the status is, each kind of step leaves it at one of these places.
LEMMA KeptStep ==
    ASSUME TypeOK, HandsInv, StatusStep, NEW d \in Devices, NEW n \in 1..MaxStatus, Kept(d, n)
    PROVE  Kept(d, n)'
<1>0. StatusType
  BY StatusTypeOfTypeOK
<1>1. CASE UNCHANGED statusVars
  BY <1>1 DEF statusVars, Kept, InQueue, Waiting, InHand
<1>2. CASE TakesAndFills
  <2>1. /\ toExternal # <<>> /\ toExternal' = Tail(toExternal) /\ settled' = settled
        /\ inHand' = inHand
    BY <1>2 DEF TakesAndFills
  <2>2. /\ error[d] \subseteq error'[d]
        /\ Head(toExternal).n \in error'[Head(toExternal).dev]
        /\ \A i \in 1..Len(notAcked) : notAcked[i].n \in error'[notAcked[i].dev]
    BY <1>2, TakesAndFillsProperties
  <2>3. CASE InQueue(d, n)
    BY <1>0, <2>1, <2>2, <2>3, PopKeeps DEF Kept
  <2>4. CASE Waiting(d, n)
    BY <2>2, <2>4 DEF Waiting, Kept
  <2>5. CASE n \in settled[d] \cup error[d] \/ InHand(d, n)
    BY <2>1, <2>2, <2>5 DEF Kept, InHand
  <2> QED
    BY <2>3, <2>4, <2>5 DEF Kept
<1>3. CASE Fills
  <2>1. toExternal' = toExternal /\ settled' = settled
    BY <1>3 DEF Fills
  <2>2. /\ error[d] \subseteq error'[d]
        /\ \A i \in 1..Len(notAcked) : notAcked[i].n \in error'[notAcked[i].dev]
        /\ inHand' = inHand \/ \A i \in 1..Len(inHand) : inHand[i].n \in error'[inHand[i].dev]
    BY <1>3, FillsProperties
  <2>3. CASE Waiting(d, n)
    BY <2>2, <2>3 DEF Waiting, Kept
  <2>4. CASE InHand(d, n)
    <3>1. Len(inHand) \in Nat \ {0}
      BY <1>0, <2>4, PopProperties DEF StatusType, InHand
    <3>2. 1 \in 1..Len(inHand)
      BY <3>1
    <3> QED
      BY <2>2, <2>4, <3>2 DEF InHand, Kept
  <2>5. CASE n \in settled[d] \cup error[d] \/ InQueue(d, n)
    BY <2>1, <2>2, <2>5 DEF Kept, InQueue
  <2> QED
    BY <2>3, <2>4, <2>5 DEF Kept
<1>4. CASE TakesInHand
  <2>1. /\ inHand = <<>> /\ toExternal # <<>> /\ toExternal' = Tail(toExternal)
        /\ inHand' = <<Head(toExternal)>>
        /\ UNCHANGED <<error, notAcked, settled>>
    BY <1>4 DEF TakesInHand
  <2>2. CASE InQueue(d, n)
    <3>1. InQueue(d, n)' \/ (Head(toExternal).dev = d /\ Head(toExternal).n = n)
      BY <1>0, <2>1, <2>2, PopKeeps
    <3>2. inHand' # <<>> /\ inHand'[1] = Head(toExternal)
      BY <2>1
    <3> QED
      BY <3>1, <3>2 DEF Kept, InHand
  <2>3. CASE n \in settled[d] \cup error[d] \/ Waiting(d, n)
    BY <2>1, <2>3 DEF Kept, Waiting
  <2> QED
    BY <2>1, <2>2, <2>3 DEF Kept, InHand
<1>5. CASE PutsBack
  <2> DEFINE q == Tail(toExternal)
             m == Head(toExternal)
  <2>1. /\ toExternal # <<>> /\ toExternal' = Append(q, m)
        /\ UNCHANGED <<error, notAcked, settled, inHand>>
    BY <1>5 DEF PutsBack
  <2>2. CASE InQueue(d, n)
    <3>1. /\ m = toExternal[1] /\ Len(toExternal) \in Nat \ {0} /\ Len(q) = Len(toExternal) - 1
          /\ q \in Seq(Statuses) /\ \A i \in 1..Len(q) : q[i] = toExternal[i + 1]
          /\ \A i \in 1..Len(toExternal) : toExternal[i] \in Statuses
      BY <1>0, <2>1, PopProperties DEF StatusType
    <3>2. m \in Statuses
      BY <3>1
    <3> HIDE DEF q, m
    <3>3. PICK i \in 1..Len(toExternal) : toExternal[i].dev = d /\ toExternal[i].n = n
      BY <2>2 DEF InQueue
    <3>4. CASE i = 1
      BY <2>1, <3>1, <3>2, <3>3, <3>4, PushKeeps DEF Kept
    <3>5. CASE i # 1
      <4>1. i - 1 \in 1..Len(q) /\ (i - 1) + 1 = i
        BY <3>1, <3>5
      <4>2. q[i - 1].dev = d /\ q[i - 1].n = n
        BY <3>1, <3>3, <4>1
      <4> QED
        BY <2>1, <3>1, <3>2, <4>1, <4>2, PushKeeps DEF Kept
    <3> QED
      BY <3>4, <3>5
  <2>3. CASE n \in settled[d] \cup error[d] \/ Waiting(d, n) \/ InHand(d, n)
    BY <2>1, <2>3 DEF Kept, Waiting, InHand
  <2> QED
    BY <2>2, <2>3 DEF Kept
<1>6. CASE TakesAndSends \/ Announces
  <2>1. ASSUME NEW x \in Devices, NEW y \in 0..MaxStatus, Enters(x, y), Waiting(d, n) \/ (x = d /\ y = n)
        PROVE  Kept(d, n)'
    <3>1. /\ Len(notAcked) \in Nat /\ Len(notAcked') = Len(notAcked) + 1
          /\ \A i \in 1..Len(notAcked) : notAcked'[i] = notAcked[i]
          /\ notAcked'[Len(notAcked) + 1] = [ctr |-> clientCounter + 1, dev |-> x, n |-> y]
      BY <2>1, EntersProperties
    <3>2. CASE Waiting(d, n)
      <4>1. PICK i \in 1..Len(notAcked) : notAcked[i].dev = d /\ notAcked[i].n = n
        BY <3>2 DEF Waiting
      <4>2. i \in 1..Len(notAcked')
        BY <3>1
      <4> QED
        BY <3>1, <4>1, <4>2 DEF Kept, Waiting
    <3>3. CASE x = d /\ y = n
      <4>1. Len(notAcked) + 1 \in 1..Len(notAcked')
        BY <3>1
      <4>2. notAcked'[Len(notAcked) + 1].dev = d /\ notAcked'[Len(notAcked) + 1].n = n
        BY <3>1, <3>3
      <4> QED
        BY <4>1, <4>2 DEF Kept, Waiting
    <3> QED
      BY <2>1, <3>2, <3>3
  <2>2. CASE TakesAndSends
    <3> DEFINE m == Head(toExternal)
    <3>1. /\ toExternal # <<>> /\ toExternal' = Tail(toExternal) /\ settled' = settled
          /\ inHand' = inHand /\ Enters(m.dev, m.n)
      BY <2>2 DEF TakesAndSends, Enters
    <3>2. m.dev \in Devices /\ m.n \in 0..MaxStatus
      BY <1>0, <3>1, FeedOfStatuses DEF StatusType
    <3>3. error[d] \subseteq error'[d]
      BY <3>1, <3>2, EntersProperties
    <3>4. CASE InQueue(d, n)
      <4>1. InQueue(d, n)' \/ (m.dev = d /\ m.n = n)
        BY <1>0, <3>1, <3>4, PopKeeps
      <4> QED
        BY <2>1, <3>1, <3>2, <4>1 DEF Kept
    <3>5. CASE Waiting(d, n)
      BY <2>1, <3>1, <3>2, <3>5
    <3>6. CASE n \in settled[d] \cup error[d] \/ InHand(d, n)
      BY <3>1, <3>3, <3>6 DEF Kept, InHand
    <3> QED
      BY <3>4, <3>5, <3>6 DEF Kept
  <2>3. CASE Announces
    <3>1. xpc = "send" /\ reading[1] \in Devices /\ reading[2] \in 0..MaxStatus
      BY <2>3, ReadingType DEF Announces
    <3>2. toExternal' = toExternal /\ settled' = settled /\ inHand' = inHand
      BY <2>3 DEF Announces, Enters
    <3>3. CASE Enters(reading[1], reading[2])
      <4>1. error[d] \subseteq error'[d]
        BY <3>1, <3>3, EntersProperties
      <4>2. CASE Waiting(d, n)
        BY <2>1, <3>1, <3>3, <4>2
      <4>3. CASE n \in settled[d] \cup error[d] \/ InHand(d, n) \/ InQueue(d, n)
        BY <3>2, <4>1, <4>3 DEF Kept, InHand, InQueue
      <4> QED
        BY <4>2, <4>3 DEF Kept
    <3>4. CASE ~Enters(reading[1], reading[2])
      <4>1. AddToAggregator(notAcked \o <<[dev |-> reading[1], n |-> reading[2]]>>)
        BY <2>3, <3>4 DEF Announces
      <4>2. /\ error[d] \subseteq error'[d]
            /\ \A i \in 1..Len(notAcked) : notAcked[i].n \in error'[notAcked[i].dev]
        BY <3>1, <4>1, AnnounceFailsProperties
      <4>3. CASE Waiting(d, n)
        BY <4>2, <4>3 DEF Waiting, Kept
      <4>4. CASE n \in settled[d] \cup error[d] \/ InHand(d, n) \/ InQueue(d, n)
        BY <3>2, <4>2, <4>4 DEF Kept, InHand, InQueue
      <4> QED
        BY <4>3, <4>4 DEF Kept
    <3> QED
      BY <3>3, <3>4
  <2> QED
    BY <1>6, <2>2, <2>3
<1>7. CASE Acknowledges
  <2>1. /\ toExternal' = toExternal /\ error' = error /\ inHand' = inHand
        /\ settled[d] \subseteq settled'[d]
        /\ \A j \in 1..Len(notAcked) :
              \/ notAcked[j].n \in settled'[notAcked[j].dev]
              \/ \E k \in 1..Len(notAcked') : notAcked'[k] = notAcked[j]
    BY <1>7, AcknowledgeProperties DEF Acknowledges
  <2>2. CASE Waiting(d, n)
    <3>1. PICK j \in 1..Len(notAcked) : notAcked[j].dev = d /\ notAcked[j].n = n
      BY <2>2 DEF Waiting
    <3>2. CASE notAcked[j].n \in settled'[notAcked[j].dev]
      BY <3>1, <3>2 DEF Kept
    <3>3. CASE \E k \in 1..Len(notAcked') : notAcked'[k] = notAcked[j]
      <4>1. PICK k \in 1..Len(notAcked') : notAcked'[k] = notAcked[j]
        BY <3>3
      <4>2. notAcked'[k].dev = d /\ notAcked'[k].n = n
        BY <3>1, <4>1
      <4> QED
        BY <4>1, <4>2 DEF Kept, Waiting
    <3> QED
      BY <2>1, <3>2, <3>3
  <2>3. CASE n \in settled[d] \cup error[d] \/ InHand(d, n) \/ InQueue(d, n)
    BY <2>1, <2>3 DEF Kept, InHand, InQueue
  <2> QED
    BY <2>2, <2>3 DEF Kept
<1>8. CASE Clears
  BY <1>8 DEF Clears, Kept, InQueue, Waiting, InHand
<1>9. CASE \E x \in Devices : Queues(x)
  <2>1. PICK x \in Devices : Queues(x)
    BY <1>9
  <2>2. PICK b \in BOOLEAN : Queued(x, b)
    BY <2>1 DEF Queues
  <2>3. UNCHANGED <<error, notAcked, settled, inHand>>
    BY <2>1 DEF Queues
  <2>4. \E m : toExternal' = Append(toExternal, m)
    BY <2>2 DEF Queued
  <2>5. CASE InQueue(d, n)
    <3>1. PICK i \in 1..Len(toExternal) : toExternal[i].dev = d /\ toExternal[i].n = n
      BY <2>5 DEF InQueue
    <3>2. i \in 1..Len(toExternal') /\ toExternal'[i] = toExternal[i]
      BY <1>0, <2>4, <3>1 DEF StatusType
    <3> QED
      BY <3>1, <3>2 DEF Kept, InQueue
  <2>6. CASE n \in settled[d] \cup error[d] \/ InHand(d, n) \/ Waiting(d, n)
    BY <2>3, <2>6 DEF Kept, InHand, Waiting
  <2> QED
    BY <2>5, <2>6 DEF Kept
<1> QED
  BY <1>1, <1>2, <1>3, <1>4, <1>5, <1>6, <1>7, <1>8, <1>9 DEF StatusStep

\* A status is in the queue as soon as it is counted.
LEMMA CountedIsQueued ==
    ASSUME TypeOK, HandsInv, StatusStep, NEW d \in Devices, NEW n \in 1..MaxStatus,
           n > statusCount[d], ~(n > statusCount'[d])
    PROVE  Kept(d, n)'
<1>0. StatusType
  BY StatusTypeOfTypeOK
<1>1. PICK x \in Devices : Queues(x)
  BY DEF StatusStep, statusVars, TakesAndFills, Fills, TakesInHand, PutsBack, TakesAndSends,
         Announces, Enters, Acknowledges, Clears
<1>2. PICK b \in BOOLEAN : Queued(x, b)
  BY <1>1 DEF Queues
<1> DEFINE m == [dev |-> x, n |-> statusCount'[x], disconnected |-> b]
<1>3. /\ statusCount[x] \in 0..MaxStatus /\ statusCount[x] < MaxStatus
      /\ statusCount' = [statusCount EXCEPT ![x] = statusCount[x] + 1]
      /\ toExternal' = Append(toExternal, m)
  BY <1>0, <1>2 DEF Queued, StatusType
<1>4. d = x /\ n = statusCount'[x]
  BY <1>0, <1>3, ConnectionAssumption DEF StatusType
<1>5. m \in Statuses /\ m.dev = d /\ m.n = n
  BY <1>4 DEF Statuses
<1> HIDE DEF m
<1>6. InQueue(d, n)'
  BY <1>0, <1>3, <1>5, PushKeeps DEF StatusType
<1> QED
  BY <1>6 DEF Kept

LEMMA NothingForgottenStep ==
    ASSUME TypeOK, HandsInv, StatusStep, NothingForgotten
    PROVE  NothingForgotten'
<1>1. ASSUME NEW d \in Devices, NEW n \in 1..MaxStatus PROVE n > statusCount'[d] \/ Kept(d, n)'
  <2>1. n > statusCount[d] \/ Kept(d, n)
    BY NothingForgottenIsKept
  <2> QED
    BY <2>1, KeptStep, CountedIsQueued
<1>2. (NothingForgotten <=> \A d \in Devices, n \in 1..MaxStatus : n > statusCount[d] \/ Kept(d, n))'
  BY NothingForgottenIsKept, PTL
<1> QED
  BY <1>1, <1>2

-----------------------------------------------------------------------------
(* The types of the other variables *)

PlaceType ==
    /\ state \in {"NOT_INITIALIZED", "NOT_CONNECTED", "CONNECTING", "CONNECTED"}
    /\ cpc \in ClientPCs /\ caller \in {"status", "item"}
    /\ xpc \in ConnectPCs /\ lpc \in ListenerPCs

\* Every thread stays at a place of its program.
LEMMA PlaceStep ==
    ASSUME PlaceType, [Next]_vars
    PROVE  PlaceType'
<1> USE DEF PlaceType, ClientPCs, ConnectPCs, ListenerPCs
<1>1. CASE ClientThread
  <2> USE DEF connectVars, listenVars
  <2>1. CASE ServeReconnect \/ NoReconnect \/ TakeNothing \/ TakeUnconnected
    BY <2>1 DEF ServeReconnect, NoReconnect, TakeNothing, TakeUnconnected, Goto, Deinitialize
  <2>2. CASE TakeSend \/ TakeSendFails \/ Collect
    BY <2>2 DEF TakeSend, TakeSendFails, Collect, Deinitialize, clientVars
  <2>3. CASE JoinListener
    BY <2>3 DEF JoinListener
  <2>4. CASE ListDevices \/ ForceAggregation \/ AwaitForced \/ StartConnect
    BY <2>4 DEF ListDevices, ForceAggregation, AwaitForced, StartConnect
  <2>5. CASE DrainTake \/ DrainFill \/ DrainDone \/ JoinConnect
    BY <2>5 DEF DrainTake, DrainFill, DrainDone, JoinConnect, Goto
  <2> QED
    BY <1>1, <2>1, <2>2, <2>3, <2>4, <2>5 DEF ClientThread
<1>2. CASE ConnectThread
  BY <1>2 DEF ConnectThread, InitChannel, SendConnect, ConnectResponse, ReadDevice, SendDevice,
              SendDeviceFails, NextLoop, ConnectAck, ConnectCommand, StartListener, SetConnected,
              ClearErrors, ConnectFails, ConnectKeeps, clientVars, listenVars
<1>3. CASE Listener
  BY <1>3 DEF Listener, ListenerStarts, ListenerTop, ListenerReceives, ListenerHandles, Leave,
              ListenerKeeps, clientVars, connectVars
<1>4. CASE ResponseTimeout \/ TimeoutHandler \/ ReconnectTimer
  BY <1>4 DEF ResponseTimeout, TimeoutHandler, ReconnectTimer, IoKeeps, clientVars, connectVars,
              listenVars
<1>5. CASE Environment
  BY <1>5 DEF Environment, ModuleRegisters, ModuleStatus, ModuleDisconnect, ModuleErases, Queued,
              ModuleKeeps, ServerCommand, ServerBreaks, ServerSends, ChannelLost, clientVars,
              connectVars, listenVars
<1>6. CASE UNCHANGED vars
  BY <1>6 DEF vars, clientVars, connectVars, listenVars
<1> QED
  BY <1>1, <1>2, <1>3, <1>4, <1>5, <1>6 DEF Next

FlagType ==
    /\ responseHandled \in BOOLEAN /\ expired \in BOOLEAN /\ stopReceiving \in BOOLEAN
    /\ up \in BOOLEAN /\ serverSession \in BOOLEAN

LEMMA FlagStep ==
    ASSUME FlagType, [Next]_vars
    PROVE  FlagType'
<1> USE DEF FlagType
<1>1. CASE ClientThread
  <2> USE DEF timerVars, listenVars, channelVars, sentVars
  <2>1. CASE ServeReconnect \/ NoReconnect \/ TakeNothing \/ TakeUnconnected
    BY <2>1 DEF ServeReconnect, NoReconnect, TakeNothing, TakeUnconnected, Goto, Deinitialize,
                ChannelCloses, FillErrorAggregator
  <2>2. CASE TakeSend \/ TakeSendFails \/ Collect
    BY <2>2 DEF TakeSend, TakeSendFails, Collect, Deinitialize, SendStatus, ChannelCloses,
                FillErrorAggregator
  <2>3. CASE JoinListener \/ StartConnect \/ DrainTake \/ DrainFill \/ DrainDone \/ JoinConnect
    BY <2>3 DEF JoinListener, StartConnect, DrainTake, DrainFill, DrainDone, JoinConnect, Goto,
                FillErrorAggregator
  <2>4. CASE ListDevices \/ ForceAggregation \/ AwaitForced
    BY <2>4 DEF ListDevices, ForceAggregation, AwaitForced, FillErrorAggregator
  <2> QED
    BY <1>1, <2>1, <2>2, <2>3, <2>4 DEF ClientThread
<1>2. CASE ConnectThread
  <2> USE DEF ConnectKeeps, timerVars, listenVars, channelVars, sentVars
  <2>1. CASE InitChannel \/ SendConnect \/ ConnectResponse \/ (\E d \in Devices : ReadDevice(d))
    BY <2>1 DEF InitChannel, SendConnect, ConnectResponse, ReadDevice, Receive, ReceiveNothing
  <2>2. CASE SendDevice \/ SendDeviceFails \/ NextLoop("status", "ack") \/ NextLoop("ack", "command")
    BY <2>2 DEF SendDevice, SendStatus, SendDeviceFails, NextLoop, ChannelCloses
  <2>3. CASE ConnectAck \/ ConnectCommand \/ StartListener \/ SetConnected \/ ClearErrors
    BY <2>3 DEF ConnectAck, ConnectCommand, StartListener, SetConnected, ClearErrors, Receive,
                ReceiveNothing
  <2> QED
    BY <1>2, <2>1, <2>2, <2>3 DEF ConnectThread
<1>3. CASE Listener
  BY <1>3 DEF Listener, ListenerStarts, ListenerTop, ListenerReceives, ListenerHandles,
              ListenerKeeps, Receive, ReceiveNothing, channelVars
<1>4. CASE ResponseTimeout \/ TimeoutHandler \/ ReconnectTimer
  BY <1>4 DEF ResponseTimeout, TimeoutHandler, ReconnectTimer, IoKeeps, listenVars, channelVars
<1>5. CASE Environment
  BY <1>5, ZenonT(30)
     DEF Environment, ModuleRegisters, ModuleStatus, ModuleDisconnect, ModuleErases, Queued,
              ModuleKeeps, ServerCommand, ServerBreaks, ServerSends, ChannelLost, ChannelCloses,
              sentVars, timerVars, listenVars, channelVars
<1>6. CASE UNCHANGED vars
  BY <1>6 DEF vars, sentVars, timerVars, listenVars, channelVars
<1> QED
  BY <1>1, <1>2, <1>3, <1>4, <1>5, <1>6 DEF Next

DeviceType ==
    /\ held \subseteq Devices /\ leaving \subseteq held
    /\ connectedDevices \in [Devices -> 0..MaxEntries]
    /\ forcedDevices \subseteq Devices
    /\ listed \subseteq Devices /\ todo \subseteq listed
    /\ reading = <<>> \/ reading \in Devices \X (0..MaxStatus)
    /\ reported \in [Devices -> SUBSET (0..MaxStatus)]

LEMMA DeviceStep ==
    ASSUME TypeOK, HandsInv, ThreadInv, [Next]_vars
    PROVE  DeviceType'
<1> USE DEF DeviceType
<1>0. DeviceType
  BY DEF TypeOK
<1>1. CASE ClientThread
  <2> USE DEF queueVars, sentVars, clientVars, connectVars, auxVars
  <2>1. CASE ServeReconnect \/ NoReconnect \/ TakeNothing \/ TakeUnconnected \/ Collect
    BY <1>0, <2>1 DEF ServeReconnect, NoReconnect, TakeNothing, TakeUnconnected, Collect, Pop, Goto,
                Deinitialize, FillErrorAggregator
  <2>2. CASE TakeSend \/ TakeSendFails
    <3> DEFINE m == Head(toExternal)
    <3>1. toExternal \in Seq(Statuses) /\ toExternal # <<>>
      BY <2>2 DEF TypeOK, TakeSend, TakeSendFails, Pop
    <3>2. m.dev \in Devices
      BY <3>1, FeedOfStatuses
    <3>3. connectedDevices' = DeviceEntries(m.dev, DeviceState(m))
      BY <2>2 DEF TakeSend, TakeSendFails, SendStatus
    <3> HIDE DEF m
    <3>4. connectedDevices' \in [Devices -> 0..MaxEntries]
      BY <3>2, <3>3, DeviceEntriesType
    <3> QED
      BY <1>0, <2>2, <3>4 DEF TakeSend, TakeSendFails, Pop, Deinitialize
  <2>3. CASE JoinListener \/ StartConnect \/ DrainTake \/ DrainFill \/ DrainDone
    BY <1>0, <2>3 DEF JoinListener, StartConnect, DrainTake, DrainFill, DrainDone, Pop, Goto,
                FillErrorAggregator
  <2>4. CASE ListDevices \/ ForceAggregation \/ AwaitForced
    <3>2. CASE ListDevices
      <4>1. todo = {}
        BY <3>2 DEF ListDevices, HandsInv, ThreadInv
      <4> QED
        BY <1>0, <3>2, <4>1 DEF ListDevices
    <3>3. CASE ForceAggregation \/ AwaitForced
      BY <1>0, <3>3 DEF ForceAggregation, AwaitForced, FillErrorAggregator
    <3> QED
      BY <2>4, <3>2, <3>3
  <2>5. CASE JoinConnect
    BY <1>0, <2>5 DEF JoinConnect
  <2> QED
    BY <1>1, <2>1, <2>2, <2>3, <2>4, <2>5 DEF ClientThread
<1>2. CASE ConnectThread
  <2> USE DEF ConnectKeeps, queueVars, clientVars, sentVars, auxVars
  <2>1. CASE InitChannel \/ SendConnect \/ ConnectResponse \/ StartListener \/ SetConnected
             \/ ClearErrors \/ NextLoop("status", "ack") \/ NextLoop("ack", "command")
    BY <1>0, <2>1 DEF InitChannel, SendConnect, ConnectResponse, StartListener, SetConnected,
                      ClearErrors, NextLoop
  <2>2. CASE \E d \in Devices : ReadDevice(d)
    <3>1. PICK d \in Devices : ReadDevice(d)
      BY <2>2
    <3>2. lastStatus[d] \in 0..MaxStatus /\ error[d] \subseteq 0..MaxStatus
      BY DEF TypeOK
    <3>3. reading' = <<d, lastStatus[d]>> \/ reading' = reading
      BY <3>1 DEF ReadDevice
    <3>4. reading' = <<>> \/ reading' \in Devices \X (0..MaxStatus)
      BY <1>0, <3>2, <3>3
    <3>5. reported' \in [Devices -> SUBSET (0..MaxStatus)]
      BY <1>0, <3>1, <3>2 DEF ReadDevice
    <3> QED
      BY <1>0, <3>1, <3>4, <3>5 DEF ReadDevice
  <2>3. CASE SendDevice \/ SendDeviceFails
    <3>1. reading[1] \in Devices
      BY <2>3, ReadingType DEF SendDevice, SendDeviceFails
    <3>2. connectedDevices' = DeviceEntries(reading[1], "CONNECTING")
      BY <2>3 DEF SendDevice, SendStatus, SendDeviceFails
    <3>3. connectedDevices' \in [Devices -> 0..MaxEntries]
      BY <3>1, <3>2, DeviceEntriesType
    <3>4. reading' = <<>> /\ todo' \subseteq todo /\ listed' = listed
      BY <2>3 DEF SendDevice, SendDeviceFails
    <3>5. held' = held /\ leaving' = leaving /\ forcedDevices' = forcedDevices /\ reported' = reported
      BY <2>3 DEF SendDevice, SendDeviceFails
    <3> QED
      BY <1>0, <3>3, <3>4, <3>5
  <2>4. CASE ConnectAck \/ ConnectCommand
    BY <1>0, <2>4 DEF ConnectAck, ConnectCommand
  <2> QED
    BY <1>2, <2>1, <2>2, <2>3, <2>4 DEF ConnectThread
<1>3. CASE Listener
  BY <1>0, <1>3 DEF Listener, ListenerStarts, ListenerTop, ListenerReceives, ListenerHandles,
                    ListenerKeeps, queueVars, clientVars, connectVars
<1>4. CASE ResponseTimeout \/ TimeoutHandler \/ ReconnectTimer
  BY <1>0, <1>4 DEF ResponseTimeout, TimeoutHandler, ReconnectTimer, IoKeeps, queueVars, clientVars,
                    connectVars, auxVars
<1>5. CASE Environment
  BY <1>0, <1>5 DEF Environment, ModuleRegisters, ModuleStatus, ModuleDisconnect, ModuleErases,
                    Queued, ModuleKeeps, ServerCommand, ServerBreaks, ServerSends, ChannelLost,
                    queueVars, sentVars, clientVars, connectVars, auxVars
<1>6. CASE UNCHANGED vars
  BY <1>0, <1>6 DEF vars, queueVars, sentVars, clientVars, connectVars, auxVars
<1> QED
  BY <1>1, <1>2, <1>3, <1>4, <1>5, <1>6 DEF Next

RequestType == reconnects \in Seq(BOOLEAN) /\ retries \in Nat /\ clientCounter \in Nat

LEMMA RequestQueue ==
    ASSUME reconnects \in Seq(BOOLEAN)
    PROVE  /\ Append(reconnects, TRUE) \in Seq(BOOLEAN) /\ Append(reconnects, TRUE) # <<>>
           /\ Append(reconnects, FALSE) \in Seq(BOOLEAN) /\ Append(reconnects, FALSE) # <<>>
           /\ reconnects # <<>> => Tail(reconnects) \in Seq(BOOLEAN)
<1>1. ASSUME NEW S, NEW q \in Seq(S), NEW a \in S
      PROVE  /\ Append(q, a) \in Seq(S) /\ Append(q, a) # <<>>
             /\ q # <<>> => Tail(q) \in Seq(S)
  OBVIOUS
<1>2. TRUE \in BOOLEAN /\ FALSE \in BOOLEAN
  OBVIOUS
<1> QED
  BY <1>1, <1>2, Zenon

LEMMA RequestStep ==
    ASSUME TypeOK, HandsInv, [Next]_vars
    PROVE  RequestType'
<1> USE DEF RequestType
<1>0. RequestType /\ caller \in {"status", "item"} /\ (caller = "item" => reconnects # <<>>)
  BY DEF TypeOK, HandsInv
<1>1. CASE ClientThread
  <2> USE DEF timerVars, sessionVars
  <2>1. CASE ServeReconnect \/ NoReconnect \/ TakeNothing \/ TakeUnconnected \/ Collect
    BY <1>0, <2>1 DEF ServeReconnect, NoReconnect, TakeNothing, TakeUnconnected, Collect, Goto,
                      Deinitialize
  <2>2. CASE TakeSend \/ TakeSendFails
    BY <1>0, <2>2 DEF TakeSend, TakeSendFails, SendStatus, Deinitialize
  <2>3. CASE StartConnect \/ DrainTake \/ DrainFill \/ DrainDone \/ ListDevices \/ ForceAggregation
             \/ AwaitForced
    BY <1>0, <2>3 DEF StartConnect, DrainTake, DrainFill, DrainDone, ListDevices, ForceAggregation,
                      AwaitForced, Goto
  <2>4. CASE JoinListener
    <3>1. cpc' = "take" => caller = "item"
      BY <1>0, <2>4 DEF JoinListener
    <3>2. reconnects' = reconnects \/ (reconnects # <<>> /\ reconnects' = Tail(reconnects))
      BY <1>0, <2>4, <3>1 DEF JoinListener
    <3> QED
      BY <1>0, <2>4, <3>2, RequestQueue DEF JoinListener
  <2>5. CASE JoinConnect
    <3>1. reconnects' = reconnects \/ (reconnects # <<>> /\ reconnects' = Tail(reconnects))
      BY <1>0, <2>5 DEF JoinConnect
    <3>2. retries' \in Nat /\ clientCounter' = clientCounter
      BY <1>0, <2>5 DEF JoinConnect, RetriesArmed
    <3> QED
      BY <1>0, <3>1, <3>2, RequestQueue
  <2> QED
    BY <1>1, <2>1, <2>2, <2>3, <2>4, <2>5 DEF ClientThread
<1>2. CASE ConnectThread
  BY <1>0, <1>2 DEF ConnectThread, InitChannel, SendConnect, ConnectResponse, ReadDevice, SendDevice,
              SendStatus, SendDeviceFails, NextLoop, ConnectAck, ConnectCommand, StartListener,
              SetConnected, ClearErrors, ConnectKeeps, timerVars, sessionVars
<1>3. CASE Listener
  <2>1. reconnects' \in {reconnects, Append(reconnects, TRUE), Append(reconnects, FALSE)}
    BY <1>3 DEF Listener, ListenerStarts, ListenerTop, ListenerReceives, ListenerHandles, Leave
  <2>2. retries' = retries /\ clientCounter' = clientCounter
    BY <1>3 DEF Listener, ListenerStarts, ListenerTop, ListenerReceives, ListenerHandles, ListenerKeeps
  <2> QED
    BY <1>0, <2>1, <2>2, RequestQueue
<1>4. CASE ResponseTimeout \/ TimeoutHandler \/ ReconnectTimer
  <2>1. reconnects' \in {reconnects, Append(reconnects, TRUE)}
    BY <1>4 DEF ResponseTimeout, TimeoutHandler, ReconnectTimer
  <2>2. retries' \in Nat /\ clientCounter' = clientCounter
    <3>1. retries' = retries \/ (retries > 0 /\ retries' = retries - 1)
      BY <1>4 DEF ResponseTimeout, TimeoutHandler, ReconnectTimer
    <3>2. clientCounter' = clientCounter
      BY <1>4 DEF ResponseTimeout, TimeoutHandler, ReconnectTimer, IoKeeps, sessionVars
    <3> QED
      BY <1>0, <3>1, <3>2
  <2> QED
    BY <1>0, <2>1, <2>2, RequestQueue
<1>5. CASE Environment
  BY <1>0, <1>5 DEF Environment, ModuleRegisters, ModuleStatus, ModuleDisconnect, ModuleErases,
                    Queued, ModuleKeeps, ServerCommand, ServerBreaks, ServerSends, ChannelLost,
                    timerVars, sessionVars
<1>6. CASE UNCHANGED vars
  BY <1>0, <1>6 DEF vars, timerVars, sessionVars
<1> QED
  BY <1>1, <1>2, <1>3, <1>4, <1>5, <1>6 DEF Next

MessageType ==
    /\ fromServer \in Seq(ServerMessages) /\ received \in Seq(ServerMessages)
    /\ \A i \in 1..Len(fromServer) : Numbered(fromServer[i])
    /\ \A i \in 1..Len(received) : Numbered(received[i])
    /\ serverCounter \in 0..MaxCommand /\ serverSent \in 0..MaxCommand

\* A channel with other sessions' messages only.
Disowned == [i \in 1..Len(fromServer) |-> [fromServer[i] EXCEPT !.mine = FALSE]]

\* m joins the channel s, or not.
Joins(s, m) == fromServer' = s \/ fromServer' \in Arrives(s, m)

\* The steps, by what they do to the messages in the channel and in the listener's hand.
MessageStep ==
    \/ fromServer' \in {<<>>, fromServer} /\ received' \in {<<>>, received}
    \/ /\ fromServer # <<>> /\ fromServer' = Tail(fromServer)
       /\ received' = received \/ (lpc = "receive" /\ received' = <<Head(fromServer)>>)
    \/ /\ \E m \in ServerMessages :
             /\ m.mine /\ Numbered(m) /\ Joins(fromServer, m)
             /\ m.kind = "ack" => TakeSend \/ SendDevice
       /\ received' = received
    \/ /\ \E m \in ServerMessages : m.mine /\ Numbered(m) /\ Joins(Disowned, m) /\ m.kind # "ack"
       /\ xpc = "connect" /\ xpc' = "response" /\ UNCHANGED <<received, lpc>>

LEMMA DisownedProperties ==
    ASSUME fromServer \in Seq(ServerMessages)
    PROVE  /\ Disowned \in Seq(ServerMessages) /\ Len(Disowned) = Len(fromServer)
           /\ \A i \in 1..Len(Disowned) : ~Disowned[i].mine
           /\ \A i \in 1..Len(Disowned) : Disowned[i].kind = fromServer[i].kind
                                          /\ Disowned[i].ctr = fromServer[i].ctr
<1> DEFINE f == fromServer
           e(i) == [f[i] EXCEPT !.mine = FALSE]
<1>1. Len(f) \in Nat /\ \A i \in 1..Len(f) : f[i] \in ServerMessages
  BY LenProperties, ElementOfSeq
<1>2. ASSUME NEW i \in 1..Len(f)
      PROVE  e(i) \in ServerMessages /\ e(i).mine = FALSE /\ e(i).kind = f[i].kind /\ e(i).ctr = f[i].ctr
  <2>1. ASSUME NEW x \in ServerMessages
        PROVE  /\ [x EXCEPT !.mine = FALSE] \in ServerMessages
               /\ [x EXCEPT !.mine = FALSE].mine = FALSE
               /\ [x EXCEPT !.mine = FALSE].kind = x.kind
               /\ [x EXCEPT !.mine = FALSE].ctr = x.ctr
    BY DEF ServerMessages
  <2> QED
    BY <1>1, <2>1
<1> HIDE DEF e
<1>3. Disowned = [i \in 1..Len(f) |-> e(i)]
  BY DEF Disowned, e
<1>4. Disowned \in Seq(ServerMessages) /\ Len(Disowned) = Len(f)
  <2>1. ASSUME NEW S, NEW n \in Nat, NEW g \in [1..n -> S] PROVE g \in Seq(S) /\ Len(g) = n
    OBVIOUS
  <2>2. Disowned \in [1..Len(f) -> ServerMessages]
    BY <1>2, <1>3
  <2> QED
    BY <1>1, <2>1, <2>2
<1>5. \A i \in 1..Len(f) : Disowned[i] = e(i)
  BY <1>3
<1>6. ASSUME NEW i \in 1..Len(Disowned)
      PROVE  ~Disowned[i].mine /\ Disowned[i].kind = f[i].kind /\ Disowned[i].ctr = f[i].ctr
  <2>1. i \in 1..Len(f) /\ Disowned[i] = e(i)
    BY <1>4, <1>5
  <2>2. e(i).mine = FALSE /\ e(i).kind = f[i].kind /\ e(i).ctr = f[i].ctr
    BY <1>2, <2>1
  <2> QED
    BY <2>1, <2>2
<1> QED
  BY <1>4, <1>6

\* connectMessageHandle begins a session: what is in the channel belongs to an earlier one.
LEMMA SendConnectProperties ==
    ASSUME SendConnect
    PROVE  \/ xpc' # "response" /\ fromServer' = fromServer
           \/ /\ xpc' = "response"
              /\ \E m \in ServerMessages : m.mine /\ Numbered(m) /\ Joins(Disowned, m) /\ m.kind # "ack"
<1>0. PICK anyone \in Devices : anyone = CHOOSE d \in Devices : TRUE
  BY ConnectionAssumption
<1>1. CASE xpc' # "response"
  BY <1>1 DEF SendConnect, channelVars
<1>2. CASE xpc' = "response"
  <2>1. PICK k \in {"connected", "refused"} :
           Replies(Disowned, [kind |-> k, mine |-> TRUE, ctr |-> 0, dev |-> anyone, n |-> 0])
    BY <1>0, <1>2 DEF SendConnect, Disowned, ConnectFails
  <2> DEFINE m == [kind |-> k, mine |-> TRUE, ctr |-> 0, dev |-> anyone, n |-> 0]
  <2>2. m \in ServerMessages /\ m.mine /\ Numbered(m) /\ m.kind # "ack"
    BY DEF ServerMessages, Numbered
  <2>3. Joins(Disowned, m)
    BY <2>1 DEF Replies, Joins
  <2> HIDE DEF m
  <2> QED
    BY <1>2, <2>2, <2>3
<1> QED
  BY <1>1, <1>2

LEMMA MessageSteps ==
    ASSUME TypeOK, HandsInv, [Next]_vars
    PROVE  MessageStep
<1> USE DEF MessageStep
<1>0. PICK anyone \in Devices : anyone = CHOOSE d \in Devices : TRUE
  BY ConnectionAssumption
<1>1. ASSUME NEW d \in Devices, NEW n \in 0..MaxStatus,
             Replies(fromServer, [kind |-> "ack", mine |-> TRUE, ctr |-> clientCounter + 1, dev |-> d, n |-> n]),
             received' = received, TakeSend \/ SendDevice
      PROVE  MessageStep
  <2> DEFINE m == [kind |-> "ack", mine |-> TRUE, ctr |-> clientCounter + 1, dev |-> d, n |-> n]
  <2>1. m \in ServerMessages /\ m.mine /\ Numbered(m)
    BY ConnectionAssumption DEF TypeOK, ServerMessages, Numbered
  <2>2. Joins(fromServer, m)
    BY <1>1 DEF Replies, Joins
  <2> HIDE DEF m
  <2> QED
    BY <1>1, <2>1, <2>2
<1>2. CASE ClientThread
  <2> USE DEF listenVars, channelVars
  <2>1. CASE ServeReconnect \/ NoReconnect \/ TakeNothing \/ TakeUnconnected \/ TakeSendFails
    BY <2>1 DEF ServeReconnect, NoReconnect, TakeNothing, TakeUnconnected, TakeSendFails, Goto,
                Deinitialize, ChannelCloses
  <2>2. CASE TakeSend
    <3>1. toExternal \in Seq(Statuses) /\ toExternal # <<>>
      BY <2>2 DEF TypeOK, TakeSend, Pop
    <3>2. Head(toExternal).dev \in Devices /\ Head(toExternal).n \in 0..MaxStatus
      BY <3>1, FeedOfStatuses
    <3> QED
      BY <1>1, <2>2, <3>2 DEF TakeSend, SendStatus
  <2>3. CASE JoinListener \/ Collect \/ ListDevices \/ ForceAggregation \/ AwaitForced \/ StartConnect
             \/ DrainTake \/ DrainFill \/ DrainDone \/ JoinConnect
    BY <2>3 DEF JoinListener, Collect, ListDevices, ForceAggregation, AwaitForced, StartConnect,
                DrainTake, DrainFill, DrainDone, JoinConnect, Goto
  <2> QED
    BY <1>2, <2>1, <2>2, <2>3 DEF ClientThread
<1>3. CASE ConnectThread
  <2> USE DEF listenVars, channelVars
  <2>1. CASE InitChannel \/ (\E d \in Devices : ReadDevice(d)) \/ SendDeviceFails
             \/ NextLoop("status", "ack") \/ NextLoop("ack", "command") \/ StartListener
             \/ SetConnected \/ ClearErrors
    BY <2>1 DEF InitChannel, ReadDevice, SendDeviceFails, NextLoop, StartListener, SetConnected,
                ClearErrors, ChannelCloses
  <2>2. CASE SendConnect
    BY <2>2, SendConnectProperties DEF SendConnect
  <2>3. CASE SendDevice
    <3>1. reading[1] \in Devices /\ reading[2] \in 0..MaxStatus
      BY <2>3, ReadingType DEF SendDevice
    <3> QED
      BY <1>1, <2>3, <3>1 DEF SendDevice, SendStatus
  <2>4. CASE ConnectResponse \/ ConnectAck \/ ConnectCommand
    BY <2>4 DEF ConnectResponse, ConnectAck, ConnectCommand, Receive, ReceiveNothing
  <2> QED
    BY <1>3, <2>1, <2>2, <2>3, <2>4 DEF ConnectThread
<1>4. CASE Listener
  BY <1>4 DEF Listener, ListenerStarts, ListenerTop, ListenerReceives, ListenerHandles, Receive,
              ReceiveNothing, channelVars
<1>5. CASE ResponseTimeout \/ TimeoutHandler \/ ReconnectTimer
  BY <1>5 DEF ResponseTimeout, TimeoutHandler, ReconnectTimer, IoKeeps, listenVars, channelVars
<1>6. CASE Environment
  <2>1. CASE \/ \E d \in Devices : ModuleRegisters(d) \/ ModuleStatus(d) \/ ModuleDisconnect(d)
                                   \/ ModuleErases(d)
             \/ ChannelLost
    BY <2>1 DEF ModuleRegisters, ModuleStatus, ModuleDisconnect, ModuleErases, Queued, ModuleKeeps,
                ChannelLost, ChannelCloses, listenVars, channelVars
  <2>2. ASSUME NEW k \in {"refused", "command", "goodbye"}, NEW d \in Devices,
               k = "command" => serverSent' <= MaxCommand, serverSent' \in Nat, ServerSends(k, d)
        PROVE  MessageStep
    <3> DEFINE m == [kind |-> k, mine |-> TRUE, ctr |-> serverSent', dev |-> d, n |-> 0]
    <3>1. m \in ServerMessages /\ m.mine /\ Numbered(m) /\ m.kind # "ack"
      BY <2>2 DEF ServerMessages, Numbered
    <3>2. Joins(fromServer, m) /\ received' = received
      BY <2>2 DEF ServerSends, Joins, listenVars
    <3> HIDE DEF m
    <3> QED
      BY <3>1, <3>2
  <2>3. CASE \E d \in Devices : ServerCommand(d)
    <3>1. PICK d \in Devices : ServerCommand(d)
      BY <2>3
    <3>2. serverSent' <= MaxCommand /\ serverSent' \in Nat /\ ServerSends("command", d)
      BY <3>1, ConnectionAssumption DEF ServerCommand, TypeOK
    <3> QED
      BY <2>2, <3>2
  <2>4. CASE ServerBreaks
    <3>1. PICK k \in {"refused", "goodbye"} : ServerSends(k, anyone)
      BY <1>0, <2>4 DEF ServerBreaks
    <3>2. serverSent' \in Nat
      BY <2>4 DEF ServerBreaks, TypeOK
    <3> QED
      BY <2>2, <3>1, <3>2
  <2> QED
    BY <1>6, <2>1, <2>3, <2>4 DEF Environment
<1>7. CASE UNCHANGED vars
  BY <1>7 DEF vars, listenVars, channelVars
<1> QED
  BY <1>2, <1>3, <1>4, <1>5, <1>6, <1>7 DEF Next

\* What arrives behind the messages s.
LEMMA JoinsProperties ==
    ASSUME NEW STATE s, s \in Seq(ServerMessages), NEW m \in ServerMessages, Joins(s, m)
    PROVE  /\ fromServer' \in Seq(ServerMessages)
           /\ \A k \in 1..Len(fromServer') :
                 fromServer'[k] = m \/ \E j \in 1..Len(s) : fromServer'[k] = s[j]
           /\ m.mine /\ (\A i, j \in 1..Len(s) : i <= j /\ s[i].mine => s[j].mine)
                => \A i, j \in 1..Len(fromServer') : i <= j /\ fromServer'[i].mine => fromServer'[j].mine
<1>1. CASE fromServer' = s
  BY <1>1
<1>2. CASE fromServer' \in Arrives(s, m)
  BY <1>2, ArrivesProperties
<1> QED
  BY <1>1, <1>2 DEF Joins

LEMMA QueuedMessages ==
    ASSUME TypeInv
    PROVE  /\ fromServer # <<>> =>
                 /\ Head(fromServer) \in ServerMessages /\ Numbered(Head(fromServer))
                 /\ Head(fromServer) = fromServer[1] /\ 1 \in 1..Len(fromServer)
                 /\ Tail(fromServer) \in Seq(ServerMessages)
                 /\ \A k \in 1..Len(Tail(fromServer)) :
                       k + 1 \in 1..Len(fromServer) /\ Tail(fromServer)[k] = fromServer[k + 1]
           /\ lpc = "handle" /\ HandsInv =>
                 1 \in 1..Len(received) /\ received[1] \in ServerMessages /\ Numbered(received[1])
<1>1. ASSUME fromServer # <<>>
      PROVE  /\ Head(fromServer) \in ServerMessages /\ Numbered(Head(fromServer))
             /\ Head(fromServer) = fromServer[1] /\ 1 \in 1..Len(fromServer)
             /\ Tail(fromServer) \in Seq(ServerMessages)
             /\ \A k \in 1..Len(Tail(fromServer)) :
                   k + 1 \in 1..Len(fromServer) /\ Tail(fromServer)[k] = fromServer[k + 1]
  <2> DEFINE f == fromServer
  <2>1. f \in Seq(ServerMessages)
    BY DEF TypeInv, TypeOK
  <2>2. /\ Head(f) = f[1] /\ Tail(f) \in Seq(ServerMessages) /\ Len(f) \in Nat \ {0}
        /\ Len(Tail(f)) = Len(f) - 1
        /\ \A i \in 1..Len(Tail(f)) : Tail(f)[i] = f[i + 1]
        /\ \A i \in 1..Len(f) : f[i] \in ServerMessages
    BY <1>1, <2>1, PopProperties
  <2>3. 1 \in 1..Len(f) /\ \A k \in 1..Len(Tail(f)) : k + 1 \in 1..Len(f)
    BY <2>2
  <2> QED
    BY <2>2, <2>3 DEF TypeInv
<1>2. ASSUME lpc = "handle", HandsInv
      PROVE  1 \in 1..Len(received) /\ received[1] \in ServerMessages /\ Numbered(received[1])
  <2>1. received \in Seq(ServerMessages) /\ received # <<>>
    BY <1>2 DEF TypeInv, TypeOK, HandsInv
  <2>2. Len(received) \in Nat \ {0} /\ \A i \in 1..Len(received) : received[i] \in ServerMessages
    BY <2>1, PopProperties
  <2>3. 1 \in 1..Len(received)
    BY <2>2
  <2> QED
    BY <2>2, <2>3 DEF TypeInv
<1> QED
  BY <1>1, <1>2

\* The numbers of the commands: what is in the channel is bounded by what was sent.
LEMMA CounterStep ==
    ASSUME TypeInv, HandsInv, [Next]_vars
    PROVE  serverCounter' \in 0..MaxCommand /\ serverSent' \in 0..MaxCommand
<1>0. /\ serverCounter \in 0..MaxCommand /\ serverSent \in 0..MaxCommand
      /\ MaxCommand \in Nat /\ 0 \in 0..MaxCommand
  BY ConnectionAssumption DEF TypeInv, TypeOK
<1>a. ASSUME NEW m \in ServerMessages, Numbered(m), m.kind = "command" PROVE m.ctr \in 0..MaxCommand
  BY <1>0, <1>a DEF ServerMessages, Numbered
<1>1. CASE ClientThread
  <2> USE DEF sessionVars, channelVars
  <2>1. CASE ServeReconnect \/ NoReconnect \/ TakeNothing \/ TakeUnconnected \/ TakeSend \/ TakeSendFails
    BY <1>0, <2>1 DEF ServeReconnect, NoReconnect, TakeNothing, TakeUnconnected, TakeSend,
                      TakeSendFails, SendStatus, Goto, Deinitialize, ChannelCloses
  <2>2. CASE JoinListener \/ Collect \/ ListDevices \/ ForceAggregation \/ AwaitForced \/ StartConnect
             \/ DrainTake \/ DrainFill \/ DrainDone \/ JoinConnect
    BY <1>0, <2>2 DEF JoinListener, Collect, ListDevices, ForceAggregation, AwaitForced, StartConnect,
                      DrainTake, DrainFill, DrainDone, JoinConnect, Goto
  <2> QED
    BY <1>1, <2>1, <2>2 DEF ClientThread
<1>2. CASE ConnectThread
  <2> USE DEF sessionVars, channelVars
  <2>1. CASE InitChannel \/ SendConnect \/ ConnectResponse \/ (\E d \in Devices : ReadDevice(d))
             \/ SendDevice \/ SendDeviceFails \/ NextLoop("status", "ack")
             \/ NextLoop("ack", "command") \/ ConnectAck \/ StartListener \/ SetConnected \/ ClearErrors
    BY <1>0, <2>1 DEF InitChannel, SendConnect, ConnectResponse, ReadDevice, SendDevice, SendStatus,
                SendDeviceFails, NextLoop, ConnectAck, StartListener, SetConnected, ClearErrors,
                ChannelCloses, Receive, ReceiveNothing
  <2>2. CASE ConnectCommand
    <3>1. serverSent' = serverSent
      BY <2>2 DEF ConnectCommand, Receive, ReceiveNothing
    <3>2. \/ serverCounter' = serverCounter
          \/ /\ fromServer # <<>> /\ Head(fromServer).kind = "command"
             /\ serverCounter' = Head(fromServer).ctr
      BY <2>2 DEF ConnectCommand, Receive
    <3> QED
      BY <1>0, <1>a, <3>1, <3>2, QueuedMessages
  <2> QED
    BY <1>2, <2>1, <2>2 DEF ConnectThread
<1>3. CASE Listener
  <2>1. serverSent' = serverSent
    BY <1>3 DEF Listener, ListenerStarts, ListenerTop, ListenerReceives, ListenerHandles, Receive,
                ReceiveNothing, channelVars
  <2>2. \/ serverCounter' = serverCounter
        \/ lpc = "handle" /\ received[1].kind = "command" /\ serverCounter' = received[1].ctr
    BY <1>3 DEF Listener, ListenerStarts, ListenerTop, ListenerReceives, ListenerHandles
  <2> QED
    BY <1>0, <1>a, <2>1, <2>2, QueuedMessages
<1>4. CASE ResponseTimeout \/ TimeoutHandler \/ ReconnectTimer
  BY <1>0, <1>4 DEF ResponseTimeout, TimeoutHandler, ReconnectTimer, IoKeeps, sessionVars, channelVars
<1>5. CASE Environment
  <2>1. serverCounter' = serverCounter
    BY <1>5 DEF Environment, ModuleRegisters, ModuleStatus, ModuleDisconnect, ModuleErases, Queued,
                ModuleKeeps, ServerCommand, ServerBreaks, ServerSends, ChannelLost, sessionVars
  <2>2. \/ serverSent' \in {0, serverSent}
        \/ serverSent < MaxCommand /\ serverSent' = serverSent + 1
    BY <1>5 DEF Environment, ModuleRegisters, ModuleStatus, ModuleDisconnect, ModuleErases, Queued,
                ModuleKeeps, ServerCommand, ServerBreaks, ChannelLost, ChannelCloses, channelVars
  <2> QED
    BY <1>0, <2>1, <2>2
<1>6. CASE UNCHANGED vars
  BY <1>0, <1>6 DEF vars, sessionVars, channelVars
<1> QED
  BY <1>1, <1>2, <1>3, <1>4, <1>5, <1>6 DEF Next

LEMMA MessageTypeStep ==
    ASSUME TypeInv, HandsInv, [Next]_vars
    PROVE  MessageType'
<1>0. MessageType
  BY DEF MessageType, TypeInv, TypeOK
<1>1. /\ fromServer' \in Seq(ServerMessages) /\ received' \in Seq(ServerMessages)
      /\ \A i \in 1..Len(fromServer') : Numbered(fromServer'[i])
      /\ \A i \in 1..Len(received') : Numbered(received'[i])
  <2>0. MessageStep
    BY MessageSteps DEF TypeInv
  <2>a. <<>> \in Seq(ServerMessages) /\ \A i \in 1..Len(<<>>) : Numbered(<<>>[i])
    OBVIOUS
  <2>1. CASE fromServer' \in {<<>>, fromServer} /\ received' \in {<<>>, received}
    BY <1>0, <2>1, <2>a DEF MessageType
  <2>2. CASE /\ fromServer # <<>> /\ fromServer' = Tail(fromServer)
             /\ received' = received \/ (lpc = "receive" /\ received' = <<Head(fromServer)>>)
    <3>1. fromServer' \in Seq(ServerMessages) /\ \A i \in 1..Len(fromServer') : Numbered(fromServer'[i])
      BY <1>0, <2>2, QueuedMessages DEF MessageType
    <3> DEFINE h == Head(fromServer)
    <3>2. h \in ServerMessages /\ Numbered(h)
      BY <2>2, QueuedMessages
    <3> HIDE DEF h
    <3>3. <<h>> \in Seq(ServerMessages) /\ Len(<<h>>) = 1 /\ <<h>>[1] = h /\ \A i \in 1..1 : i = 1
      BY <3>2
    <3>4. received' = received \/ received' = <<h>>
      BY <2>2 DEF h
    <3> QED
      BY <1>0, <3>1, <3>2, <3>3, <3>4 DEF MessageType
  <2>3. ASSUME NEW m \in ServerMessages, Numbered(m), Joins(fromServer, m), received' = received
        PROVE  <1>1!:
    BY <1>0, <2>3, JoinsProperties DEF MessageType
  <2>4. ASSUME NEW m \in ServerMessages, Numbered(m), Joins(Disowned, m), received' = received
        PROVE  <1>1!:
    <3>1. Disowned \in Seq(ServerMessages)
      BY <1>0, DisownedProperties DEF MessageType
    <3>2. \A j \in 1..Len(Disowned) : Numbered(Disowned[j])
      BY <1>0, DisownedProperties DEF MessageType, Numbered
    <3> QED
      BY <1>0, <2>4, <3>1, <3>2, JoinsProperties DEF MessageType
  <2> QED
    BY <2>0, <2>1, <2>2, <2>3, <2>4 DEF MessageStep
<1> QED
  BY <1>1, CounterStep DEF MessageType

-----------------------------------------------------------------------------
(* Where the threads are *)

LEMMA HandsStep ==
    ASSUME TypeInv, HandsInv, ThreadInv, [Next]_vars
    PROVE  HandsInv'
<1> USE DEF HandsInv
<1>0. /\ caller \in {"status", "item"}
      /\ Append(reconnects, TRUE) # <<>> /\ Append(reconnects, FALSE) # <<>>
  BY RequestQueue DEF TypeInv, TypeOK
<1>1. CASE ClientThread
  <2> USE DEF timerVars, connectVars, listenVars, clientVars
  <2>1. CASE ServeReconnect \/ NoReconnect \/ TakeNothing \/ TakeUnconnected
    BY <2>1 DEF ServeReconnect, NoReconnect, TakeNothing, TakeUnconnected, Goto, Deinitialize
  <2>2. CASE TakeSend \/ TakeSendFails \/ Collect
    BY <2>2 DEF TakeSend, TakeSendFails, Collect, Deinitialize
  <2>3. CASE JoinListener
    BY <1>0, <2>3 DEF JoinListener, ListenerEnded
  <2>4. CASE ListDevices \/ ForceAggregation \/ AwaitForced \/ StartConnect
    BY <2>4 DEF ListDevices, ForceAggregation, AwaitForced, StartConnect, ThreadInv
  <2>5. CASE DrainTake \/ DrainFill \/ DrainDone \/ JoinConnect
    BY <2>5 DEF DrainTake, DrainFill, DrainDone, JoinConnect, Goto
  <2> QED
    BY <1>1, <2>1, <2>2, <2>3, <2>4, <2>5 DEF ClientThread
<1>2. CASE ConnectThread
  <2> USE DEF ConnectKeeps, timerVars, listenVars, clientVars
  <2>1. CASE InitChannel \/ SendConnect \/ ConnectResponse \/ StartListener \/ SetConnected \/ ClearErrors
    BY <2>1 DEF InitChannel, SendConnect, ConnectResponse, StartListener, SetConnected, ClearErrors,
                ConnectFails, ThreadInv, ListenerJoined
  <2>2. CASE \E d \in Devices : ReadDevice(d)
    <3>1. PICK d \in Devices : ReadDevice(d)
      BY <2>2
    <3>2. <<d, lastStatus[d]>> # <<>> /\ <<d, lastStatus[d]>>[1] = d
      OBVIOUS
    <3> QED
      BY <3>1, <3>2 DEF ReadDevice, ConnectFails
  <2>3. CASE SendDevice \/ SendDeviceFails
    BY <2>3 DEF SendDevice, SendDeviceFails
  <2>4. CASE ConnectAck \/ ConnectCommand \/ NextLoop("status", "ack") \/ NextLoop("ack", "command")
    BY <2>4 DEF ConnectAck, ConnectCommand, NextLoop, ConnectFails
  <2> QED
    BY <1>2, <2>1, <2>2, <2>3, <2>4 DEF ConnectThread
<1>3. CASE Listener
  <2> USE DEF ListenerKeeps, clientVars, connectVars
  <2>1. CASE ListenerStarts \/ ListenerTop
    BY <2>1 DEF ListenerStarts, ListenerTop
  <2>2. CASE ListenerReceives
    <3>1. <<Head(fromServer)>> # <<>>
      OBVIOUS
    <3> QED
      BY <2>2, <3>1 DEF ListenerReceives
  <2>3. CASE ListenerHandles
    BY <1>0, <2>3 DEF ListenerHandles, Leave
  <2> QED
    BY <1>3, <2>1, <2>2, <2>3 DEF Listener
<1>4. CASE ResponseTimeout \/ TimeoutHandler \/ ReconnectTimer
  BY <1>0, <1>4 DEF ResponseTimeout, TimeoutHandler, ReconnectTimer, IoKeeps, clientVars, connectVars,
                    listenVars
<1>5. CASE Environment
  BY <1>5, ZenonT(30)
     DEF Environment, ModuleRegisters, ModuleStatus, ModuleDisconnect, ModuleErases, Queued,
              ModuleKeeps, ServerCommand, ServerBreaks, ServerSends, ChannelLost, timerVars,
              clientVars, connectVars, listenVars
<1>6. CASE UNCHANGED vars
  BY <1>6 DEF vars, timerVars, clientVars, connectVars, listenVars
<1> QED
  BY <1>1, <1>2, <1>3, <1>4, <1>5, <1>6 DEF Next

LEMMA ThreadStep ==
    ASSUME TypeInv, HandsInv, ThreadInv, [Next]_vars
    PROVE  ThreadInv'
<1> USE DEF ThreadInv, ListenerJoined
<1>0. PlaceType /\ todo \subseteq listed
  BY DEF PlaceType, TypeInv, TypeOK
<1>1. CASE ClientThread
  <2> USE DEF connectVars, listenVars, clientVars, channelVars
  <2>1. CASE ServeReconnect
    BY <2>1 DEF ServeReconnect, Deinitialize, ChannelCloses
  <2>2. CASE NoReconnect \/ TakeNothing \/ TakeUnconnected \/ Collect
    BY <2>2 DEF NoReconnect, TakeNothing, TakeUnconnected, Collect, Goto
  <2>3. CASE TakeSend
    BY <2>3 DEF TakeSend, SendStatus
  <2>4. CASE TakeSendFails
    BY <2>4 DEF TakeSendFails, Deinitialize, ChannelCloses
  <2>5. CASE JoinListener
    BY <1>0, <2>5 DEF JoinListener, ListenerEnded, PlaceType
  <2>6. CASE ListDevices \/ ForceAggregation \/ AwaitForced
    BY <2>6 DEF ListDevices, ForceAggregation, AwaitForced
  <2>7. CASE StartConnect
    BY <2>7 DEF StartConnect
  <2>8. CASE DrainTake \/ DrainFill \/ DrainDone
    BY <2>8 DEF DrainTake, DrainFill, DrainDone, Goto
  <2>9. CASE JoinConnect
    BY <2>9 DEF JoinConnect, ConnectDone
  <2> QED
    BY <1>1, <2>1, <2>2, <2>3, <2>4, <2>5, <2>6, <2>7, <2>8, <2>9 DEF ClientThread
<1>2. CASE ConnectThread
  <2> USE DEF ConnectKeeps, clientVars, listenVars, channelVars, ConnectFails
  <2>1. CASE InitChannel \/ SendConnect
    BY <2>1 DEF InitChannel, SendConnect
  <2>2. CASE ConnectResponse
    BY <2>2 DEF ConnectResponse, Receive, ReceiveNothing
  <2>3. CASE \E d \in Devices : ReadDevice(d)
    BY <1>0, <2>3 DEF ReadDevice
  <2>4. CASE SendDevice
    BY <2>4 DEF SendDevice, SendStatus
  <2>5. CASE SendDeviceFails
    <3>1. listed # {}
      BY <1>0, <2>5 DEF SendDeviceFails, HandsInv
    <3> QED
      BY <2>5, <3>1 DEF SendDeviceFails, ChannelCloses
  <2>6. CASE NextLoop("status", "ack") \/ NextLoop("ack", "command")
    BY <2>6 DEF NextLoop
  <2>7. CASE ConnectAck
    BY <2>7 DEF ConnectAck, Receive, ReceiveNothing
  <2>8. CASE ConnectCommand
    BY <2>8 DEF ConnectCommand, Receive, ReceiveNothing
  <2>9. CASE StartListener \/ SetConnected \/ ClearErrors
    BY <2>9 DEF StartListener, SetConnected, ClearErrors
  <2> QED
    BY <1>2, <2>1, <2>2, <2>3, <2>4, <2>5, <2>6, <2>7, <2>8, <2>9 DEF ConnectThread
<1>3. CASE Listener
  <2> USE DEF ListenerKeeps, clientVars, connectVars, channelVars
  <2>1. CASE ListenerStarts \/ ListenerTop
    BY <2>1 DEF ListenerStarts, ListenerTop
  <2>2. CASE ListenerReceives
    BY <2>2 DEF ListenerReceives, Receive, ReceiveNothing
  <2>3. CASE ListenerHandles
    BY <2>3 DEF ListenerHandles, Leave
  <2> QED
    BY <1>3, <2>1, <2>2, <2>3 DEF Listener
<1>4. CASE ResponseTimeout \/ TimeoutHandler \/ ReconnectTimer
  <2>1. UNCHANGED <<state, cpc, xpc, listed, todo, lpc, up>>
    BY <1>4 DEF ResponseTimeout, TimeoutHandler, ReconnectTimer, IoKeeps, clientVars, connectVars,
                listenVars, channelVars
  <2> QED
    BY <2>1
<1>5. CASE Environment
  <2>1. UNCHANGED <<state, cpc, xpc, listed, todo, lpc>> /\ (up' = up \/ up' = FALSE)
    BY <1>5 DEF Environment, ModuleRegisters, ModuleStatus, ModuleDisconnect, ModuleErases, Queued,
                ModuleKeeps, ServerCommand, ServerBreaks, ServerSends, ChannelLost, ChannelCloses,
                clientVars, connectVars, listenVars, channelVars
  <2> QED
    BY <2>1
<1>6. CASE UNCHANGED vars
  BY <1>6 DEF vars, clientVars, connectVars, listenVars, channelVars
<1> QED
  BY <1>1, <1>2, <1>3, <1>4, <1>5, <1>6 DEF Next

\* A listed device is registered, or its forced status is still awaited.
RegisteredInv ==
    /\ ListedAreRegistered
    /\ cpc = "forced" => listed \subseteq registered \cup forcedDevices

LEMMA RegisteredStep ==
    ASSUME TypeInv, HandsInv, ThreadInv, RegisteredInv, [Next]_vars
    PROVE  RegisteredInv'
<1> USE DEF RegisteredInv, ListedAreRegistered
<1>0. registered \subseteq registered'
  BY StatusSteps, StatusTypeStep DEF TypeInv
<1>1. CASE ListDevices
  BY <1>1 DEF ListDevices, ThreadInv
<1>2. CASE ForceAggregation
  BY <1>0, <1>2 DEF ForceAggregation, ThreadInv, connectVars
<1>3. CASE AwaitForced
  <2>1. UNCHANGED <<xpc, cpc, listed>> /\ cpc = "forced" /\ xpc = "none"
    BY <1>3 DEF AwaitForced, connectVars, ThreadInv
  <2>2. CASE forcedDevices' = forcedDevices
    BY <1>0, <2>1, <2>2
  <2>3. CASE forcedDevices' # forcedDevices
    <3>1. TakesAndFills /\ forcedDevices' = forcedDevices \ {Head(toExternal).dev}
      BY <1>3, <2>3 DEF AwaitForced, TakesAndFills, auxVars
    <3>2. Head(toExternal).dev \in registered'
      BY <3>1, TakesAndFillsProperties DEF TypeInv
    <3> QED
      BY <1>0, <2>1, <3>1, <3>2
  <2> QED
    BY <2>2, <2>3
<1>4. CASE StartConnect
  BY <1>0, <1>4 DEF StartConnect, AllForced
<1>5. CASE JoinConnect
  BY <1>5 DEF JoinConnect
<1>6. CASE /\ listed' = listed /\ (xpc' # "none" => xpc # "none")
           /\ cpc' = "forced" => cpc = "forced" /\ forcedDevices' = forcedDevices
  BY <1>0, <1>6
<1>7. CASE ClientThread
  <2> USE DEF connectVars
  <2>1. CASE ServeReconnect \/ NoReconnect \/ TakeNothing \/ TakeUnconnected \/ TakeSend \/ TakeSendFails
    BY <1>6, <2>1 DEF ServeReconnect, NoReconnect, TakeNothing, TakeUnconnected, TakeSend,
                      TakeSendFails, Goto, Deinitialize
  <2>2. CASE JoinListener \/ Collect \/ DrainTake \/ DrainFill \/ DrainDone
    BY <1>6, <2>2 DEF JoinListener, Collect, DrainTake, DrainFill, DrainDone, Goto, clientVars
  <2> QED
    BY <1>1, <1>2, <1>3, <1>4, <1>5, <1>7, <2>1, <2>2 DEF ClientThread
<1>8. CASE ConnectThread
  BY <1>6, <1>8 DEF ConnectThread, InitChannel, SendConnect, ConnectResponse, ReadDevice, SendDevice,
                    SendDeviceFails, NextLoop, ConnectAck, ConnectCommand, StartListener,
                    SetConnected, ClearErrors, ConnectFails, ConnectKeeps, clientVars
<1>9. CASE Listener
  BY <1>6, <1>9 DEF Listener, ListenerStarts, ListenerTop, ListenerReceives, ListenerHandles,
                    ListenerKeeps, clientVars, connectVars
<1>10. CASE ResponseTimeout \/ TimeoutHandler \/ ReconnectTimer
  BY <1>6, <1>10 DEF ResponseTimeout, TimeoutHandler, ReconnectTimer, IoKeeps, clientVars, connectVars
<1>11. CASE Environment
  BY <1>6, <1>11 DEF Environment, ModuleRegisters, ModuleStatus, ModuleDisconnect, ModuleErases,
                     Queued, ModuleKeeps, ServerCommand, ServerBreaks, ServerSends, ChannelLost,
                     clientVars, connectVars
<1>12. CASE UNCHANGED vars
  BY <1>6, <1>12 DEF vars, clientVars, connectVars
<1> QED
  BY <1>7, <1>8, <1>9, <1>10, <1>11, <1>12 DEF Next

-----------------------------------------------------------------------------
(* A response acknowledges the status it answers *)

Connecting == {"init", "connect", "response"}

\* Requests are numbered in the session that has begun.
InSession == state = "CONNECTED" \/ (state = "CONNECTING" /\ xpc # "connect")

Ack(m) == m.kind = "ack" /\ m.mine

\* A connect sequence starts with nothing that waits for a response.
EmptyInv == xpc \in Connecting => notAcked = <<>>

\* After the connect response, messages of the session only: each that is left of an earlier
\* one comes before it, and fails the sequence.
OwnInv ==
    /\ \A i \in 1..Len(received) : received[i].mine
    /\ xpc \notin Connecting \cup {"none", "failed"} \/ lpc \notin {"none", "ended"} =>
          \A i \in 1..Len(fromServer) : fromServer[i].mine
    /\ xpc = "response" =>
          \A i, j \in 1..Len(fromServer) : i <= j /\ fromServer[i].mine => fromServer[j].mine

\* The next number is new.
FreshInv ==
    InSession =>
        /\ \A i \in 1..Len(fromServer) : Ack(fromServer[i]) => fromServer[i].ctr <= clientCounter
        /\ \A i \in 1..Len(received) : Ack(received[i]) => received[i].ctr <= clientCounter
        /\ \A i \in 1..Len(notAcked) : notAcked[i].ctr <= clientCounter

Answers(m, e) == Ack(m) /\ m.ctr = e.ctr => e.dev = m.dev /\ e.n = m.n

MatchInv ==
    \A j \in 1..Len(notAcked) :
        /\ \A i \in 1..Len(fromServer) : Answers(fromServer[i], notAcked[j])
        /\ \A i \in 1..Len(received) : Answers(received[i], notAcked[j])

LEMMA EmptyStep ==
    ASSUME HandsInv, ThreadInv, EmptyInv, [Next]_vars
    PROVE  EmptyInv'
<1> USE DEF EmptyInv, Connecting, ThreadInv
<1>1. CASE ClientThread
  <2> USE DEF connectVars, sentVars
  <2>1. CASE ServeReconnect \/ NoReconnect \/ TakeNothing \/ TakeUnconnected \/ TakeSend \/ TakeSendFails
             \/ Collect
    BY <2>1 DEF ServeReconnect, NoReconnect, TakeNothing, TakeUnconnected, TakeSend, TakeSendFails,
                Collect, Goto, FillErrorAggregator
  <2>2. CASE JoinListener \/ StartConnect \/ DrainTake \/ DrainFill \/ DrainDone \/ JoinConnect
    BY <2>2 DEF JoinListener, StartConnect, DrainTake, DrainFill, DrainDone, JoinConnect, Goto,
                FillErrorAggregator
  <2>3. CASE ListDevices \/ ForceAggregation \/ AwaitForced
    BY <2>3 DEF ListDevices, ForceAggregation, AwaitForced, FillErrorAggregator
  <2> QED
    BY <1>1, <2>1, <2>2, <2>3 DEF ClientThread
<1>2. CASE ConnectThread
  <2>1. CASE InitChannel \/ SendConnect \/ ConnectResponse
    BY <2>1 DEF InitChannel, SendConnect, ConnectResponse, ConnectFails, sentVars
  <2>2. CASE ~(InitChannel \/ SendConnect \/ ConnectResponse)
    <3>1. xpc' \notin Connecting
      BY <1>2, <2>2 DEF ConnectThread, ReadDevice, SendDevice, SendDeviceFails, NextLoop, ConnectAck,
                  ConnectCommand, StartListener, SetConnected, ClearErrors, ConnectFails
    <3> QED
      BY <3>1
  <2> QED
    BY <2>1, <2>2
<1>3. CASE Listener
  <2>1. lpc # "none" /\ xpc' = xpc
    BY <1>3 DEF Listener, ListenerStarts, ListenerTop, ListenerReceives, ListenerHandles,
                ListenerKeeps, connectVars
  <2> QED
    BY <2>1 DEF ListenerJoined
<1>4. CASE ResponseTimeout \/ TimeoutHandler \/ ReconnectTimer
  BY <1>4 DEF ResponseTimeout, TimeoutHandler, ReconnectTimer, IoKeeps, connectVars
<1>5. CASE Environment
  BY <1>5 DEF Environment, ModuleRegisters, ModuleStatus, ModuleDisconnect, ModuleErases, Queued,
              ModuleKeeps, ServerCommand, ServerBreaks, ServerSends, ChannelLost, connectVars, sentVars
<1>6. CASE UNCHANGED vars
  BY <1>6 DEF vars, connectVars, sentVars
<1> QED
  BY <1>1, <1>2, <1>3, <1>4, <1>5, <1>6 DEF Next

\* How a thread comes to a place where it reads the session's messages.
LEMMA OwnPlaces ==
    ASSUME HandsInv, ThreadInv, [Next]_vars
    PROVE  /\ \/ xpc' \notin Connecting \cup {"none", "failed"} \/ lpc' \notin {"none", "ended"} =>
                    xpc \notin Connecting \cup {"none", "failed"} \/ lpc \notin {"none", "ended"}
              \/ /\ xpc = "response" /\ fromServer # <<>> /\ Head(fromServer).mine
                 /\ fromServer' = Tail(fromServer)
           /\ xpc' = "response" => xpc = "response" \/ SendConnect
<1> USE DEF Connecting
<1>0. CASE UNCHANGED <<xpc, lpc>>
  BY <1>0
<1>1. CASE ClientThread
  <2> USE DEF connectVars, listenVars
  <2>1. CASE JoinListener \/ StartConnect \/ JoinConnect
    BY <2>1 DEF JoinListener, StartConnect, JoinConnect
  <2>2. CASE ServeReconnect \/ NoReconnect \/ TakeNothing \/ TakeUnconnected \/ TakeSend
             \/ TakeSendFails \/ Collect
    BY <1>0, <2>2 DEF ServeReconnect, NoReconnect, TakeNothing, TakeUnconnected, TakeSend,
                      TakeSendFails, Collect, Goto, Deinitialize
  <2>3. CASE ListDevices \/ ForceAggregation \/ AwaitForced \/ DrainTake \/ DrainFill \/ DrainDone
    BY <1>0, <2>3 DEF ListDevices, ForceAggregation, AwaitForced, DrainTake, DrainFill, DrainDone, Goto
  <2> QED
    BY <1>1, <2>1, <2>2, <2>3 DEF ClientThread
<1>2. CASE ConnectThread
  <2> USE DEF listenVars, ConnectFails
  <2>1. CASE InitChannel \/ SendConnect
    BY <2>1 DEF InitChannel, SendConnect
  <2>2. CASE ConnectResponse
    BY <2>2 DEF ConnectResponse, Receive, ConnectResponseOk
  <2>3. CASE \/ (\E d \in Devices : ReadDevice(d)) \/ SendDevice \/ SendDeviceFails \/ ConnectAck
             \/ NextLoop("status", "ack") \/ NextLoop("ack", "command") \/ ConnectCommand
             \/ StartListener \/ SetConnected \/ ClearErrors
    BY <2>3 DEF ReadDevice, SendDevice, SendDeviceFails, ConnectAck, NextLoop, ConnectCommand,
                StartListener, SetConnected, ClearErrors
  <2> QED
    BY <1>2, <2>1, <2>2, <2>3 DEF ConnectThread
<1>3. CASE Listener
  BY <1>3 DEF Listener, ListenerStarts, ListenerTop, ListenerReceives, ListenerHandles, Leave,
              ListenerKeeps, connectVars
<1>4. CASE ResponseTimeout \/ TimeoutHandler \/ ReconnectTimer
  BY <1>0, <1>4 DEF ResponseTimeout, TimeoutHandler, ReconnectTimer, IoKeeps, connectVars, listenVars
<1>5. CASE Environment
  BY <1>0, <1>5 DEF Environment, ModuleRegisters, ModuleStatus, ModuleDisconnect, ModuleErases,
                    Queued, ModuleKeeps, ServerCommand, ServerBreaks, ServerSends, ChannelLost,
                    connectVars, listenVars
<1>6. CASE UNCHANGED vars
  BY <1>0, <1>6 DEF vars, connectVars, listenVars
<1> QED
  BY <1>1, <1>2, <1>3, <1>4, <1>5, <1>6 DEF Next

LEMMA OwnStep ==
    ASSUME TypeInv, HandsInv, ThreadInv, OwnInv, [Next]_vars
    PROVE  OwnInv'
<1> USE DEF Connecting
<1> DEFINE Own(s) == \A i \in 1..Len(s) : s[i].mine
           Later(s) == \A i, j \in 1..Len(s) : i <= j /\ s[i].mine => s[j].mine
<1>0. MessageStep /\ fromServer \in Seq(ServerMessages) /\ received \in Seq(ServerMessages)
  BY MessageSteps DEF TypeInv, TypeOK
<1>a. Own(<<>>) /\ Later(<<>>)
  OBVIOUS
<1>1. Own(received')
  <2>1. CASE received' \in {<<>>, received}
    BY <1>a, <2>1 DEF OwnInv
  <2>2. CASE fromServer # <<>> /\ lpc = "receive" /\ received' = <<Head(fromServer)>>
    <3> DEFINE h == Head(fromServer)
    <3>1. h.mine
      BY <2>2, QueuedMessages DEF OwnInv
    <3>2. received' = <<h>>
      BY <2>2
    <3> HIDE DEF h
    <3>3. Len(<<h>>) = 1 /\ <<h>>[1] = h /\ \A i \in 1..1 : i = 1
      OBVIOUS
    <3> QED
      BY <3>1, <3>2, <3>3
  <2> QED
    BY <1>0, <2>1, <2>2 DEF MessageStep
<1>2. CASE SendConnect /\ xpc' = "response"
  <2>1. PICK m \in ServerMessages : m.mine /\ Joins(Disowned, m)
    BY <1>2, SendConnectProperties
  <2>2. Disowned \in Seq(ServerMessages) /\ Later(Disowned)
    BY <1>0, DisownedProperties
  <2>3. Later(fromServer')
    BY <2>1, <2>2, JoinsProperties
  <2>4. lpc' = "none"
    BY <1>2 DEF SendConnect, listenVars, ThreadInv, ListenerJoined
  <2> QED
    BY <1>1, <1>2, <2>3, <2>4 DEF OwnInv
<1>3. CASE ~(SendConnect /\ xpc' = "response")
  <2>1. (Own(fromServer) => Own(fromServer')) /\ (Later(fromServer) => Later(fromServer'))
    <3>1. CASE fromServer' \in {<<>>, fromServer}
      BY <1>a, <3>1
    <3>2. CASE fromServer # <<>> /\ fromServer' = Tail(fromServer)
      <4>1. \A k \in 1..Len(fromServer') : k + 1 \in 1..Len(fromServer) /\ fromServer'[k] = fromServer[k + 1]
        BY <3>2, QueuedMessages
      <4>2. Own(fromServer) => Own(fromServer')
        BY <4>1
      <4>3. ASSUME Later(fromServer), NEW i \in 1..Len(fromServer'), NEW j \in 1..Len(fromServer'),
                   i <= j, fromServer'[i].mine
            PROVE  fromServer'[j].mine
        <5>1. /\ i + 1 \in 1..Len(fromServer) /\ j + 1 \in 1..Len(fromServer) /\ i + 1 <= j + 1
              /\ fromServer'[i] = fromServer[i + 1] /\ fromServer'[j] = fromServer[j + 1]
          BY <4>1, <4>3
        <5> QED
          BY <4>3, <5>1
      <4> QED
        BY <4>2, <4>3
    <3>3. CASE \E m \in ServerMessages : m.mine /\ Joins(fromServer, m)
      BY <1>0, <3>3, JoinsProperties
    <3>4. CASE xpc = "connect" /\ xpc' = "response"
      BY <1>3, <3>4, OwnPlaces
    <3> QED
      BY <1>0, <3>1, <3>2, <3>3, <3>4 DEF MessageStep
  <2>2. xpc' = "response" => xpc = "response"
    BY <1>3, OwnPlaces
  <2>3. CASE /\ xpc = "response" /\ fromServer # <<>> /\ Head(fromServer).mine
             /\ fromServer' = Tail(fromServer)
    <3>1. 1 \in 1..Len(fromServer) /\ fromServer[1].mine
      BY <2>3, QueuedMessages
    <3>2. \A j \in 1..Len(fromServer) : 1 <= j
      BY <1>0
    <3>3. Own(fromServer)
      BY <2>3, <3>1, <3>2 DEF OwnInv
    <3> QED
      BY <1>1, <2>1, <2>2, <3>3 DEF OwnInv
  <2>4. CASE xpc' \notin Connecting \cup {"none", "failed"} \/ lpc' \notin {"none", "ended"} =>
                xpc \notin Connecting \cup {"none", "failed"} \/ lpc \notin {"none", "ended"}
    BY <1>1, <2>1, <2>2, <2>4 DEF OwnInv
  <2> QED
    BY <2>3, <2>4, OwnPlaces
<1> QED
  BY <1>2, <1>3

\* The steps, by what they do to the numbers of the session.  A status gets the next number,
\* and its response, if any, the same...
Sends ==
    /\ InSession
    /\ clientCounter' = clientCounter + 1
    /\ received' = received
    /\ \E m \in ServerMessages :
          /\ Joins(fromServer, m)
          /\ m.ctr = clientCounter + 1
          /\ notAcked' = Append(notAcked, [ctr |-> clientCounter + 1, dev |-> m.dev, n |-> m.n])
          /\ [ctr |-> clientCounter + 1, dev |-> m.dev, n |-> m.n] \in SentStatuses

\* ... or none, and the session ends.
SendFails ==
    /\ InSession /\ ~InSession'
    /\ fromServer' \in {<<>>, fromServer} /\ received' = received
    /\ \E d \in Devices, n \in 0..MaxStatus :
          notAcked' = Append(notAcked, [ctr |-> clientCounter + 1, dev |-> d, n |-> n])

\* A session begins without numbers.
Begins ==
    /\ notAcked' = <<>> /\ received' = <<>>
    /\ \A k \in 1..Len(fromServer') : ~Ack(fromServer'[k])

\* Otherwise responses and numbers only disappear.
Shrinks ==
    /\ InSession' => InSession /\ clientCounter' = clientCounter
    /\ \A k \in 1..Len(notAcked') : \E j \in 1..Len(notAcked) : notAcked'[k] = notAcked[j]
    /\ \A k \in 1..Len(fromServer') :
          Ack(fromServer'[k]) => \E j \in 1..Len(fromServer) : fromServer'[k] = fromServer[j]
    /\ \A k \in 1..Len(received') :
          \/ \E j \in 1..Len(received) : received'[k] = received[j]
          \/ \E j \in 1..Len(fromServer) : received'[k] = fromServer[j]

\* What leaves the session alone, or ends it.
LEMMA SessionPlaces ==
    ASSUME TypeOK, ThreadInv, [Next]_vars, ~(TakeSend \/ SendDevice \/ TakeSendFails),
           ~(SendConnect /\ xpc' = "response")
    PROVE  /\ InSession' => InSession /\ clientCounter' = clientCounter
           /\ notAcked' = notAcked \/ notAcked' = <<>> \/ \E m : Acknowledge(m)
<1> USE DEF InSession, ThreadInv
<1>1. CASE ClientThread
  <2> USE DEF connectVars, sessionVars, sentVars
  <2>1. CASE ServeReconnect
    BY <2>1 DEF ServeReconnect, Deinitialize
  <2>2. CASE NoReconnect \/ TakeNothing \/ TakeUnconnected \/ Collect \/ JoinListener
    BY <2>2 DEF NoReconnect, TakeNothing, TakeUnconnected, Collect, JoinListener, Goto,
                FillErrorAggregator
  <2>3. CASE ListDevices \/ ForceAggregation \/ AwaitForced \/ StartConnect
    BY <2>3 DEF ListDevices, ForceAggregation, AwaitForced, StartConnect, FillErrorAggregator
  <2>4. CASE DrainTake \/ DrainFill \/ DrainDone \/ JoinConnect
    BY <2>4 DEF DrainTake, DrainFill, DrainDone, JoinConnect, ConnectDone, Goto, FillErrorAggregator
  <2> QED
    BY <1>1, <2>1, <2>2, <2>3, <2>4 DEF ClientThread
<1>2. CASE ConnectThread
  <2> USE DEF sessionVars, sentVars, ConnectFails
  <2>1. CASE InitChannel \/ SendConnect \/ ConnectResponse
    BY <2>1 DEF InitChannel, SendConnect, ConnectResponse
  <2>2. CASE (\E d \in Devices : ReadDevice(d)) \/ SendDeviceFails
    BY <2>2 DEF ReadDevice, SendDeviceFails
  <2>3. CASE NextLoop("status", "ack") \/ NextLoop("ack", "command") \/ ConnectAck \/ ConnectCommand
    BY <2>3 DEF NextLoop, ConnectAck, ConnectCommand
  <2>4. CASE StartListener \/ SetConnected \/ ClearErrors
    BY <2>4 DEF StartListener, SetConnected, ClearErrors
  <2> QED
    BY <1>2, <2>1, <2>2, <2>3, <2>4 DEF ConnectThread
<1>3. CASE Listener
  BY <1>3 DEF Listener, ListenerStarts, ListenerTop, ListenerReceives, ListenerHandles,
              ListenerKeeps, connectVars
<1>4. CASE ResponseTimeout \/ TimeoutHandler \/ ReconnectTimer
  BY <1>4 DEF ResponseTimeout, TimeoutHandler, ReconnectTimer, IoKeeps, sessionVars, connectVars
<1>5. CASE Environment
  BY <1>5 DEF Environment, ModuleRegisters, ModuleStatus, ModuleDisconnect, ModuleErases, Queued,
              ModuleKeeps, ServerCommand, ServerBreaks, ServerSends, ChannelLost, sessionVars,
              sentVars, connectVars
<1>6. CASE UNCHANGED vars
  BY <1>6 DEF vars, sessionVars, sentVars, connectVars
<1> QED
  BY <1>1, <1>2, <1>3, <1>4, <1>5, <1>6 DEF Next

LEMMA SessionSteps ==
    ASSUME TypeInv, HandsInv, ThreadInv, EmptyInv, [Next]_vars
    PROVE  Sends \/ SendFails \/ Begins \/ Shrinks
<1>0. TypeOK /\ MessageStep /\ fromServer \in Seq(ServerMessages) /\ MaxStatus \in Nat
  BY MessageSteps, ConnectionAssumption DEF TypeInv, TypeOK
<1>1. ASSUME NEW d \in Devices, NEW n \in 0..MaxStatus, InSession, received' = received, NEW s,
             SendStatus(d, n, s)
      PROVE  Sends
  <2> DEFINE m == [kind |-> "ack", mine |-> TRUE, ctr |-> clientCounter + 1, dev |-> d, n |-> n]
  <2>1. m \in ServerMessages /\ m.ctr = clientCounter + 1 /\ m.dev = d /\ m.n = n
    BY <1>0 DEF TypeOK, ServerMessages
  <2>2. Joins(fromServer, m)
    BY <1>1 DEF SendStatus, Replies, Joins
  <2>3. notAcked' = Append(notAcked, [ctr |-> clientCounter + 1, dev |-> d, n |-> n])
    BY <1>1 DEF SendStatus
  <2>4. [ctr |-> clientCounter + 1, dev |-> d, n |-> n] \in SentStatuses
    BY <1>0 DEF TypeOK, SentStatuses
  <2> HIDE DEF m
  <2>5. clientCounter' = clientCounter + 1
    BY <1>1 DEF SendStatus
  <2> QED
    BY <1>1, <2>1, <2>2, <2>3, <2>4, <2>5 DEF Sends
<1>2. CASE TakeSend \/ TakeSendFails
  <2>1. toExternal \in Seq(Statuses) /\ toExternal # <<>>
    BY <1>0, <1>2 DEF TypeOK, TakeSend, TakeSendFails, Pop
  <2>2. Head(toExternal).dev \in Devices /\ Head(toExternal).n \in 0..MaxStatus
    BY <2>1, FeedOfStatuses
  <2>3. InSession
    BY <1>2 DEF TakeSend, TakeSendFails, InSession
  <2>4. CASE TakeSend
    BY <1>1, <2>2, <2>3, <2>4 DEF TakeSend, listenVars
  <2>5. CASE TakeSendFails
    BY <2>2, <2>3, <2>5 DEF TakeSendFails, SendFails, InSession, Deinitialize, ChannelCloses
  <2> QED
    BY <1>2, <2>4, <2>5
<1>3. CASE SendDevice
  <2>1. reading[1] \in Devices /\ reading[2] \in 0..MaxStatus
    BY <1>0, <1>3, ReadingType DEF SendDevice
  <2>2. InSession
    BY <1>3 DEF SendDevice, SendStatus, InSession, ThreadInv
  <2> QED
    BY <1>1, <1>3, <2>1, <2>2 DEF SendDevice, listenVars
<1>4. CASE SendConnect /\ xpc' = "response"
  <2>1. PICK m \in ServerMessages : Joins(Disowned, m) /\ m.kind # "ack"
    BY <1>4, SendConnectProperties
  <2>2. Disowned \in Seq(ServerMessages) /\ \A i \in 1..Len(Disowned) : ~Disowned[i].mine
    BY <1>0, DisownedProperties
  <2>3. \A k \in 1..Len(fromServer') : ~Ack(fromServer'[k])
    BY <2>1, <2>2, JoinsProperties DEF Ack
  <2>4. notAcked' = <<>>
    BY <1>4 DEF SendConnect, sentVars, EmptyInv, Connecting
  <2>5. received' = <<>>
    BY <1>4 DEF SendConnect, listenVars, ThreadInv, ListenerJoined, HandsInv
  <2> QED
    BY <2>3, <2>4, <2>5 DEF Begins
<1>5. CASE ~(TakeSend \/ SendDevice \/ TakeSendFails) /\ ~(SendConnect /\ xpc' = "response")
  <2>1. /\ InSession' => InSession /\ clientCounter' = clientCounter
        /\ notAcked' = notAcked \/ notAcked' = <<>> \/ \E m : Acknowledge(m)
    BY <1>0, <1>5, SessionPlaces
  <2>a. Len(<<>>) = 0 /\ \A i \in 1..0 : FALSE
    OBVIOUS
  <2>2. \A k \in 1..Len(notAcked') : \E j \in 1..Len(notAcked) : notAcked'[k] = notAcked[j]
    <3>1. CASE notAcked' = notAcked
      BY <3>1
    <3>2. CASE notAcked' = <<>>
      BY <2>a, <3>2
    <3>3. CASE \E m : Acknowledge(m)
      BY <1>0, <3>3, AcknowledgeProperties
    <3> QED
      BY <2>1, <3>1, <3>2, <3>3
  <2>3. /\ \A k \in 1..Len(fromServer') :
              Ack(fromServer'[k]) => \E j \in 1..Len(fromServer) : fromServer'[k] = fromServer[j]
        /\ \A k \in 1..Len(received') :
              \/ \E j \in 1..Len(received) : received'[k] = received[j]
              \/ \E j \in 1..Len(fromServer) : received'[k] = fromServer[j]
    <3>1. CASE fromServer' \in {<<>>, fromServer} /\ received' \in {<<>>, received}
      BY <2>a, <3>1
    <3>2. CASE /\ fromServer # <<>> /\ fromServer' = Tail(fromServer)
               /\ received' = received \/ (lpc = "receive" /\ received' = <<Head(fromServer)>>)
      <4>1. \A k \in 1..Len(fromServer') : k + 1 \in 1..Len(fromServer) /\ fromServer'[k] = fromServer[k + 1]
        BY <3>2, QueuedMessages
      <4>2. \A k \in 1..Len(fromServer') : \E j \in 1..Len(fromServer) : fromServer'[k] = fromServer[j]
        BY <4>1
      <4> DEFINE h == Head(fromServer)
      <4>3. 1 \in 1..Len(fromServer) /\ fromServer[1] = h
        BY <3>2, QueuedMessages
      <4>4. received' = received \/ received' = <<h>>
        BY <3>2
      <4> HIDE DEF h
      <4>5. Len(<<h>>) = 1 /\ <<h>>[1] = h /\ \A i \in 1..1 : i = 1
        OBVIOUS
      <4> QED
        BY <4>2, <4>3, <4>4, <4>5
    <3>3. CASE /\ \E m \in ServerMessages :
                     /\ m.mine /\ Numbered(m) /\ Joins(fromServer, m)
                     /\ m.kind = "ack" => TakeSend \/ SendDevice
               /\ received' = received
      <4>1. PICK m \in ServerMessages : Joins(fromServer, m) /\ m.kind # "ack"
        BY <1>5, <3>3
      <4>2. \A k \in 1..Len(fromServer') :
               fromServer'[k] = m \/ \E j \in 1..Len(fromServer) : fromServer'[k] = fromServer[j]
        BY <1>0, <4>1, JoinsProperties
      <4> QED
        BY <3>3, <4>1, <4>2 DEF Ack
    <3>4. CASE xpc = "connect" /\ xpc' = "response"
      BY <1>5, <3>4, OwnPlaces
    <3> QED
      BY <1>0, <3>1, <3>2, <3>3, <3>4 DEF MessageStep
  <2> QED
    BY <2>1, <2>2, <2>3 DEF Shrinks
<1> QED
  BY <1>2, <1>3, <1>4, <1>5

LEMMA NumberStep ==
    ASSUME TypeInv, FreshInv, MatchInv, Sends \/ SendFails \/ Begins \/ Shrinks
    PROVE  FreshInv' /\ MatchInv'
<1> DEFINE c == clientCounter
<1>0. /\ c \in Nat
      /\ notAcked \in Seq(SentStatuses) /\ fromServer \in Seq(ServerMessages)
      /\ received \in Seq(ServerMessages)
  BY StatusTypeOfTypeOK DEF TypeInv, TypeOK, StatusType
<1>a. /\ \A i \in 1..Len(notAcked) : notAcked[i].ctr \in Nat
      /\ \A i \in 1..Len(fromServer) : fromServer[i].ctr \in Nat
      /\ \A i \in 1..Len(received) : received[i].ctr \in Nat
  <2>1. /\ \A i \in 1..Len(notAcked) : notAcked[i] \in SentStatuses
        /\ \A i \in 1..Len(fromServer) : fromServer[i] \in ServerMessages
        /\ \A i \in 1..Len(received) : received[i] \in ServerMessages
    BY <1>0, ElementOfSeq
  <2>2. (\A x \in SentStatuses : x.ctr \in Nat) /\ (\A x \in ServerMessages : x.ctr \in Nat)
    BY DEF SentStatuses, ServerMessages
  <2> QED
    BY <2>1, <2>2
<1>c. /\ \A x \in Nat : x <= c => x <= c + 1 /\ x # c + 1
      /\ c + 1 <= c + 1
  BY <1>0
<1>b. ASSUME NEW e, e.ctr = c + 1, e \in SentStatuses, notAcked' = Append(notAcked, e)
      PROVE  \A j \in 1..Len(notAcked') :
                notAcked'[j] = e \/ \E i \in 1..Len(notAcked) : notAcked'[j] = notAcked[i]
  <2>1. /\ Len(notAcked) \in Nat /\ Len(notAcked') = Len(notAcked) + 1
        /\ \A i \in 1..Len(notAcked) : notAcked'[i] = notAcked[i]
        /\ notAcked'[Len(notAcked) + 1] = e
    BY <1>0, <1>b, PushProperties
  <2>2. ASSUME NEW j \in 1..Len(notAcked') PROVE j \in 1..Len(notAcked) \/ j = Len(notAcked) + 1
    BY <2>1
  <2> QED
    BY <2>1, <2>2
<1>d. c = clientCounter
  OBVIOUS
<1> HIDE DEF c
<1>1. CASE Sends
  <2>1. PICK m \in ServerMessages :
           /\ Joins(fromServer, m) /\ m.ctr = c + 1
           /\ notAcked' = Append(notAcked, [ctr |-> c + 1, dev |-> m.dev, n |-> m.n])
           /\ [ctr |-> c + 1, dev |-> m.dev, n |-> m.n] \in SentStatuses
    BY <1>1, <1>d DEF Sends
  <2> DEFINE e == [ctr |-> c + 1, dev |-> m.dev, n |-> m.n]
  <2>2. e.ctr = c + 1 /\ e.dev = m.dev /\ e.n = m.n
    OBVIOUS
  <2>3. e \in SentStatuses /\ notAcked' = Append(notAcked, e)
    BY <2>1
  <2> HIDE DEF e
  <2>4. \A j \in 1..Len(notAcked') :
           notAcked'[j] = e \/ \E i \in 1..Len(notAcked) : notAcked'[j] = notAcked[i]
    BY <1>b, <2>2, <2>3
  <2>5. \A k \in 1..Len(fromServer') :
           fromServer'[k] = m \/ \E i \in 1..Len(fromServer) : fromServer'[k] = fromServer[i]
    BY <1>0, <2>1, JoinsProperties
  <2>6. /\ \A i \in 1..Len(fromServer) : Ack(fromServer[i]) => fromServer[i].ctr <= c
        /\ \A i \in 1..Len(received) : Ack(received[i]) => received[i].ctr <= c
        /\ \A i \in 1..Len(notAcked) : notAcked[i].ctr <= c
        /\ clientCounter' = c + 1 /\ received' = received
    BY <1>1, <1>d DEF Sends, FreshInv
  <2>7. FreshInv'
    <3>1. \A k \in 1..Len(fromServer') : Ack(fromServer'[k]) => fromServer'[k].ctr <= c + 1
      <4>1. \A i \in 1..Len(fromServer) : Ack(fromServer[i]) => fromServer[i].ctr <= c + 1
        BY <1>a, <1>c, <2>6
      <4>2. m.ctr <= c + 1
        BY <1>c, <2>1
      <4> QED
        BY <2>5, <4>1, <4>2
    <3>2. \A j \in 1..Len(notAcked') : notAcked'[j].ctr <= c + 1
      BY <1>0, <1>a, <2>2, <2>4, <2>6, SMTT(30)
    <3>3. \A k \in 1..Len(received') : Ack(received'[k]) => received'[k].ctr <= c + 1
      BY <1>a, <1>c, <2>6
    <3> QED
      BY <2>6, <3>1, <3>2, <3>3 DEF FreshInv, Ack
  <2>8. ASSUME NEW j \in 1..Len(notAcked')
        PROVE  /\ \A k \in 1..Len(fromServer') : Answers(fromServer'[k], notAcked'[j])
               /\ \A k \in 1..Len(received') : Answers(received'[k], notAcked'[j])
    <3>1. CASE notAcked'[j] = e
      <4>1. \A i \in 1..Len(fromServer) : Answers(fromServer[i], e)
        BY <1>a, <1>c, <2>2, <2>6 DEF Answers
      <4>2. \A i \in 1..Len(received) : Answers(received[i], e)
        BY <1>a, <1>c, <2>2, <2>6 DEF Answers
      <4>3. Answers(m, e)
        BY <2>2 DEF Answers
      <4> QED
        BY <2>5, <2>6, <3>1, <4>1, <4>2, <4>3
    <3>2. CASE \E i \in 1..Len(notAcked) : notAcked'[j] = notAcked[i]
      <4>1. PICK i \in 1..Len(notAcked) : notAcked'[j] = notAcked[i]
        BY <3>2
      <4>2. Answers(m, notAcked[i])
        BY <1>0, <1>a, <2>1, <2>6 DEF Answers
      <4>3. /\ \A k \in 1..Len(fromServer) : Answers(fromServer[k], notAcked[i])
            /\ \A k \in 1..Len(received) : Answers(received[k], notAcked[i])
        BY DEF MatchInv
      <4> QED
        BY <2>5, <2>6, <4>1, <4>2, <4>3
    <3> QED
      BY <2>4, <3>1, <3>2
  <2> QED
    BY <2>7, <2>8 DEF MatchInv, Answers, Ack
<1>2. CASE SendFails
  <2>1. PICK d \in Devices, n \in 0..MaxStatus :
           notAcked' = Append(notAcked, [ctr |-> c + 1, dev |-> d, n |-> n])
    BY <1>2, <1>d DEF SendFails
  <2> DEFINE e == [ctr |-> c + 1, dev |-> d, n |-> n]
  <2>2. e.ctr = c + 1 /\ e \in SentStatuses /\ notAcked' = Append(notAcked, e)
    BY <1>0, <2>1 DEF SentStatuses
  <2> HIDE DEF e
  <2>3. \A j \in 1..Len(notAcked') :
           notAcked'[j] = e \/ \E i \in 1..Len(notAcked) : notAcked'[j] = notAcked[i]
    BY <1>b, <2>2
  <2>4. /\ \A i \in 1..Len(fromServer) : Ack(fromServer[i]) => fromServer[i].ctr <= c
        /\ \A i \in 1..Len(received) : Ack(received[i]) => received[i].ctr <= c
        /\ fromServer' \in {<<>>, fromServer} /\ received' = received
    BY <1>2, <1>d DEF SendFails, FreshInv
  <2>5. /\ \A i \in 1..Len(fromServer) : Answers(fromServer[i], e)
        /\ \A i \in 1..Len(received) : Answers(received[i], e)
    BY <1>a, <1>c, <2>2, <2>4 DEF Answers
  <2>6. ASSUME NEW j \in 1..Len(notAcked')
        PROVE  /\ \A k \in 1..Len(fromServer) : Answers(fromServer[k], notAcked'[j])
               /\ \A k \in 1..Len(received) : Answers(received[k], notAcked'[j])
    BY <2>3, <2>5 DEF MatchInv
  <2>7. FreshInv'
    BY <1>2, <1>d DEF SendFails, FreshInv
  <2> QED
    BY <2>4, <2>6, <2>7 DEF MatchInv, Answers, Ack
<1>3. CASE Begins
  <2>1. notAcked' = <<>> /\ received' = <<>> /\ \A k \in 1..Len(fromServer') : ~Ack(fromServer'[k])
    BY <1>3 DEF Begins
  <2>2. Len(<<>>) = 0 /\ \A i \in 1..0 : FALSE
    OBVIOUS
  <2> QED
    BY <2>1, <2>2 DEF FreshInv, MatchInv, Ack
<1>4. CASE Shrinks
  <2>1. /\ \A k \in 1..Len(notAcked') : \E j \in 1..Len(notAcked) : notAcked'[k] = notAcked[j]
        /\ \A k \in 1..Len(fromServer') :
              Ack(fromServer'[k]) => \E j \in 1..Len(fromServer) : fromServer'[k] = fromServer[j]
        /\ \A k \in 1..Len(received') :
              \/ \E j \in 1..Len(received) : received'[k] = received[j]
              \/ \E j \in 1..Len(fromServer) : received'[k] = fromServer[j]
    BY <1>4 DEF Shrinks
  <2>2. ASSUME InSession'
        PROVE  /\ \A i \in 1..Len(fromServer') : Ack(fromServer'[i]) => fromServer'[i].ctr <= clientCounter'
               /\ \A i \in 1..Len(received') : Ack(received'[i]) => received'[i].ctr <= clientCounter'
               /\ \A i \in 1..Len(notAcked') : notAcked'[i].ctr <= clientCounter'
    <3>1. InSession /\ clientCounter' = clientCounter
      BY <1>4, <2>2 DEF Shrinks
    <3> QED
      BY <2>1, <3>1 DEF FreshInv
  <2>3. FreshInv'
    BY <2>2 DEF FreshInv, Ack
  <2>4. ASSUME NEW j \in 1..Len(notAcked')
        PROVE  /\ \A k \in 1..Len(fromServer') : Answers(fromServer'[k], notAcked'[j])
               /\ \A k \in 1..Len(received') : Answers(received'[k], notAcked'[j])
    <3>1. PICK i \in 1..Len(notAcked) : notAcked'[j] = notAcked[i]
      BY <2>1
    <3>2. /\ \A k \in 1..Len(fromServer) : Answers(fromServer[k], notAcked[i])
          /\ \A k \in 1..Len(received) : Answers(received[k], notAcked[i])
      BY DEF MatchInv
    <3>3. ASSUME NEW k \in 1..Len(fromServer'), Ack(fromServer'[k])
          PROVE  Answers(fromServer'[k], notAcked[i])
      BY <2>1, <3>2, <3>3
    <3>4. \A k \in 1..Len(fromServer') : Answers(fromServer'[k], notAcked[i])
      BY <3>3 DEF Answers
    <3> QED
      BY <2>1, <3>1, <3>2, <3>4
  <2> QED
    BY <2>3, <2>4 DEF MatchInv, Answers, Ack
<1> QED
  BY <1>1, <1>2, <1>3, <1>4

-----------------------------------------------------------------------------
(* The external client implements StatusDelivery *)

\* No status is twice among the entries of s.
NoneTwice(s) ==
    \A i, j \in 1..Len(s) :
        s[i].dev = s[j].dev /\ s[i].n = s[j].n /\ s[i].n # 0 => i = j

\* The status of one entry.
StatusOf(e) == IF e.n = 0 THEN {} ELSE {<<e.dev, e.n>>}

LEMMA StatusesOfMember ==
    ASSUME NEW s
    PROVE  /\ \A p : p \in StatusesOf(s) <=> \E i \in 1..Len(s) : p \in StatusOf(s[i])
           /\ StatusesOf(<<>>) = {}
           /\ \A e : StatusesOf(<<e>>) = StatusOf(e)
<1>1. \A q : \A p : p \in StatusesOf(q) <=> \E i \in 1..Len(q) : p \in StatusOf(q[i])
  BY DEF StatusesOf, StatusOf
<1>2. Len(<<>>) = 0 /\ 1..0 = {}
  OBVIOUS
<1>3. ASSUME NEW e PROVE StatusesOf(<<e>>) = StatusOf(e)
  <2>1. Len(<<e>>) = 1 /\ <<e>>[1] = e /\ 1 \in 1..1 /\ \A i \in 1..1 : i = 1
    OBVIOUS
  <2> QED
    BY <1>1, <2>1
<1> QED
  BY <1>1, <1>2, <1>3

\* One list after another: the statuses of both.
LEMMA StatusesOfTwo ==
    ASSUME NEW S, NEW a \in Seq(S), NEW b \in Seq(S)
    PROVE  StatusesOf(a \o b) = StatusesOf(a) \cup StatusesOf(b)
<1> DEFINE r == a \o b
<1>1. /\ Len(a) \in Nat /\ Len(b) \in Nat /\ Len(r) = Len(a) + Len(b)
      /\ \A i \in 1..(Len(a) + Len(b)) : r[i] = IF i <= Len(a) THEN a[i] ELSE b[i - Len(a)]
  BY ConcatProperties, LenProperties
<1> HIDE DEF r
<1>2. ASSUME NEW i \in 1..Len(r)
      PROVE  (\E k \in 1..Len(a) : r[i] = a[k]) \/ (\E k \in 1..Len(b) : r[i] = b[k])
  <2>1. CASE i <= Len(a)
    BY <1>1, <2>1
  <2>2. CASE ~(i <= Len(a))
    <3>1. i - Len(a) \in 1..Len(b)
      BY <1>1, <2>2
    <3> QED
      BY <1>1, <2>2, <3>1
  <2> QED
    BY <2>1, <2>2
<1>3. ASSUME NEW k \in 1..Len(a) PROVE \E i \in 1..Len(r) : r[i] = a[k]
  <2>1. k \in 1..Len(r) /\ r[k] = a[k]
    BY <1>1
  <2> QED
    BY <2>1
<1>4. ASSUME NEW k \in 1..Len(b) PROVE \E i \in 1..Len(r) : r[i] = b[k]
  <2>1. Len(a) + k \in 1..Len(r) /\ ~(Len(a) + k <= Len(a)) /\ (Len(a) + k) - Len(a) = k
    BY <1>1
  <2>2. r[Len(a) + k] = b[k]
    BY <1>1, <2>1
  <2> QED
    BY <2>1, <2>2
<1>5. ASSUME NEW p PROVE p \in StatusesOf(r) <=> p \in StatusesOf(a) \cup StatusesOf(b)
  <2>1. ASSUME p \in StatusesOf(r) PROVE p \in StatusesOf(a) \cup StatusesOf(b)
    <3>1. PICK i \in 1..Len(r) : p \in StatusOf(r[i])
      BY <2>1, StatusesOfMember
    <3>2. CASE \E k \in 1..Len(a) : r[i] = a[k]
      BY <3>1, <3>2, StatusesOfMember
    <3>3. CASE \E k \in 1..Len(b) : r[i] = b[k]
      BY <3>1, <3>3, StatusesOfMember
    <3> QED
      BY <1>2, <3>2, <3>3
  <2>2. ASSUME p \in StatusesOf(a) PROVE p \in StatusesOf(r)
    <3>1. PICK k \in 1..Len(a) : p \in StatusOf(a[k])
      BY <2>2, StatusesOfMember
    <3>2. PICK i \in 1..Len(r) : r[i] = a[k]
      BY <1>3
    <3> QED
      BY <3>1, <3>2, StatusesOfMember
  <2>3. ASSUME p \in StatusesOf(b) PROVE p \in StatusesOf(r)
    <3>1. PICK k \in 1..Len(b) : p \in StatusOf(b[k])
      BY <2>3, StatusesOfMember
    <3>2. PICK i \in 1..Len(r) : r[i] = b[k]
      BY <1>4
    <3> QED
      BY <3>1, <3>2, StatusesOfMember
  <2> QED
    BY <2>1, <2>2, <2>3
<1> QED
  BY <1>5 DEF r

\* What is pushed joins the statuses of the queue, and is none twice if it is new.
LEMMA StatusesOfPush ==
    ASSUME NEW S, NEW q \in Seq(S), NEW e \in S
    PROVE  /\ StatusesOf(Append(q, e)) = StatusesOf(q) \cup StatusOf(e)
           /\ NoneTwice(q) /\ StatusOf(e) \cap StatusesOf(q) = {} => NoneTwice(Append(q, e))
<1> DEFINE r == Append(q, e)
<1>1. /\ Len(q) \in Nat /\ Len(r) = Len(q) + 1
      /\ \A i \in 1..Len(q) : r[i] = q[i]
      /\ r[Len(q) + 1] = e
  BY PushProperties
<1>2. q \o <<e>> = r /\ <<e>> \in Seq(S)
  BY PushIsConcat
<1>3. StatusesOf(r) = StatusesOf(q) \cup StatusOf(e)
  <2>1. StatusesOf(q \o <<e>>) = StatusesOf(q) \cup StatusesOf(<<e>>)
    BY <1>2, StatusesOfTwo
  <2> QED
    BY <1>2, <2>1, StatusesOfMember
<1> HIDE DEF r
<1>4. ASSUME NoneTwice(q), StatusOf(e) \cap StatusesOf(q) = {} PROVE NoneTwice(r)
  <2> SUFFICES ASSUME NEW i \in 1..Len(r), NEW j \in 1..Len(r),
                      r[i].dev = r[j].dev, r[i].n = r[j].n, r[i].n # 0
               PROVE  i = j
    BY DEF NoneTwice
  <2>1. ASSUME NEW k \in 1..Len(q), q[k].dev = e.dev, q[k].n = e.n, e.n # 0 PROVE FALSE
    <3>1. <<e.dev, e.n>> \in StatusOf(e) /\ <<e.dev, e.n>> \in StatusOf(q[k])
      BY <2>1 DEF StatusOf
    <3>2. <<e.dev, e.n>> \in StatusesOf(q)
      BY <3>1, StatusesOfMember
    <3> QED
      BY <1>4, <3>1, <3>2
  <2>2. CASE i \in 1..Len(q) /\ j \in 1..Len(q)
    BY <1>1, <1>4, <2>2 DEF NoneTwice
  <2>3. CASE i \in 1..Len(q) /\ j = Len(q) + 1
    BY <1>1, <2>1, <2>3
  <2>4. CASE i = Len(q) + 1 /\ j \in 1..Len(q)
    BY <1>1, <2>1, <2>4
  <2> QED
    BY <1>1, <2>2, <2>3, <2>4
<1> QED
  BY <1>3, <1>4 DEF r

\* r is q without its i-th entry.
Without(r, q, i) ==
    /\ i \in 1..Len(q) /\ Len(q) \in Nat
    /\ Len(r) = Len(q) - 1
    /\ \A k \in 1..(Len(q) - 1) : r[k] = IF k < i THEN q[k] ELSE q[k + 1]

\* One entry less is one status less.
LEMMA StatusesOfWithout ==
    ASSUME NEW q, NEW r, NEW i, Without(r, q, i)
    PROVE  /\ StatusesOf(q) = StatusesOf(r) \cup StatusOf(q[i])
           /\ NoneTwice(q) => NoneTwice(r) /\ StatusesOf(r) = StatusesOf(q) \ StatusOf(q[i])
<1>1. /\ i \in 1..Len(q) /\ Len(q) \in Nat /\ Len(r) = Len(q) - 1
      /\ \A k \in 1..(Len(q) - 1) : r[k] = IF k < i THEN q[k] ELSE q[k + 1]
  BY DEF Without
<1> DEFINE at(k) == IF k < i THEN k ELSE k + 1
<1>2. ASSUME NEW k \in 1..Len(r) PROVE at(k) \in 1..Len(q) /\ at(k) # i /\ r[k] = q[at(k)]
  BY <1>1
<1>3. ASSUME NEW j \in 1..Len(q), j # i PROVE \E k \in 1..Len(r) : r[k] = q[j]
  <2>1. CASE j < i
    BY <1>1, <2>1
  <2>2. CASE ~(j < i)
    <3>1. j - 1 \in 1..(Len(q) - 1) /\ ~(j - 1 < i) /\ (j - 1) + 1 = j
      BY <1>1, <1>3, <2>2
    <3>2. r[j - 1] = q[j]
      BY <1>1, <3>1
    <3> QED
      BY <1>1, <3>1, <3>2
  <2> QED
    BY <2>1, <2>2
<1>4. \A k, l \in 1..Len(r) : at(k) = at(l) => k = l
  BY <1>1
<1> HIDE DEF at
<1>5. ASSUME NEW p PROVE p \in StatusesOf(q) <=> p \in StatusesOf(r) \cup StatusOf(q[i])
  <2>1. ASSUME p \in StatusesOf(q) PROVE p \in StatusesOf(r) \cup StatusOf(q[i])
    <3>1. PICK j \in 1..Len(q) : p \in StatusOf(q[j])
      BY <2>1, StatusesOfMember
    <3>2. CASE j = i
      BY <3>1, <3>2
    <3>3. CASE j # i
      <4>1. PICK k \in 1..Len(r) : r[k] = q[j]
        BY <1>3, <3>3
      <4> QED
        BY <3>1, <4>1, StatusesOfMember
    <3> QED
      BY <3>2, <3>3
  <2>2. ASSUME p \in StatusesOf(r) PROVE p \in StatusesOf(q)
    <3>1. PICK k \in 1..Len(r) : p \in StatusOf(r[k])
      BY <2>2, StatusesOfMember
    <3> QED
      BY <1>2, <3>1, StatusesOfMember
  <2>3. ASSUME p \in StatusOf(q[i]) PROVE p \in StatusesOf(q)
    BY <1>1, <2>3, StatusesOfMember
  <2> QED
    BY <2>1, <2>2, <2>3
<1>6. ASSUME NoneTwice(q) PROVE NoneTwice(r)
  <2> SUFFICES ASSUME NEW k \in 1..Len(r), NEW l \in 1..Len(r),
                      r[k].dev = r[l].dev, r[k].n = r[l].n, r[k].n # 0
               PROVE  k = l
    BY DEF NoneTwice
  <2>1. at(k) = at(l)
    BY <1>2, <1>6 DEF NoneTwice
  <2> QED
    BY <1>4, <2>1
<1>7. ASSUME NoneTwice(q), NEW p, p \in StatusesOf(r), p \in StatusOf(q[i]) PROVE FALSE
  <2>1. PICK k \in 1..Len(r) : p \in StatusOf(r[k])
    BY <1>7, StatusesOfMember
  <2>2. p = <<r[k].dev, r[k].n>> /\ p = <<q[i].dev, q[i].n>> /\ q[i].n # 0
    BY <1>7, <2>1 DEF StatusOf
  <2>3. r[k].dev = q[i].dev /\ r[k].n = q[i].n
    BY <2>2
  <2> QED
    BY <1>1, <1>2, <1>7, <2>2, <2>3 DEF NoneTwice
<1> QED
  BY <1>5, <1>6, <1>7

\* The front of the queue is one entry less.
LEMMA StatusesOfPop ==
    ASSUME NEW S, NEW q \in Seq(S), q # <<>>
    PROVE  /\ Without(Tail(q), q, 1) /\ Head(q) = q[1]
           /\ StatusesOf(q) = StatusesOf(Tail(q)) \cup StatusOf(Head(q))
           /\ NoneTwice(q) => /\ NoneTwice(Tail(q))
                              /\ StatusesOf(Tail(q)) = StatusesOf(q) \ StatusOf(Head(q))
<1>1. /\ Head(q) = q[1] /\ Len(q) \in Nat \ {0} /\ Len(Tail(q)) = Len(q) - 1
      /\ \A i \in 1..Len(Tail(q)) : Tail(q)[i] = q[i + 1]
  BY PopProperties
<1> DEFINE r == Tail(q)
<1> HIDE DEF r
<1>2. Without(r, q, 1)
  BY <1>1 DEF Without, r
<1>3. /\ StatusesOf(q) = StatusesOf(r) \cup StatusOf(q[1])
      /\ NoneTwice(q) => NoneTwice(r) /\ StatusesOf(r) = StatusesOf(q) \ StatusOf(q[1])
  BY <1>2, StatusesOfWithout
<1> QED
  BY <1>1, <1>2, <1>3 DEF r

\* What add_status_to_error_aggregator keeps: the statuses it is given, no others; and the last
\* status of a device is among them.
LEMMA AggregatorStatuses ==
    ASSUME TypeOK, NEW s, Feed(s), AddToAggregator(s)
    PROVE  /\ StatusesIn(error') = StatusesIn(error) \cup StatusesOf(s)
           /\ \A d \in Devices : error[d] \subseteq error'[d]
           /\ (\A d \in Devices : lastStatus[d] \in {0} \cup error[d])
                => \A d \in Devices : lastStatus'[d] \in {0} \cup error'[d]
<1> DEFINE of(d) == {i \in 1..Len(s) : s[i].dev = d}
           last(d) == CHOOSE i \in of(d) : \A j \in of(d) : j <= i
<1>1. /\ lastStatus' = [d \in Devices |-> IF of(d) = {} THEN lastStatus[d] ELSE s[last(d)].n]
      /\ error' = [d \in Devices |-> error[d] \cup {s[i].n : i \in of(d)}]
  BY DEF AddToAggregator
<1>2. \A d \in Devices : error'[d] = error[d] \cup {s[i].n : i \in of(d)}
  BY <1>1
<1>3. ASSUME NEW p PROVE p \in StatusesIn(error') <=> p \in StatusesIn(error) \cup StatusesOf(s)
  <2>1. ASSUME p \in StatusesIn(error') PROVE p \in StatusesIn(error) \cup StatusesOf(s)
    <3>1. p \in Devices \X (1..MaxStatus) /\ p[2] \in error'[p[1]]
      BY <2>1 DEF StatusesIn
    <3>2. CASE p[2] \in error[p[1]]
      BY <3>1, <3>2 DEF StatusesIn
    <3>3. CASE p[2] \notin error[p[1]]
      <4>1. PICK i \in 1..Len(s) : s[i].dev = p[1] /\ s[i].n = p[2]
        BY <1>2, <3>1, <3>3
      <4>2. s[i].n # 0 /\ p = <<s[i].dev, s[i].n>>
        BY <3>1, <4>1
      <4> QED
        BY <4>2 DEF StatusesOf
    <3> QED
      BY <3>2, <3>3
  <2>2. ASSUME p \in StatusesIn(error) PROVE p \in StatusesIn(error')
    BY <1>2, <2>2 DEF StatusesIn
  <2>3. ASSUME p \in StatusesOf(s) PROVE p \in StatusesIn(error')
    <3>1. PICK i \in 1..Len(s) : s[i].n # 0 /\ p = <<s[i].dev, s[i].n>>
      BY <2>3 DEF StatusesOf
    <3>2. s[i].dev \in Devices /\ s[i].n \in 1..MaxStatus
      BY <3>1 DEF Feed
    <3>3. s[i].n \in error'[s[i].dev]
      BY <1>2, <3>2
    <3> QED
      BY <3>1, <3>2, <3>3 DEF StatusesIn
  <2> QED
    BY <2>1, <2>2, <2>3
<1>4. ASSUME \A d \in Devices : lastStatus[d] \in {0} \cup error[d], NEW d \in Devices
      PROVE  lastStatus'[d] \in {0} \cup error'[d]
  <2>1. CASE of(d) = {}
    BY <1>1, <1>2, <1>4, <2>1
  <2>2. CASE of(d) # {}
    <3>1. of(d) \in SUBSET (0..Len(s)) /\ Len(s) \in Nat
      BY DEF Feed
    <3>2. \E i \in of(d) : \A j \in of(d) : j <= i
      BY <2>2, <3>1, LargestIndex
    <3>3. last(d) \in of(d)
      BY <3>2
    <3>4. lastStatus'[d] = s[last(d)].n
      BY <1>1, <2>2
    <3> HIDE DEF last
    <3> QED
      BY <1>2, <3>3, <3>4
  <2> QED
    BY <2>1, <2>2
<1> QED
  BY <1>2, <1>3, <1>4

\* What connectMessageHandle, statusMessageHandle and the error aggregator rely on: the last
\* status of a device is kept as long as it is there to be announced, and nothing a connect
\* sequence is still to announce waits for a response already.
AnnounceInv ==
    /\ \A d \in Devices : lastStatus[d] \in {0} \cup error[d]
    /\ xpc = "send" => reading[2] \in {0} \cup error[reading[1]]
    /\ xpc \in {"status", "send"} => \A i \in 1..Len(notAcked) : notAcked[i].dev \notin todo

\* Every status is at one place of the queue, and at one of the sent messages.
QueueInv ==
    /\ NoneTwice(toExternal) /\ NoneTwice(notAcked)
    /\ StatusesOf(toExternal) \cap StatusesOf(inHand) = {}

\* How the connect thread comes to announce a status.
LEMMA AnnouncePlaces ==
    ASSUME ThreadInv, [Next]_vars
    PROVE  /\ xpc' \in {"status", "send"} =>
                 \/ xpc \in {"status", "send"} /\ todo' \subseteq todo
                 \/ xpc = "response" /\ notAcked' = notAcked
           /\ xpc' = "send" =>
                 \/ xpc = "send" /\ reading' = reading
                 \/ error' = error /\ \E d \in Devices : reading' = <<d, lastStatus[d]>>
<1>1. CASE ClientThread
  <2> USE DEF connectVars, ThreadInv
  <2>1. CASE ServeReconnect \/ NoReconnect \/ TakeNothing \/ TakeUnconnected \/ TakeSend \/ TakeSendFails
    BY <2>1 DEF ServeReconnect, NoReconnect, TakeNothing, TakeUnconnected, TakeSend,
                TakeSendFails, Goto
  <2>2. CASE JoinListener \/ Collect \/ DrainTake \/ DrainFill \/ DrainDone
    BY <2>2 DEF JoinListener, Collect, DrainTake, DrainFill, DrainDone, Goto
  <2>3. CASE ListDevices \/ ForceAggregation \/ AwaitForced \/ StartConnect \/ JoinConnect
    BY <2>3 DEF ListDevices, ForceAggregation, AwaitForced, StartConnect, JoinConnect
  <2> QED
    BY <1>1, <2>1, <2>2, <2>3 DEF ClientThread
<1>2. CASE ConnectThread
  <2>1. CASE InitChannel \/ SendConnect \/ StartListener \/ SetConnected \/ ClearErrors
             \/ ConnectAck \/ ConnectCommand \/ NextLoop("status", "ack") \/ NextLoop("ack", "command")
    BY <2>1 DEF InitChannel, SendConnect, StartListener, SetConnected, ClearErrors, ConnectAck,
                ConnectCommand, NextLoop, ConnectFails
  <2>2. CASE ConnectResponse
    BY <2>2 DEF ConnectResponse, ConnectFails, sentVars
  <2>3. CASE \E d \in Devices : ReadDevice(d)
    BY <2>3 DEF ReadDevice, ConnectFails, errorVars
  <2>4. CASE SendDevice \/ SendDeviceFails
    BY <2>4 DEF SendDevice, SendDeviceFails
  <2> QED
    BY <1>2, <2>1, <2>2, <2>3, <2>4 DEF ConnectThread
<1>3. CASE Listener
  BY <1>3 DEF Listener, ListenerStarts, ListenerTop, ListenerReceives, ListenerHandles,
              ListenerKeeps, connectVars
<1>4. CASE ResponseTimeout \/ TimeoutHandler \/ ReconnectTimer
  BY <1>4 DEF ResponseTimeout, TimeoutHandler, ReconnectTimer, IoKeeps, connectVars
<1>5. CASE Environment
  BY <1>5 DEF Environment, ModuleRegisters, ModuleStatus, ModuleDisconnect, ModuleErases, Queued,
              ModuleKeeps, ServerCommand, ServerBreaks, ServerSends, ChannelLost, connectVars
<1>6. CASE UNCHANGED vars
  BY <1>6 DEF vars, connectVars
<1> QED
  BY <1>1, <1>2, <1>3, <1>4, <1>5, <1>6 DEF Next

\* fillErrorAggregator: what waits for a response and what is given are kept, nothing else is.
LEMMA FillStatuses ==
    ASSUME TypeOK, NEW S, NEW more \in Seq(S), Feed(more), AddToAggregator(notAcked \o more)
    PROVE  /\ StatusesIn(error') =
                 StatusesIn(error) \cup StatusesOf(notAcked) \cup StatusesOf(more)
           /\ \A d \in Devices : error[d] \subseteq error'[d]
           /\ (\A d \in Devices : lastStatus[d] \in {0} \cup error[d])
                => \A d \in Devices : lastStatus'[d] \in {0} \cup error'[d]
<1> DEFINE T == SentStatuses \cup S
           r == notAcked \o more
<1>1. notAcked \in Seq(T) /\ more \in Seq(T)
  <2>1. notAcked \in Seq(SentStatuses)
    BY DEF TypeOK, SentStatuses
  <2>2. \A X, Y : \A q \in Seq(X) : X \subseteq Y => q \in Seq(Y)
    OBVIOUS
  <2>3. SentStatuses \subseteq T /\ S \subseteq T
    OBVIOUS
  <2> QED
    BY <2>1, <2>2, <2>3
<1> HIDE DEF T
<1>2. StatusesOf(r) = StatusesOf(notAcked) \cup StatusesOf(more)
  BY <1>1, StatusesOfTwo
<1>3. Feed(r) /\ AddToAggregator(r)
  BY FeedOfTwo
<1> HIDE DEF r
<1>4. /\ StatusesIn(error') = StatusesIn(error) \cup StatusesOf(r)
      /\ \A d \in Devices : error[d] \subseteq error'[d]
      /\ (\A d \in Devices : lastStatus[d] \in {0} \cup error[d])
           => \A d \in Devices : lastStatus'[d] \in {0} \cup error'[d]
  BY <1>3, AggregatorStatuses
<1> QED
  BY <1>2, <1>4

\* sendStatus: the status joins those that wait for a response, and may be kept as well.
LEMMA EntersStatuses ==
    ASSUME TypeOK, NEW d \in Devices, NEW n \in 0..MaxStatus, Enters(d, n)
    PROVE  /\ StatusesOf(notAcked') = StatusesOf(notAcked) \cup StatusOf([dev |-> d, n |-> n])
           /\ NoneTwice(notAcked) /\ StatusOf([dev |-> d, n |-> n]) \cap StatusesOf(notAcked) = {}
                => NoneTwice(notAcked')
           /\ \/ StatusesIn(error') = StatusesIn(error)
              \/ StatusesIn(error') = StatusesIn(error) \cup StatusOf([dev |-> d, n |-> n])
           /\ \A x \in Devices : error[x] \subseteq error'[x]
           /\ (\A x \in Devices : lastStatus[x] \in {0} \cup error[x])
                => \A x \in Devices : lastStatus'[x] \in {0} \cup error'[x]
<1> DEFINE e == [ctr |-> clientCounter + 1, dev |-> d, n |-> n]
           s == [dev |-> d, n |-> n]
<1>1. notAcked \in Seq(SentStatuses) /\ e \in SentStatuses /\ notAcked' = Append(notAcked, e)
  BY DEF TypeOK, SentStatuses, Enters
<1>2. StatusOf(e) = StatusOf(s)
  BY DEF StatusOf
<1> HIDE DEF e
<1>3. /\ StatusesOf(notAcked') = StatusesOf(notAcked) \cup StatusOf(e)
      /\ NoneTwice(notAcked) /\ StatusOf(e) \cap StatusesOf(notAcked) = {} => NoneTwice(notAcked')
  BY <1>1, StatusesOfPush
<1>4. /\ \/ StatusesIn(error') = StatusesIn(error)
         \/ StatusesIn(error') = StatusesIn(error) \cup StatusOf(s)
      /\ \A x \in Devices : error[x] \subseteq error'[x]
      /\ (\A x \in Devices : lastStatus[x] \in {0} \cup error[x])
           => \A x \in Devices : lastStatus'[x] \in {0} \cup error'[x]
  <2>1. CASE UNCHANGED <<registered, lastStatus, error>>
    BY <2>1
  <2>2. CASE \E m : m.dev = d /\ m.n = n /\ AddToAggregator(<<m>>)
    <3>1. PICK m : m.dev = d /\ m.n = n /\ AddToAggregator(<<m>>)
      BY <2>2
    <3>2. Len(<<m>>) = 1 /\ <<m>>[1] = m /\ \A i \in 1..1 : i = 1
      OBVIOUS
    <3>3. Feed(<<m>>)
      BY <3>1, <3>2 DEF Feed
    <3>4. StatusesOf(<<m>>) = StatusOf(s)
      BY <3>1, StatusesOfMember DEF StatusOf
    <3> HIDE DEF s
    <3> QED
      BY <3>1, <3>3, <3>4, AggregatorStatuses
  <2> QED
    BY <2>1, <2>2 DEF Enters
<1> QED
  BY <1>2, <1>3, <1>4

\* acknowledgeStatus: the status of one entry, if it is one, is settled and waits no more.
LEMMA AcknowledgeStatuses ==
    ASSUME TypeOK, NoneTwice(notAcked), NEW m, Acknowledge(m)
    PROVE  /\ NoneTwice(notAcked')
           /\ \A k \in 1..Len(notAcked') : \E j \in 1..Len(notAcked) : notAcked'[k] = notAcked[j]
           /\ \/ notAcked' = notAcked /\ settled' = settled
              \/ \E s : /\ s \subseteq StatusesOf(notAcked)
                        /\ s = {} \/ \E p : s = {p}
                        /\ StatusesOf(notAcked') = StatusesOf(notAcked) \ s
                        /\ StatusesIn(settled') = StatusesIn(settled) \cup s
<1>0. /\ notAcked \in Seq(SentStatuses) /\ Len(notAcked) \in Nat
      /\ settled \in [Devices -> SUBSET (0..MaxStatus)]
  <2>1. notAcked \in Seq(SentStatuses)
    BY DEF TypeOK, SentStatuses
  <2> QED
    BY <2>1, LenProperties DEF TypeOK
<1>1. CASE WithCounter(m.ctr) = {}
  <2>1. notAcked' = notAcked /\ settled' = settled
    BY <1>1 DEF Acknowledge
  <2> QED
    BY <1>0, <2>1
<1>2. CASE WithCounter(m.ctr) # {}
  <2> DEFINE i == CHOOSE i \in WithCounter(m.ctr) : \A j \in WithCounter(m.ctr) : i <= j
             r == RemoveAt(notAcked, i)
             e == notAcked[i]
  <2>1. i \in 1..Len(notAcked)
    <3>1. WithCounter(m.ctr) \in SUBSET Nat
      BY <1>0 DEF WithCounter
    <3>2. \E x \in WithCounter(m.ctr) : \A j \in WithCounter(m.ctr) : x <= j
      BY <1>2, <3>1, SmallestIndex
    <3>3. i \in WithCounter(m.ctr)
      BY <3>2
    <3> QED
      BY <3>3 DEF WithCounter
  <2>2. notAcked' = r /\ settled' = [settled EXCEPT ![e.dev] = @ \cup {e.n}]
    BY <1>2 DEF Acknowledge
  <2> HIDE DEF i
  <2>3. e.dev \in Devices /\ e.n \in 0..MaxStatus
    <3>1. e \in SentStatuses
      BY <1>0, <2>1, ElementOfSeq
    <3> QED
      BY <3>1 DEF SentStatuses
  <2>4. Without(r, notAcked, i)
    BY <1>0, <2>1, EraseProperties DEF Without
  <2> HIDE DEF r
  <2>5. /\ StatusesOf(notAcked) = StatusesOf(r) \cup StatusOf(e)
        /\ NoneTwice(r) /\ StatusesOf(r) = StatusesOf(notAcked) \ StatusOf(e)
    BY <2>4, StatusesOfWithout
  <2>6. \A k \in 1..Len(r) : \E j \in 1..Len(notAcked) : r[k] = notAcked[j]
    <3> SUFFICES ASSUME NEW k \in 1..Len(r) PROVE \E j \in 1..Len(notAcked) : r[k] = notAcked[j]
      OBVIOUS
    <3>1. k \in 1..Len(notAcked) /\ k + 1 \in 1..Len(notAcked) /\ k \in 1..(Len(notAcked) - 1)
      BY <1>0, <2>4 DEF Without
    <3> QED
      BY <2>4, <3>1 DEF Without
  <2> HIDE DEF e
  <2>7. StatusesIn(settled') = StatusesIn(settled) \cup StatusOf(e)
    <3>1. \A d \in Devices : settled'[d] = settled[d] \cup (IF d = e.dev THEN {e.n} ELSE {})
      BY <1>0, <2>2, <2>3
    <3>2. ASSUME NEW p PROVE p \in StatusesIn(settled') <=> p \in StatusesIn(settled) \cup StatusOf(e)
      <4>1. ASSUME p \in StatusesIn(settled') PROVE p \in StatusesIn(settled) \cup StatusOf(e)
        <5>1. /\ p \in Devices \X (1..MaxStatus)
              /\ p[2] \in settled[p[1]] \/ (p[1] = e.dev /\ p[2] = e.n)
          BY <3>1, <4>1 DEF StatusesIn
        <5>2. ASSUME p[1] = e.dev, p[2] = e.n PROVE p \in StatusOf(e)
          BY <5>1, <5>2 DEF StatusOf
        <5> QED
          BY <5>1, <5>2 DEF StatusesIn
      <4>2. ASSUME p \in StatusesIn(settled) PROVE p \in StatusesIn(settled')
        BY <3>1, <4>2 DEF StatusesIn
      <4>3. ASSUME p \in StatusOf(e) PROVE p \in StatusesIn(settled')
        <5>1. p = <<e.dev, e.n>> /\ e.n \in 1..MaxStatus
          BY <2>3, <4>3 DEF StatusOf
        <5> QED
          BY <2>3, <3>1, <5>1 DEF StatusesIn
      <4> QED
        BY <4>1, <4>2, <4>3
    <3> QED
      BY <3>2
  <2>8. StatusOf(e) = {} \/ \E p : StatusOf(e) = {p}
    BY DEF StatusOf
  <2> QED
    BY <2>2, <2>5, <2>6, <2>7, <2>8
<1> QED
  BY <1>1, <1>2

\* Every step keeps what is there to be announced, but for the one that clears the aggregator.
LEMMA ErrorStep ==
    ASSUME TypeOK, HandsInv, StatusStep, \A d \in Devices : lastStatus[d] \in {0} \cup error[d]
    PROVE  /\ \A d \in Devices : lastStatus'[d] \in {0} \cup error'[d]
           /\ Clears \/ \A d \in Devices : error[d] \subseteq error'[d]
<1>0. StatusType
  BY StatusTypeOfTypeOK
<1>1. CASE UNCHANGED <<lastStatus, error>>
  BY <1>1
<1>2. CASE TakesAndFills
  <2>1. /\ <<Head(toExternal)>> \in Seq(Statuses) /\ Feed(<<Head(toExternal)>>)
        /\ AddToAggregator(notAcked \o <<Head(toExternal)>>)
    BY <1>0, <1>2, FeedOfStatuses DEF TakesAndFills, StatusType, FillErrorAggregator
  <2> QED
    BY <2>1, FillStatuses
<1>3. CASE Fills
  <2>0. <<>> \in Seq(Statuses) /\ inHand \in Seq(Statuses)
    BY <1>0 DEF StatusType
  <2>1. Feed(<<>>) /\ Feed(inHand)
    BY <2>0, FeedOfStatuses
  <2>2. AddToAggregator(notAcked \o <<>>) \/ AddToAggregator(notAcked \o inHand)
    BY <1>3 DEF Fills, FillErrorAggregator
  <2> QED
    BY <2>0, <2>1, <2>2, FillStatuses
<1>4. CASE TakesAndSends
  <2>1. /\ Head(toExternal).dev \in Devices /\ Head(toExternal).n \in 0..MaxStatus
        /\ Enters(Head(toExternal).dev, Head(toExternal).n)
    BY <1>0, <1>4, FeedOfStatuses DEF TakesAndSends, StatusType
  <2> QED
    BY <2>1, EntersStatuses
<1>5. CASE Announces
  <2>1. /\ reading[1] \in Devices /\ reading[2] \in 0..MaxStatus
        /\ <<[dev |-> reading[1], n |-> reading[2]]>> \in Seq([dev : Devices, n : 0..MaxStatus])
        /\ Feed(<<[dev |-> reading[1], n |-> reading[2]]>>)
    BY <1>5, ReadingType DEF Announces
  <2>2. \/ Enters(reading[1], reading[2])
        \/ AddToAggregator(notAcked \o <<[dev |-> reading[1], n |-> reading[2]]>>)
    BY <1>5 DEF Announces
  <2> QED
    BY <2>1, <2>2, EntersStatuses, FillStatuses
<1>6. CASE Clears
  BY <1>6 DEF Clears
<1>7. CASE UNCHANGED statusVars \/ TakesInHand \/ PutsBack \/ Acknowledges \/ \E d \in Devices : Queues(d)
  BY <1>1, <1>7 DEF statusVars, TakesInHand, PutsBack, Acknowledges, Queues
<1> QED
  BY <1>2, <1>3, <1>4, <1>5, <1>6, <1>7 DEF StatusStep

LEMMA AnnounceStep ==
    ASSUME TypeOK, HandsInv, ThreadInv, EmptyInv, AnnounceInv, [Next]_vars
    PROVE  AnnounceInv'
<1>0. StatusStep
  BY StatusSteps
<1>1. /\ \A d \in Devices : lastStatus'[d] \in {0} \cup error'[d]
      /\ Clears \/ \A d \in Devices : error[d] \subseteq error'[d]
  BY <1>0, ErrorStep DEF AnnounceInv
<1>2. ASSUME xpc' = "send" PROVE reading'[2] \in {0} \cup error'[reading'[1]]
  <2>1. CASE xpc = "send" /\ reading' = reading
    <3>1. ~Clears
      BY <1>2 DEF Clears
    <3>2. reading[1] \in Devices
      BY <2>1, ReadingType
    <3> QED
      BY <1>1, <2>1, <3>1, <3>2 DEF AnnounceInv
  <2>2. CASE error' = error /\ \E d \in Devices : reading' = <<d, lastStatus[d]>>
    <3>1. PICK d \in Devices : reading' = <<d, lastStatus[d]>>
      BY <2>2
    <3>2. reading'[1] = d /\ reading'[2] = lastStatus[d]
      BY <3>1
    <3> QED
      BY <2>2, <3>2 DEF AnnounceInv
  <2> QED
    BY <1>2, <2>1, <2>2, AnnouncePlaces
<1>3. ASSUME xpc' \in {"status", "send"}, NEW i \in 1..Len(notAcked')
      PROVE  notAcked'[i].dev \notin todo'
  <2>1. CASE notAcked' = <<>>
    BY <1>3, <2>1
  <2>2. CASE xpc = "response" /\ notAcked' = notAcked
    BY <1>3, <2>2 DEF EmptyInv, Connecting
  <2>3. CASE xpc \in {"status", "send"} /\ todo' \subseteq todo
    <3>1. \A j \in 1..Len(notAcked) : notAcked[j].dev \notin todo'
      BY <2>3 DEF AnnounceInv
    <3>2. CASE notAcked' = notAcked
      BY <1>3, <3>1, <3>2
    <3>3. CASE Acknowledges
      BY <1>3, <3>1, <3>3, AcknowledgeProperties DEF Acknowledges
    <3>4. CASE TakesAndSends
      BY <2>3, <3>4 DEF TakesAndSends, ThreadInv
    <3>5. CASE Announces /\ Enters(reading[1], reading[2])
      <4>1. /\ reading[1] \in Devices /\ reading[2] \in 0..MaxStatus
            /\ todo' = todo \ {reading[1]}
        BY <3>5, ReadingType DEF Announces
      <4>2. /\ Len(notAcked) \in Nat /\ Len(notAcked') = Len(notAcked) + 1
            /\ \A j \in 1..Len(notAcked) : notAcked'[j] = notAcked[j]
            /\ notAcked'[Len(notAcked) + 1] =
                  [ctr |-> clientCounter + 1, dev |-> reading[1], n |-> reading[2]]
        BY <3>5, <4>1, EntersProperties
      <4>3. CASE i \in 1..Len(notAcked)
        BY <3>1, <4>2, <4>3
      <4>4. CASE i = Len(notAcked) + 1
        BY <4>1, <4>2, <4>4
      <4> QED
        BY <1>3, <4>2, <4>3, <4>4
    <3>6. notAcked' \in {<<>>, notAcked} \/ Acknowledges \/ TakesAndSends
             \/ (Announces /\ Enters(reading[1], reading[2]))
      BY <1>0 DEF StatusStep, statusVars, TakesAndFills, Fills, FillErrorAggregator, TakesInHand,
                  PutsBack, Announces, Clears, Queues
    <3> QED
      BY <2>1, <3>2, <3>3, <3>4, <3>5, <3>6
  <2> QED
    BY <1>3, <2>2, <2>3, AnnouncePlaces
<1> QED
  BY <1>1, <1>2, <1>3 DEF AnnounceInv

\* The statuses the abstract specification calls queued.
Pending == StatusesOf(toExternal) \cup StatusesOf(inHand)

\* The status at the front of the queue is one, and waits nowhere else.
LEMMA FrontOfQueue ==
    ASSUME StatusType, QueueInv, StatusTakenOnce, toExternal # <<>>
    PROVE  LET m == Head(toExternal)
               s == <<m.dev, m.n>>
           IN  /\ StatusOf(m) = {s} /\ StatusOf([dev |-> m.dev, n |-> m.n]) = {s}
               /\ StatusesOf(<<m>>) = {s}
               /\ m.dev \in Devices /\ m.n \in 1..MaxStatus
               /\ s \in StatusesOf(toExternal) /\ s \notin StatusesOf(inHand)
               /\ s \notin StatusesOf(notAcked)
               /\ NoneTwice(Tail(toExternal))
               /\ StatusesOf(Tail(toExternal)) = StatusesOf(toExternal) \ {s}
<1> DEFINE m == Head(toExternal)
           s == <<m.dev, m.n>>
<1>1. m \in Statuses /\ toExternal \in Seq(Statuses)
  BY FeedOfStatuses DEF StatusType
<1>2. m.dev \in Devices /\ m.n \in 1..MaxStatus /\ m.n # 0
  BY <1>1, ConnectionAssumption DEF Statuses
<1>3. /\ StatusesOf(toExternal) = StatusesOf(Tail(toExternal)) \cup StatusOf(m)
      /\ NoneTwice(Tail(toExternal))
      /\ StatusesOf(Tail(toExternal)) = StatusesOf(toExternal) \ StatusOf(m)
  BY <1>1, StatusesOfPop DEF QueueInv
<1> HIDE DEF m
<1>4. StatusOf(m) = {s} /\ StatusOf([dev |-> m.dev, n |-> m.n]) = {s} /\ StatusesOf(<<m>>) = {s}
  BY <1>2, StatusesOfMember DEF StatusOf
<1>5. s \in StatusesOf(toExternal)
  BY <1>3, <1>4
<1>6. s \notin StatusesOf(inHand)
  BY <1>5 DEF QueueInv
<1>7. s \notin StatusesOf(notAcked)
  BY <1>5 DEF StatusTakenOnce, Delivery!TakenOnce
<1> QED
  BY <1>2, <1>3, <1>4, <1>5, <1>6, <1>7 DEF m

\* Each kind of step is one of the abstract specification, and leaves each status at one place.
LEMMA StepDelivers ==
    ASSUME TypeOK, HandsInv, ThreadInv, AnnounceInv, QueueInv, StatusTakenOnce, StatusStep
    PROVE  QueueInv' /\ [Delivery!DeliveryNext]_(Delivery!deliveryVars)
<1> DEFINE m == Head(toExternal)
           s == <<m.dev, m.n>>
<1>0. StatusType
  BY StatusTypeOfTypeOK
<1> USE DEF Delivery!DeliveryNext, Delivery!deliveryVars
<1>1. CASE UNCHANGED statusVars
  BY <1>1 DEF statusVars, QueueInv
<1>2. CASE TakesAndFills
  <2>1. /\ toExternal # <<>> /\ toExternal' = Tail(toExternal)
        /\ notAcked' = <<>> /\ UNCHANGED <<statusCount, settled, inHand>>
        /\ AddToAggregator(notAcked \o <<m>>)
    BY <1>2 DEF TakesAndFills, FillErrorAggregator
  <2>2. <<m>> \in Seq(Statuses) /\ Feed(<<m>>)
    BY <1>0, <2>1, FeedOfStatuses DEF StatusType
  <2>3. /\ s \in StatusesOf(toExternal) /\ s \notin StatusesOf(inHand)
        /\ StatusesOf(<<m>>) = {s} /\ NoneTwice(toExternal')
        /\ StatusesOf(toExternal') = StatusesOf(toExternal) \ {s}
    BY <1>0, <2>1, FrontOfQueue
  <2>4. StatusesIn(error') = StatusesIn(error) \cup StatusesOf(notAcked) \cup {s}
    BY <2>1, <2>2, <2>3, FillStatuses
  <2>5. StatusesOf(notAcked') = {} /\ NoneTwice(notAcked')
    BY <2>1, StatusesOfMember DEF NoneTwice
  <2> HIDE DEF m
  <2>6. QueueInv'
    BY <2>1, <2>3, <2>5 DEF QueueInv
  <2>7. Delivery!Keep({s})
    BY <2>1, <2>3, <2>4, <2>5 DEF Delivery!Keep
  <2> QED
    BY <2>3, <2>6, <2>7
<1>3. CASE Fills
  <2>1. PICK more \in {<<>>, inHand} :
              /\ AddToAggregator(notAcked \o more) /\ notAcked' = <<>>
              /\ (more = <<>> /\ inHand' = inHand) \/ (more = inHand /\ inHand' = <<>>)
    BY <1>3 DEF Fills, FillErrorAggregator
  <2>2. <<>> \in Seq(Statuses) /\ inHand \in Seq(Statuses)
    BY <1>0 DEF StatusType
  <2>3. more \in Seq(Statuses) /\ Feed(more)
    BY <2>1, <2>2, FeedOfStatuses
  <2>4. StatusesIn(error') = StatusesIn(error) \cup StatusesOf(notAcked) \cup StatusesOf(more)
    BY <2>1, <2>3, FillStatuses
  <2>5. StatusesOf(notAcked') = {} /\ NoneTwice(notAcked') /\ StatusesOf(<<>>) = {}
    BY <2>1, StatusesOfMember DEF NoneTwice
  <2>6. UNCHANGED <<toExternal, statusCount, settled>>
    BY <1>3 DEF Fills
  <2>7. /\ StatusesOf(more) \subseteq Pending
        /\ StatusesOf(inHand') \subseteq StatusesOf(inHand)
        /\ StatusesOf(toExternal') \cup StatusesOf(inHand') = Pending \ StatusesOf(more)
    BY <2>1, <2>5, <2>6 DEF Pending, QueueInv
  <2>8. QueueInv'
    BY <2>5, <2>6, <2>7 DEF QueueInv
  <2>9. Delivery!Keep(StatusesOf(more))
    BY <2>4, <2>5, <2>6, <2>7 DEF Delivery!Keep, Pending
  <2> QED
    BY <2>7, <2>8, <2>9 DEF Pending
<1>4. CASE TakesInHand
  <2>1. /\ toExternal # <<>> /\ toExternal' = Tail(toExternal) /\ inHand' = <<m>> /\ inHand = <<>>
        /\ UNCHANGED <<statusCount, error, notAcked, settled>>
    BY <1>4 DEF TakesInHand
  <2>2. /\ s \in StatusesOf(toExternal) /\ StatusesOf(<<m>>) = {s} /\ NoneTwice(toExternal')
        /\ StatusesOf(toExternal') = StatusesOf(toExternal) \ {s}
    BY <1>0, <2>1, FrontOfQueue
  <2>3. StatusesOf(inHand) = {} /\ StatusesOf(inHand') = {s}
    BY <2>1, <2>2, StatusesOfMember
  <2> HIDE DEF m
  <2>4. QueueInv'
    BY <2>1, <2>2, <2>3 DEF QueueInv
  <2> QED
    BY <2>1, <2>2, <2>3, <2>4
<1>5. CASE PutsBack
  <2>1. /\ toExternal # <<>> /\ toExternal' = Append(Tail(toExternal), m)
        /\ UNCHANGED <<statusCount, error, notAcked, settled, inHand>>
    BY <1>5 DEF PutsBack
  <2>2. /\ s \in StatusesOf(toExternal) /\ StatusOf(m) = {s} /\ NoneTwice(Tail(toExternal))
        /\ StatusesOf(Tail(toExternal)) = StatusesOf(toExternal) \ {s}
    BY <1>0, <2>1, FrontOfQueue
  <2>3. m \in Statuses /\ Tail(toExternal) \in Seq(Statuses)
    BY <1>0, <2>1, FeedOfStatuses DEF StatusType
  <2> DEFINE q == Tail(toExternal)
  <2> HIDE DEF m, q
  <2>4. /\ StatusesOf(Append(q, m)) = StatusesOf(q) \cup StatusOf(m)
        /\ NoneTwice(Append(q, m))
    <3>1. q \in Seq(Statuses) /\ NoneTwice(q) /\ StatusOf(m) \cap StatusesOf(q) = {}
      BY <2>2, <2>3 DEF q
    <3> QED
      BY <2>3, <3>1, StatusesOfPush
  <2>5. StatusesOf(toExternal') = StatusesOf(toExternal)
    BY <2>1, <2>2, <2>4 DEF q
  <2>6. QueueInv'
    BY <2>1, <2>4, <2>5 DEF QueueInv, q
  <2> QED
    BY <2>1, <2>5, <2>6
<1>6. CASE TakesAndSends
  <2>1. /\ toExternal # <<>> /\ toExternal' = Tail(toExternal) /\ Enters(m.dev, m.n)
        /\ UNCHANGED <<statusCount, settled, inHand>>
    BY <1>6 DEF TakesAndSends, Enters
  <2>2. /\ s \in StatusesOf(toExternal) /\ s \notin StatusesOf(inHand)
        /\ s \notin StatusesOf(notAcked) /\ NoneTwice(toExternal')
        /\ StatusesOf(toExternal') = StatusesOf(toExternal) \ {s}
        /\ m.dev \in Devices /\ m.n \in 0..MaxStatus
        /\ StatusOf([dev |-> m.dev, n |-> m.n]) = {s}
    BY <1>0, <2>1, FrontOfQueue
  <2> HIDE DEF m
  <2>3. /\ StatusesOf(notAcked') = StatusesOf(notAcked) \cup {s}
        /\ NoneTwice(notAcked')
        /\ StatusesIn(error') \in {StatusesIn(error), StatusesIn(error) \cup {s}}
    BY <2>1, <2>2, EntersStatuses DEF QueueInv
  <2>4. QueueInv'
    BY <2>1, <2>2, <2>3 DEF QueueInv
  <2>5. Delivery!Send(s)
    BY <2>1, <2>2, <2>3 DEF Delivery!Send
  <2> QED
    BY <2>2, <2>4, <2>5
<1>7. CASE Announces
  <2> DEFINE d == reading[1]
             n == reading[2]
             e == [dev |-> d, n |-> n]
  <2>1. /\ d \in todo /\ d \in Devices /\ n \in 0..MaxStatus /\ n \in {0} \cup error[d]
        /\ <<e>> \in Seq([dev : Devices, n : 0..MaxStatus]) /\ Feed(<<e>>) /\ xpc = "send"
    BY <1>7, ReadingType DEF Announces, AnnounceInv, HandsInv
  <2>2. UNCHANGED <<toExternal, statusCount, settled, inHand>>
    BY <1>7 DEF Announces, Enters
  <2>3. Enters(d, n) \/ (AddToAggregator(notAcked \o <<e>>) /\ notAcked' = <<>>)
    BY <1>7 DEF Announces
  <2>4. e.dev = d /\ e.n = n /\ StatusesOf(<<e>>) = StatusOf(e)
    BY StatusesOfMember
  <2> HIDE DEF d, n, e
  <2>5. StatusOf(e) \subseteq StatusesIn(error) /\ (StatusOf(e) = {} \/ \E p : StatusOf(e) = {p})
    <3>1. CASE n = 0
      BY <2>4, <3>1 DEF StatusOf
    <3>2. CASE n # 0
      <4>1. StatusOf(e) = {<<d, n>>}
        BY <2>4, <3>2 DEF StatusOf
      <4>2. n \in 1..MaxStatus /\ n \in error[d]
        BY <2>1, <3>2
      <4> QED
        BY <2>1, <4>1, <4>2 DEF StatusesIn
    <3> QED
      BY <3>1, <3>2
  <2>6. CASE Enters(d, n)
    <3>1. e = [dev |-> d, n |-> n]
      BY DEF d, n, e
    <3>2. ASSUME NEW p \in StatusOf(e), p \in StatusesOf(notAcked) PROVE FALSE
      <4>1. PICK i \in 1..Len(notAcked) : p \in StatusOf(notAcked[i])
        BY <3>2, StatusesOfMember
      <4>2. p = <<d, n>> /\ p = <<notAcked[i].dev, notAcked[i].n>>
        BY <2>4, <3>2, <4>1 DEF StatusOf
      <4>3. notAcked[i].dev = d
        BY <4>2
      <4> QED
        BY <2>1, <4>3 DEF AnnounceInv
    <3>3. StatusOf(e) \cap StatusesOf(notAcked) = {}
      BY <3>2
    <3>4. /\ StatusesOf(notAcked') = StatusesOf(notAcked) \cup StatusOf(e)
          /\ NoneTwice(notAcked')
          /\ StatusesIn(error') \in {StatusesIn(error), StatusesIn(error) \cup StatusOf(e)}
      BY <2>1, <2>6, <3>1, <3>3, EntersStatuses DEF QueueInv
    <3>5. QueueInv'
      BY <2>2, <3>4 DEF QueueInv
    <3>6. StatusesIn(error') = StatusesIn(error)
      BY <2>5, <3>4
    <3>7. CASE StatusOf(e) = {}
      BY <2>2, <3>4, <3>5, <3>6, <3>7
    <3>8. CASE \E p : StatusOf(e) = {p}
      <4>1. PICK p : StatusOf(e) = {p}
        BY <3>8
      <4>2. p \in StatusesIn(error) \ StatusesOf(notAcked)
        BY <2>5, <3>3, <4>1
      <4>3. Delivery!Announce(p)
        BY <2>2, <3>4, <3>6, <4>1 DEF Delivery!Announce
      <4> QED
        BY <3>5, <4>2, <4>3
    <3> QED
      BY <2>5, <3>7, <3>8
  <2>7. CASE AddToAggregator(notAcked \o <<e>>) /\ notAcked' = <<>>
    <3>1. StatusesIn(error') = StatusesIn(error) \cup StatusesOf(notAcked) \cup StatusesOf(<<e>>)
      BY <2>1, <2>7, FillStatuses
    <3>2. StatusesIn(error') = StatusesIn(error) \cup StatusesOf(notAcked)
      BY <2>4, <2>5, <3>1
    <3>3. StatusesOf(notAcked') = {} /\ NoneTwice(notAcked')
      BY <2>7, StatusesOfMember DEF NoneTwice
    <3>4. QueueInv'
      BY <2>2, <3>3 DEF QueueInv
    <3>5. Delivery!Keep({})
      BY <2>2, <3>2, <3>3 DEF Delivery!Keep
    <3> QED
      BY <3>4, <3>5
  <2> QED
    BY <2>3, <2>6, <2>7
<1>8. CASE Acknowledges
  <2>1. UNCHANGED <<toExternal, statusCount, error, inHand>> /\ \E x : Acknowledge(x)
    BY <1>8 DEF Acknowledges
  <2>2. /\ NoneTwice(notAcked')
        /\ \/ notAcked' = notAcked /\ settled' = settled
           \/ \E t : /\ t \subseteq StatusesOf(notAcked)
                     /\ t = {} \/ \E p : t = {p}
                     /\ StatusesOf(notAcked') = StatusesOf(notAcked) \ t
                     /\ StatusesIn(settled') = StatusesIn(settled) \cup t
    BY <2>1, AcknowledgeStatuses DEF QueueInv
  <2>3. QueueInv'
    BY <2>1, <2>2 DEF QueueInv
  <2>4. CASE notAcked' = notAcked /\ settled' = settled
    BY <2>1, <2>3, <2>4
  <2>5. CASE ~(notAcked' = notAcked /\ settled' = settled)
    <3>1. PICK t : /\ t \subseteq StatusesOf(notAcked)
                   /\ t = {} \/ \E p : t = {p}
                   /\ StatusesOf(notAcked') = StatusesOf(notAcked) \ t
                   /\ StatusesIn(settled') = StatusesIn(settled) \cup t
      BY <2>2, <2>5
    <3>2. CASE t = {}
      BY <2>1, <2>3, <3>1, <3>2
    <3>3. CASE \E p : t = {p}
      <4>1. PICK p : t = {p}
        BY <3>3
      <4>2. p \in StatusesOf(notAcked) /\ Delivery!Acknowledge(p)
        BY <2>1, <3>1, <4>1 DEF Delivery!Acknowledge
      <4> QED
        BY <2>3, <4>2
    <3> QED
      BY <3>1, <3>2, <3>3
  <2> QED
    BY <2>4, <2>5
<1>9. CASE Clears
  <2>1. /\ UNCHANGED <<toExternal, statusCount, notAcked, inHand>>
        /\ error' = [d \in Devices |-> {}]
        /\ settled' = [d \in Devices |-> settled[d] \cup error[d]]
    BY <1>9 DEF Clears
  <2>2. QueueInv'
    BY <2>1 DEF QueueInv
  <2>3. StatusesIn(error') = {} /\ StatusesIn(settled') = StatusesIn(settled) \cup StatusesIn(error)
    BY <2>1 DEF StatusesIn
  <2>4. Delivery!Report
    BY <2>1, <2>3 DEF Delivery!Report
  <2> QED
    BY <2>2, <2>4
<1>10. CASE \E d \in Devices : Queues(d)
  <2>1. PICK d \in Devices : Queues(d)
    BY <1>10
  <2>2. PICK b \in BOOLEAN : Queued(d, b)
    BY <2>1 DEF Queues
  <2> DEFINE e == [dev |-> d, n |-> statusCount'[d], disconnected |-> b]
             p == <<d, statusCount[d] + 1>>
  <2>3. /\ toExternal' = Append(toExternal, e)
        /\ statusCount' = [statusCount EXCEPT ![d] = @ + 1] /\ statusCount[d] < MaxStatus
        /\ UNCHANGED <<error, notAcked, settled, inHand>>
    BY <2>1, <2>2 DEF Queues, Queued
  <2>4. /\ statusCount[d] \in 0..MaxStatus /\ MaxStatus \in Nat
        /\ statusCount'[d] = statusCount[d] + 1 /\ statusCount'[d] \in 1..MaxStatus
    BY <1>0, <2>3, ConnectionAssumption DEF StatusType
  <2>5. e \in Statuses /\ e.dev = d /\ e.n = statusCount[d] + 1 /\ e.n # 0
    BY <2>4 DEF Statuses
  <2> HIDE DEF e
  <2>6. StatusOf(e) = {p}
    BY <2>5 DEF StatusOf
  <2>7. p \notin Pending
    BY <2>4 DEF StatusTakenOnce, Delivery!TakenOnce, Pending
  <2>8. /\ StatusesOf(toExternal') = StatusesOf(toExternal) \cup {p}
        /\ NoneTwice(toExternal')
    <3>1. toExternal \in Seq(Statuses) /\ StatusOf(e) \cap StatusesOf(toExternal) = {}
      BY <1>0, <2>6, <2>7 DEF StatusType, Pending
    <3> QED
      BY <2>3, <2>5, <2>6, <3>1, StatusesOfPush DEF QueueInv
  <2> HIDE DEF p
  <2>9. QueueInv'
    BY <2>3, <2>7, <2>8 DEF QueueInv, Pending
  <2>10. Delivery!Issue(d)
    BY <2>3, <2>8 DEF Delivery!Issue, p
  <2> QED
    BY <2>9, <2>10
<1> QED
  BY <1>1, <1>2, <1>3, <1>4, <1>5, <1>6, <1>7, <1>8, <1>9, <1>10 DEF StatusStep

\* The steps of the abstract specification keep what it promises.
LEMMA TakenOnceStep ==
    ASSUME StatusType, StatusTakenOnce, [Delivery!DeliveryNext]_(Delivery!deliveryVars)
    PROVE  StatusTakenOnce'
<1> DEFINE Q == StatusesOf(toExternal) \cup StatusesOf(inHand)
           A == StatusesOf(notAcked)
           K == StatusesIn(error)
           T == StatusesIn(settled)
<1>1. /\ Q \cap (A \cup K \cup T) = {}
      /\ \A s \in Q \cup A \cup K \cup T : s[1] \in Devices /\ s[2] \in 1..statusCount[s[1]]
  BY DEF StatusTakenOnce, Delivery!TakenOnce
<1>2. SUFFICES /\ Q' \cap (A' \cup K' \cup T') = {}
               /\ \A s \in Q' \cup A' \cup K' \cup T' :
                     s[1] \in Devices /\ s[2] \in 1..statusCount'[s[1]]
  BY DEF StatusTakenOnce, Delivery!TakenOnce
<1>3. statusCount \in [Devices -> Nat]
  BY ConnectionAssumption DEF StatusType
<1>4. CASE UNCHANGED <<statusCount, Q, A, K, T>>
  <2> HIDE DEF Q, A, K, T
  <2> QED
    BY <1>1, <1>4
<1>5. CASE \E d \in Devices : Delivery!Issue(d)
  <2>1. PICK d \in Devices : Delivery!Issue(d)
    BY <1>5
  <2>2. /\ Q' = Q \cup {<<d, statusCount[d] + 1>>} /\ A' = A /\ K' = K /\ T' = T
        /\ statusCount' = [statusCount EXCEPT ![d] = @ + 1]
    BY <2>1 DEF Delivery!Issue
  <2> HIDE DEF Q, A, K, T
  <2>3. <<d, statusCount[d] + 1>> \notin A \cup K \cup T
    <3>1. <<d, statusCount[d] + 1>>[1] = d /\ <<d, statusCount[d] + 1>>[2] = statusCount[d] + 1
      OBVIOUS
    <3>2. ~(statusCount[d] + 1 \in 1..statusCount[d])
      BY <1>3
    <3> QED
      BY <1>1, <3>1, <3>2
  <2>4. ASSUME NEW s \in Q' \cup A' \cup K' \cup T'
        PROVE  s[1] \in Devices /\ s[2] \in 1..statusCount'[s[1]]
    <3>1. CASE s = <<d, statusCount[d] + 1>>
      BY <1>3, <2>2, <3>1
    <3>2. CASE s \in Q \cup A \cup K \cup T
      BY <1>1, <1>3, <2>2, <3>2
    <3> QED
      BY <2>2, <3>1, <3>2
  <2> QED
    BY <1>1, <2>2, <2>3, <2>4
<1>6. CASE /\ statusCount' = statusCount
           /\ Q' \cap (A' \cup K' \cup T') = {}
           /\ Q' \cup A' \cup K' \cup T' \subseteq Q \cup A \cup K \cup T
  <2> HIDE DEF Q, A, K, T
  <2> QED
    BY <1>1, <1>6
<1>7. CASE \E s \in Q : Delivery!Send(s)
  <2>1. PICK s \in Q : Delivery!Send(s)
    BY <1>7
  <2>2. /\ statusCount' = statusCount /\ Q' = Q \ {s} /\ A' = A \cup {s}
        /\ K' \in {K, K \cup {s}} /\ T' = T
    BY <2>1 DEF Delivery!Send
  <2> QED
    BY <1>1, <1>6, <2>1, <2>2
<1>8. CASE \E S \in SUBSET Q : Delivery!Keep(S)
  <2>1. PICK S \in SUBSET Q : Delivery!Keep(S)
    BY <1>8
  <2>2. /\ statusCount' = statusCount /\ Q' = Q \ S /\ A' = {} /\ K' = K \cup A \cup S /\ T' = T
    BY <2>1 DEF Delivery!Keep
  <2> QED
    BY <1>1, <1>6, <2>1, <2>2
<1>9. CASE \E s \in K \ A : Delivery!Announce(s)
  <2>1. PICK s \in K \ A : Delivery!Announce(s)
    BY <1>9
  <2>2. /\ statusCount' = statusCount /\ Q' = Q /\ A' = A \cup {s} /\ K' = K /\ T' = T
    BY <2>1 DEF Delivery!Announce
  <2> QED
    BY <1>1, <1>6, <2>1, <2>2
<1>10. CASE \E s \in A : Delivery!Acknowledge(s)
  <2>1. PICK s \in A : Delivery!Acknowledge(s)
    BY <1>10
  <2>2. /\ statusCount' = statusCount /\ Q' = Q /\ A' = A \ {s} /\ K' = K /\ T' = T \cup {s}
    BY <2>1 DEF Delivery!Acknowledge
  <2> QED
    BY <1>1, <1>6, <2>1, <2>2
<1>11. CASE Delivery!Report
  <2>1. /\ statusCount' = statusCount /\ Q' = Q /\ A' = A /\ K' = {} /\ T' = T \cup K
    BY <1>11 DEF Delivery!Report
  <2> QED
    BY <1>1, <1>6, <2>1
<1> QED
  BY <1>4, <1>5, <1>7, <1>8, <1>9, <1>10, <1>11 DEF Delivery!DeliveryNext, Delivery!deliveryVars

-----------------------------------------------------------------------------
(* Theorems *)

\* The part of the invariant that needs no other.
ConnectionInv == TypeInv /\ HandsInv /\ ThreadInv

LEMMA TypeOfParts ==
    StatusType /\ PlaceType /\ FlagType /\ DeviceType /\ RequestType /\ MessageType => TypeInv
BY DEF StatusType, PlaceType, FlagType, DeviceType, RequestType, MessageType, TypeInv, TypeOK,
       SentStatuses

LEMMA ConnectionInit ==
    Init => ConnectionInv /\ RegisteredInv /\ NothingForgotten
<1> SUFFICES ASSUME Init PROVE ConnectionInv /\ RegisteredInv /\ NothingForgotten
  OBVIOUS
<1> USE ConnectionAssumption
<1>0. 0 \in 0..MaxStatus /\ {} \in SUBSET (0..MaxStatus) /\ 0 \in 0..MaxEntries /\ 0 \in 0..MaxCommand
  OBVIOUS
<1>1. StatusType
  BY <1>0 DEF Init, StatusType
<1>2. PlaceType
  BY DEF Init, PlaceType, ClientPCs, ConnectPCs, ListenerPCs
<1>3. FlagType
  BY DEF Init, FlagType
<1>4. DeviceType
  BY <1>0 DEF Init, DeviceType
<1>5. RequestType
  <2>1. reconnects = <<>> /\ retries = 0 /\ clientCounter = 0
    BY DEF Init
  <2>2. <<>> \in Seq(BOOLEAN)
    OBVIOUS
  <2> QED
    BY <2>1, <2>2 DEF RequestType
<1>6. MessageType
  BY <1>0 DEF Init, MessageType
<1>7. TypeInv
  BY <1>1, <1>2, <1>3, <1>4, <1>5, <1>6, TypeOfParts
<1>8. HandsInv /\ ThreadInv /\ RegisteredInv
  BY DEF Init, HandsInv, ThreadInv, RegisteredInv, ListedAreRegistered, ListenerJoined
<1>9. NothingForgotten
  BY DEF Init, NothingForgotten
<1> QED
  BY <1>7, <1>8, <1>9 DEF ConnectionInv

LEMMA ConnectionStep ==
    ConnectionInv /\ [Next]_vars => ConnectionInv'
<1> SUFFICES ASSUME ConnectionInv, [Next]_vars PROVE ConnectionInv'
  OBVIOUS
<1>0. TypeInv /\ TypeOK /\ HandsInv /\ ThreadInv /\ PlaceType /\ FlagType
  BY DEF ConnectionInv, TypeInv, TypeOK, PlaceType, FlagType
<1>1. StatusType'
  BY <1>0, StatusSteps, StatusTypeStep
<1>2. PlaceType' /\ FlagType'
  BY <1>0, PlaceStep, FlagStep
<1>3. DeviceType' /\ RequestType' /\ MessageType'
  BY <1>0, DeviceStep, RequestStep, MessageTypeStep
<1>4. TypeInv'
  BY <1>1, <1>2, <1>3, TypeOfParts, PTL
<1>5. HandsInv' /\ ThreadInv'
  BY <1>0, HandsStep, ThreadStep
<1> QED
  BY <1>4, <1>5 DEF ConnectionInv

THEOREM ConnectionInvariant == Spec => []ConnectionInv
BY ConnectionInit, ConnectionStep, PTL DEF Spec

\* Every variable of the external client stays in its domain: in particular
\* connectedDevices_ is never asked to erase a device it does not hold, and
\* serverMessageCounter_ only takes numbers of commands the server has sent.
THEOREM ConnectionTypeCorrect == Spec => []TypeOK
<1>1. ConnectionInv => TypeOK
  BY DEF ConnectionInv, TypeInv
<1> QED
  BY <1>1, ConnectionInvariant, PTL

\* While a connect sequence talks to the server no listener takes messages from the channel:
\* deinitializeConnection has joined it, on every path that leads to initializeConnection.
THEOREM ListenerIsJoined == Spec => []ListenerJoined
<1>1. ConnectionInv => ListenerJoined
  BY DEF ConnectionInv, ThreadInv
<1> QED
  BY <1>1, ConnectionInvariant, PTL

\* The connect sequence knows a status of every device it announces: forced statuses are
\* awaited, and nothing unregisters a device.
THEOREM AnnouncedAreRegistered == Spec => []ListedAreRegistered
<1>1. ConnectionInv /\ RegisteredInv /\ [Next]_vars => RegisteredInv'
  BY RegisteredStep DEF ConnectionInv
<1>2. RegisteredInv => ListedAreRegistered
  BY DEF RegisteredInv
<1> QED
  BY <1>1, <1>2, ConnectionInit, ConnectionInvariant, PTL DEF Spec

\* No status taken from toExternalQueue_ is forgotten: it waits for its response, is kept by
\* the error aggregator or in hand, or the server has it.
THEOREM NoStatusForgotten == Spec => []NothingForgotten
<1>1. ConnectionInv /\ NothingForgotten /\ [Next]_vars => NothingForgotten'
  BY StatusSteps, NothingForgottenStep DEF ConnectionInv, TypeInv
<1> QED
  BY <1>1, ConnectionInit, ConnectionInvariant, PTL DEF Spec

\* A response acknowledges the status it answers, although counters start anew with each
\* session and the listener compares no session: what is left of an earlier session is gone
\* when the connect sequence succeeds, and numbers of one session are not given twice.
THEOREM ResponsesMatch == Spec => []AcknowledgesItsStatus
<1> DEFINE SessionInv == EmptyInv /\ OwnInv /\ FreshInv /\ MatchInv
<1>1. Init => SessionInv
  BY DEF Init, EmptyInv, OwnInv, FreshInv, MatchInv, Connecting
<1>2. ConnectionInv /\ SessionInv /\ [Next]_vars => SessionInv'
  BY EmptyStep, OwnStep, SessionSteps, NumberStep DEF ConnectionInv
<1>3. ConnectionInv /\ SessionInv => AcknowledgesItsStatus
  <2> SUFFICES ASSUME ConnectionInv, SessionInv, NEW m \in Accepted, NEW i \in WithCounter(m.ctr)
               PROVE  notAcked[i].dev = m.dev /\ notAcked[i].n = m.n
    BY DEF AcknowledgesItsStatus
  <2>1. i \in 1..Len(notAcked) /\ notAcked[i].ctr = m.ctr
    BY DEF WithCounter
  <2>2. CASE \E j \in 1..Len(received) : received[j].kind = "ack" /\ m = received[j]
    BY <2>1, <2>2 DEF OwnInv, MatchInv, Answers, Ack
  <2>3. CASE \E j \in 1..Len(fromServer) : Ack(fromServer[j]) /\ m = fromServer[j]
    BY <2>1, <2>3 DEF MatchInv, Answers
  <2> QED
    BY <2>2, <2>3 DEF Accepted, Ack
<1> QED
  BY <1>1, <1>2, <1>3, ConnectionInit, ConnectionInvariant, PTL DEF Spec

\* What the refinement rests on.
DeliveryInv == EmptyInv /\ AnnounceInv /\ QueueInv /\ StatusTakenOnce

LEMMA DeliveryInitially ==
    Init => DeliveryInv /\ Delivery!DeliveryInit
<1> SUFFICES ASSUME Init PROVE DeliveryInv /\ Delivery!DeliveryInit
  OBVIOUS
<1>1. toExternal = <<>> /\ inHand = <<>> /\ notAcked = <<>> /\ xpc = "none"
  BY DEF Init
<1>2. /\ StatusesOf(toExternal) = {} /\ StatusesOf(inHand) = {} /\ StatusesOf(notAcked) = {}
      /\ NoneTwice(toExternal) /\ NoneTwice(notAcked)
  BY <1>1, StatusesOfMember DEF NoneTwice
<1>3. StatusesIn(error) = {} /\ StatusesIn(settled) = {}
  BY DEF Init, StatusesIn
<1>4. EmptyInv /\ AnnounceInv
  BY <1>1 DEF Init, EmptyInv, AnnounceInv
<1>5. QueueInv /\ StatusTakenOnce
  BY <1>2, <1>3 DEF QueueInv, StatusTakenOnce, Delivery!TakenOnce
<1>6. Delivery!DeliveryInit
  BY <1>2, <1>3 DEF Init, Delivery!DeliveryInit
<1> QED
  BY <1>4, <1>5, <1>6 DEF DeliveryInv

LEMMA DeliveryStep ==
    ConnectionInv /\ DeliveryInv /\ [Next]_vars =>
        DeliveryInv' /\ [Delivery!DeliveryNext]_(Delivery!deliveryVars)
<1> SUFFICES ASSUME ConnectionInv, DeliveryInv, [Next]_vars
             PROVE  DeliveryInv' /\ [Delivery!DeliveryNext]_(Delivery!deliveryVars)
  OBVIOUS
<1>1. /\ TypeOK /\ HandsInv /\ ThreadInv /\ StatusType
      /\ EmptyInv /\ AnnounceInv /\ QueueInv /\ StatusTakenOnce
  BY StatusTypeOfTypeOK DEF ConnectionInv, TypeInv, DeliveryInv
<1>2. StatusStep
  BY <1>1, StatusSteps
<1>3. QueueInv' /\ [Delivery!DeliveryNext]_(Delivery!deliveryVars)
  BY <1>1, <1>2, StepDelivers
<1>4. EmptyInv' /\ AnnounceInv'
  BY <1>1, EmptyStep, AnnounceStep
<1>5. StatusTakenOnce'
  BY <1>1, <1>3, TakenOnceStep
<1> QED
  BY <1>3, <1>4, <1>5 DEF DeliveryInv

\* A status that was sent, kept or settled never waits in the queue again, and none is known
\* that its device has not sent: no status is sent from the queue twice.
THEOREM StatusesTakenOnce == Spec => []StatusTakenOnce
<1>1. DeliveryInv => StatusTakenOnce
  BY DEF DeliveryInv
<1> QED
  BY <1>1, DeliveryInitially, DeliveryStep, ConnectionInvariant, PTL DEF Spec

\* The external client implements StatusDelivery: each step of its threads, of the server and
\* of the channel moves statuses as one of its steps does, or moves none.
THEOREM ConnectionImplementsDelivery == Spec => ImplementsDelivery
<1>1. Init => Delivery!DeliveryInit
  BY DeliveryInitially
<1> QED
  BY <1>1, DeliveryInitially, DeliveryStep, ConnectionInvariant, PTL
  DEF Spec, ImplementsDelivery, Delivery!DeliverySpec
=============================================================================
