-------------------------- MODULE SerialLinkProofs --------------------------
(***************************************************************************)
(* Proofs about SerialLink, for every sequence space, window, wire and     *)
(* number of faults.                                                       *)
(***************************************************************************)
EXTENDS SerialLink, TLAPS

-----------------------------------------------------------------------------
(* Sequences *)

\* Appending an element
LEMMA SeqAppend ==
    ASSUME NEW S, NEW s \in Seq(S), NEW e \in S
    PROVE  /\ Append(s, e) \in Seq(S) /\ Append(s, e) # <<>> /\ Len(Append(s, e)) = Len(s) + 1
           /\ \A i \in 1..Len(s) : Append(s, e)[i] = s[i]
           /\ Append(s, e)[Len(s) + 1] = e
OBVIOUS

\* Concatenation
LEMMA SeqConcat ==
    ASSUME NEW S, NEW s \in Seq(S), NEW t \in Seq(S)
    PROVE  /\ s \o t \in Seq(S) /\ Len(s \o t) = Len(s) + Len(t)
           /\ \A i \in 1..Len(s) + Len(t) :
                 (s \o t)[i] = IF i <= Len(s) THEN s[i] ELSE t[i - Len(s)]
OBVIOUS

\* A part of a sequence or of a buffer
LEMMA SeqPart ==
    ASSUME NEW S, NEW s, NEW m \in Int, NEW n \in Int, \A i \in m..n : s[i] \in S
    PROVE  /\ SubSeq(s, m, n) \in Seq(S)
           /\ Len(SubSeq(s, m, n)) = IF m <= n THEN n - m + 1 ELSE 0
           /\ \A i \in 1..n - m + 1 : SubSeq(s, m, n)[i] = s[m + i - 1]
OBVIOUS

\* The first element and the others
LEMMA SeqTail ==
    ASSUME NEW S, NEW s \in Seq(S), s # <<>>
    PROVE  /\ Head(s) \in S /\ Tail(s) \in Seq(S) /\ Len(Tail(s)) = Len(s) - 1
           /\ \A i \in 1..Len(Tail(s)) : Tail(s)[i] = s[i + 1]
OBVIOUS

\* The empty sequence
LEMMA SeqEmpty ==
    ASSUME NEW S
    PROVE  /\ <<>> \in Seq(S) /\ Len(<<>>) = 0
           /\ \A s \in Seq(S) : s # <<>> => Len(s) \in Nat \ {0}
OBVIOUS

\* The length of a sequence and its domain
LEMMA SeqLength ==
    ASSUME NEW S, NEW s \in Seq(S)
    PROVE  Len(s) \in Nat /\ s \in [1..Len(s) -> S] /\ DOMAIN s = 1..Len(s)
OBVIOUS

\* The elements of a sequence
LEMMA SeqElement ==
    ASSUME NEW S, NEW s \in Seq(S), NEW n \in 1..Len(s)
    PROVE  s[n] \in S
OBVIOUS

-----------------------------------------------------------------------------

\* The host's view: the queue, the window, and where the counters stand.  The
\* mcu is ahead of send_seq only before connection init.
HostCounters ==
    /\ SentQueueMatches
    /\ 1 <= receive_seq /\ AckedWasDispatched
    /\ first_seq <= next_sequence
    /\ \/ next_sequence <= send_seq
       \/ receive_seq = 1 /\ next_sequence = first_seq

\* A block on the wire was sent, and is less than SeqMod behind the mcu.
BlocksClose ==
    \A i \in 1..Len(to_mcu) : to_mcu[i] # SYNC =>
        to_mcu[i] < send_seq /\ next_sequence < to_mcu[i] + SeqMod

\* No block on the wire is SeqMod - 1 or more ahead of one that follows it, so
\* dispatching the first leaves the second close.
BlocksSpread ==
    \A i, j \in 1..Len(to_mcu) : i < j /\ to_mcu[i] # SYNC /\ to_mcu[j] # SYNC =>
        to_mcu[i] + 1 < to_mcu[j] + SeqMod

\* A reply names a number between what the host has seen and what the mcu has
\* reached; an ack also covers only blocks whose dispatch is over.
RepliesClose ==
    \A i \in 1..Len(to_host) :
        /\ first_seq <= to_host[i].seq /\ receive_seq <= to_host[i].seq
        /\ to_host[i].seq <= next_sequence
        /\ to_host[i].ack => to_host[i].seq <= Done
RepliesSorted ==
    \A i, j \in 1..Len(to_host) : i < j => to_host[i].seq <= to_host[j].seq

\* A block stays in the receive buffer while it is dispatched.
DispatchingHeld == dispatching # NoBlock => to_mcu # <<>>

LinkInv ==
    /\ TypeOK /\ HostCounters /\ BlocksClose /\ BlocksSpread
    /\ RepliesClose /\ RepliesSorted /\ DispatchingHeld /\ DispatchedInOrder
    /\ NotifiedAfterDispatch

-----------------------------------------------------------------------------
(* Arithmetic of a truncated sequence number *)

LEMMA DivMod ==
    ASSUME NEW a \in Int, NEW n \in Nat, 0 < n
    PROVE  \E q \in Int : a = n * q + (a % n) /\ a % n \in 0..n - 1
  BY Z3

LEMMA ProductAtLeast ==
    ASSUME NEW d \in Int, NEW n \in Nat, 0 < d
    PROVE  n <= n * d
  BY Z3

\* What command_find_block relies on: among numbers less than n apart, the
\* residue tells the number.
LEMMA SameResidue ==
    ASSUME NEW a \in Int, NEW b \in Int, NEW n \in Nat, 0 < n,
           a % n = b % n, a < b + n, b < a + n
    PROVE  a = b
<1>1. PICK q \in Int : a = n * q + (a % n)  BY DivMod, ZenonT(30)
<1>2. PICK r \in Int : b = n * r + (b % n)  BY DivMod, ZenonT(30)
<1>3. a - b = n * (q - r) /\ b - a = n * (r - q)  BY <1>1, <1>2
<1>4. ~(q > r) /\ ~(r > q)  BY <1>3, ProductAtLeast
<1>5. QED  BY <1>1, <1>2, <1>4

\* What handle_message relies on: the number is rebuilt from its residue.
LEMMA RebuildSeq ==
    ASSUME NEW a \in Int, NEW s \in Int, NEW n \in Nat, 0 < n,
           a <= s, s < a + n
    PROVE  a + (((s % n) - a) % n) = s
<1> DEFINE y == (s % n) - a
<1>1. PICK q \in Int : s = n * q + (s % n) /\ s % n \in 0..n - 1  BY DivMod, Zenon
<1>2. PICK r \in Int : y = n * r + (y % n) /\ y % n \in 0..n - 1
  BY DivMod, <1>1
<1>3. /\ (s - a) - (y % n) = n * (q + r)
      /\ (y % n) - (s - a) = n * (-(q + r))
  BY <1>1, <1>2
<1>4. ~(q + r > 0) /\ ~(-(q + r) > 0)  BY <1>2, <1>3, ProductAtLeast
<1>5. QED  BY <1>2, <1>3, <1>4

-----------------------------------------------------------------------------
(* Operators of the model *)

\* do_write appends, and truncates at WireCap.
LEMMA WriteProperties ==
    ASSUME NEW wire \in Seq(Nat), NEW items \in Seq(Nat)
    PROVE  /\ Write(wire, items) \in Seq(Nat)
           /\ Len(Write(wire, items)) <= WireCap
           /\ Len(Write(wire, items)) <= Len(wire) + Len(items)
           /\ WireCap > 0 /\ wire # <<>> => Write(wire, items) # <<>>
           /\ \A i \in 1..Len(Write(wire, items)) :
                  /\ i <= Len(wire) => Write(wire, items)[i] = wire[i]
                  /\ i > Len(wire) => /\ i - Len(wire) \in 1..Len(items)
                                      /\ Write(wire, items)[i] = items[i - Len(wire)]
<1> DEFINE all == wire \o items
           n == IF Len(all) < WireCap THEN Len(all) ELSE WireCap
<1>1. /\ all \in Seq(Nat) /\ Len(all) = Len(wire) + Len(items)
      /\ \A i \in 1..Len(all) :
             all[i] = IF i <= Len(wire) THEN wire[i] ELSE items[i - Len(wire)]
  BY SeqConcat
<1>2. Len(wire) \in Nat /\ Len(items) \in Nat  BY SeqLength, Zenon
<1>3. n \in Nat /\ n <= WireCap /\ n <= Len(all)
  BY <1>1, <1>2, LinkAssumption
<1> HIDE DEF all, n
<1>4. \A i \in 1..n : all[i] \in Nat  BY <1>1, <1>3, SeqElement
<1>5. /\ SubSeq(all, 1, n) \in Seq(Nat)
      /\ Len(SubSeq(all, 1, n)) = n
      /\ \A i \in 1..n : SubSeq(all, 1, n)[i] = all[i]
  BY <1>3, <1>4, SeqPart
<1>6. Write(wire, items) = SubSeq(all, 1, n)  BY Zenon DEF Write, all, n
<1>7. WireCap > 0 /\ wire # <<>> => n > 0
  BY <1>1, <1>2, SeqEmpty, LinkAssumption DEF n
<1>8. WireCap > 0 /\ wire # <<>> => Write(wire, items) # <<>>
  <2>1. Len(<<>>) = 0  BY Zenon
  <2>2. Len(Write(wire, items)) = n  BY <1>5, <1>6, Zenon
  <2>3. Len(Write(wire, items)) > 0 => Write(wire, items) # <<>>  BY <2>1
  <2>4. QED  BY <1>7, <2>2, <2>3, Zenon
<1>9. ASSUME NEW i \in 1..n
      PROVE  /\ i <= Len(wire) => Write(wire, items)[i] = wire[i]
             /\ i > Len(wire) => /\ i - Len(wire) \in 1..Len(items)
                                 /\ Write(wire, items)[i] = items[i - Len(wire)]
  <2>1. i \in 1..Len(all) /\ i \in Int  BY <1>1, <1>2, <1>3
  <2>2. Write(wire, items)[i] = all[i]  BY <1>5, <1>6, Zenon
  <2>3. QED  BY <2>1, <2>2, <1>1, <1>2
<1>10. QED  BY <1>1, <1>3, <1>5, <1>6, <1>8, <1>9, ZenonT(30)

\* What is left of a queue when its first k elements are taken off.
LEMMA DropFirst ==
    ASSUME NEW S, NEW q \in Seq(S), NEW k \in 0..Len(q)
    PROVE  /\ SubSeq(q, k + 1, Len(q)) \in Seq(S)
           /\ Len(SubSeq(q, k + 1, Len(q))) = Len(q) - k
           /\ \A i \in 1..Len(q) - k : SubSeq(q, k + 1, Len(q))[i] = q[i + k]
<1>1. Len(q) \in Nat  BY SeqLength, Zenon
<1>2. \A i \in k + 1..Len(q) : q[i] \in S  BY <1>1, SeqElement
<1>3. QED  BY <1>1, <1>2, SeqPart

\* console_sendf appends the message or drops it.
LEMMA SendfProperties ==
    ASSUME TypeOK, NEW m \in Messages, Sendf(m)
    PROVE  /\ to_host' \in Seq(Messages) /\ Len(to_host') <= WireCap
           /\ Len(to_host') \in {Len(to_host), Len(to_host) + 1}
           /\ \A i \in 1..Len(to_host) : to_host'[i] = to_host[i]
           /\ \A i \in 1..Len(to_host') : i > Len(to_host) => to_host'[i] = m
<1>1. to_host \in Seq(Messages) /\ Len(to_host) \in Nat /\ Len(to_host) <= WireCap
  BY SeqLength, Zenon DEF TypeOK
<1>2. QED  BY <1>1, SeqAppend, LinkAssumption DEF Sendf

-----------------------------------------------------------------------------
(* LinkInv is inductive: one lemma per action *)

\* The consequences of LinkInv the steps below use most.
Numbers ==
    /\ SeqMod \in Nat /\ MaxPending \in Nat /\ 0 < MaxPending /\ MaxPending < SeqMod
    /\ send_seq \in Nat /\ receive_seq \in Nat /\ next_sequence \in Nat
    /\ first_seq \in Nat /\ 1 <= first_seq /\ first_seq <= SeqMod
Order ==
    /\ 1 <= receive_seq /\ receive_seq <= send_seq
    /\ send_seq <= receive_seq + MaxPending
    /\ receive_seq <= next_sequence /\ first_seq <= next_sequence
    /\ next_sequence < receive_seq + SeqMod
    /\ next_sequence <= send_seq \/ (receive_seq = 1 /\ next_sequence = first_seq)
Lengths ==
    /\ Len(sent_queue) \in Nat /\ Len(to_mcu) \in Nat /\ Len(to_host) \in Nat
    /\ Len(notify_queue) \in Nat /\ Len(receive_queue) \in Nat
    /\ Len(dispatched) \in Nat
    /\ WireCap \in Nat /\ Len(to_mcu) <= WireCap /\ Len(to_host) <= WireCap
Elements ==
    /\ \A i \in 1..Len(to_mcu) : to_mcu[i] \in Nat
    /\ \A i \in 1..Len(to_host) : to_host[i] \in Messages /\ to_host[i].seq \in Nat

LEMMA LinkFacts ==
    ASSUME LinkInv
    PROVE  Numbers /\ Order /\ Lengths /\ Elements
<1>1. TypeOK  BY Zenon DEF LinkInv
<1>h. HostCounters  BY Zenon DEF LinkInv
<1>2. Lengths
  BY <1>1, SeqLength, LinkAssumption, Zenon DEF TypeOK, Lengths
<1>3. Elements
  <2>1. to_mcu \in Seq(Nat) /\ to_host \in Seq(Messages)  BY <1>1, Zenon DEF TypeOK
  <2>2. \A i \in 1..Len(to_mcu) : to_mcu[i] \in Nat  BY <2>1, SeqElement, Zenon
  <2>3. \A i \in 1..Len(to_host) : to_host[i] \in Messages  BY <2>1, SeqElement, Zenon
  <2>4. \A m \in Messages : m.seq \in Nat  BY Zenon DEF Messages
  <2>5. QED  BY <2>2, <2>3, <2>4, Zenon DEF Elements
<1>4. Numbers
  BY <1>1, LinkAssumption DEF TypeOK, Numbers
<1>5. Order
  <2>1. /\ Len(sent_queue) = send_seq - receive_seq /\ Len(sent_queue) <= MaxPending
        /\ 1 <= receive_seq /\ receive_seq <= next_sequence /\ first_seq <= next_sequence
        /\ next_sequence <= send_seq \/ (receive_seq = 1 /\ next_sequence = first_seq)
    BY <1>h, Zenon DEF HostCounters, SentQueueMatches, AckedWasDispatched
  <2>2. Len(sent_queue) \in Nat  BY <1>2, Zenon DEF Lengths
  <2>3. QED  BY <1>4, <2>1, <2>2 DEF Order, Numbers
<1>6. QED  BY <1>2, <1>3, <1>4, <1>5, Zenon

\* Taking a block off the receive buffer.
LEMMA PopBlock ==
    ASSUME LinkInv, to_mcu # <<>>, to_mcu' = Tail(to_mcu),
           send_seq' = send_seq, next_sequence' = next_sequence
    PROVE  /\ to_mcu' \in Seq(Nat) /\ Len(to_mcu') <= WireCap
           /\ BlocksClose' /\ BlocksSpread'
<1>1. Lengths  BY LinkFacts, Zenon
<1>2. /\ to_mcu' \in Seq(Nat) /\ Len(to_mcu') = Len(to_mcu) - 1
      /\ \A i \in 1..Len(to_mcu') : to_mcu'[i] = to_mcu[i + 1]
  <2>1. to_mcu \in Seq(Nat)  BY Zenon DEF LinkInv, TypeOK
  <2>2. QED  BY <2>1, SeqTail, Zenon
<1>3. \A i \in 1..Len(to_mcu') : i + 1 \in 1..Len(to_mcu) /\ to_mcu'[i] = to_mcu[i + 1]
  BY <1>1, <1>2 DEF Lengths
<1>4. Len(to_mcu') <= WireCap  BY <1>1, <1>2 DEF Lengths
<1>5. BlocksClose'
  <2>1. BlocksClose  BY Zenon DEF LinkInv
  <2>2. QED  BY <1>3, <2>1, Zenon DEF BlocksClose
<1>6. BlocksSpread'
  <2>1. BlocksSpread  BY Zenon DEF LinkInv
  <2>2. SUFFICES ASSUME NEW i \in 1..Len(to_mcu'), NEW j \in 1..Len(to_mcu'), i < j,
                        to_mcu'[i] # SYNC, to_mcu'[j] # SYNC
                 PROVE  to_mcu'[i] + 1 < to_mcu'[j] + SeqMod
    BY Zenon DEF BlocksSpread
  <2>3. /\ i + 1 \in 1..Len(to_mcu) /\ j + 1 \in 1..Len(to_mcu) /\ i + 1 < j + 1
        /\ to_mcu'[i] = to_mcu[i + 1] /\ to_mcu'[j] = to_mcu[j + 1]
    BY <1>2, <1>3, <2>2
  <2>4. QED  BY <2>1, <2>2, <2>3, Zenon DEF BlocksSpread
<1>7. QED  BY <1>2, <1>4, <1>5, <1>6, Zenon

\* Taking a reply off the wire.
LEMMA PopReply ==
    ASSUME LinkInv, to_host # <<>>, to_host' = Tail(to_host),
           receive_seq' = receive_seq \/ receive_seq' = Head(to_host).seq,
           first_seq' = first_seq, next_sequence' = next_sequence,
           dispatching' = dispatching
    PROVE  /\ to_host' \in Seq(Messages) /\ Len(to_host') <= WireCap
           /\ RepliesClose' /\ RepliesSorted'
<1>1. Lengths  BY LinkFacts, Zenon
<1>t. to_host \in Seq(Messages)  BY Zenon DEF LinkInv, TypeOK
<1>2. /\ to_host' \in Seq(Messages) /\ Len(to_host') = Len(to_host) - 1
      /\ \A i \in 1..Len(to_host') : to_host'[i] = to_host[i + 1]
  BY <1>t, SeqTail, Zenon
<1>3. /\ 1 \in 1..Len(to_host) /\ Head(to_host) = to_host[1]
      /\ \A i \in 1..Len(to_host') :
             i + 1 \in 1..Len(to_host) /\ 1 < i + 1 /\ to_host'[i] = to_host[i + 1]
  BY <1>t, <1>1, <1>2, SeqEmpty DEF Lengths
<1>4. Len(to_host') <= WireCap  BY <1>1, <1>2 DEF Lengths
<1>c. RepliesClose  BY Zenon DEF LinkInv
<1>s. RepliesSorted  BY Zenon DEF LinkInv
<1>5. RepliesClose'
  <2>1. SUFFICES ASSUME NEW i \in 1..Len(to_host')
                 PROVE  /\ first_seq <= to_host'[i].seq /\ receive_seq' <= to_host'[i].seq
                        /\ to_host'[i].seq <= next_sequence
                        /\ to_host'[i].ack => to_host'[i].seq <= Done'
    BY Zenon DEF RepliesClose
  <2>2. i + 1 \in 1..Len(to_host) /\ 1 < i + 1 /\ to_host'[i] = to_host[i + 1]
    BY <1>3, Zenon
  <2>3. to_host[1].seq <= to_host[i + 1].seq  BY <1>3, <1>s, <2>2, Zenon DEF RepliesSorted
  <2>4. Done' = Done  BY Zenon DEF Done
  <2>5. QED  BY <1>3, <1>c, <2>2, <2>3, <2>4, Zenon DEF RepliesClose
<1>6. RepliesSorted'
  <2>1. SUFFICES ASSUME NEW i \in 1..Len(to_host'), NEW j \in 1..Len(to_host'), i < j
                 PROVE  to_host'[i].seq <= to_host'[j].seq
    BY Zenon DEF RepliesSorted
  <2>2. /\ i + 1 \in 1..Len(to_host) /\ j + 1 \in 1..Len(to_host) /\ i + 1 < j + 1
        /\ to_host'[i] = to_host[i + 1] /\ to_host'[j] = to_host[j + 1]
    BY <1>2, <1>3, <2>1
  <2>3. QED  BY <1>s, <2>2, Zenon DEF RepliesSorted
<1>7. QED  BY <1>2, <1>4, <1>5, <1>6, Zenon

\* Sending a reply that carries next_sequence.
LEMMA SendReply ==
    ASSUME LinkInv, NEW m \in Messages, Sendf(m), m.seq = next_sequence,
           m.ack => next_sequence <= Done', Done' \in {Done, Done + 1},
           receive_seq' = receive_seq, first_seq' = first_seq,
           next_sequence' = next_sequence
    PROVE  /\ to_host' \in Seq(Messages) /\ Len(to_host') <= WireCap
           /\ RepliesClose' /\ RepliesSorted'
<1>n. Numbers  BY LinkFacts, Zenon
<1>o. Order  BY LinkFacts, Zenon
<1>l. Lengths  BY LinkFacts, Zenon
<1>e. Elements  BY LinkFacts, Zenon
<1>d. Done \in Int  BY <1>n DEF Done, Numbers
<1>c. RepliesClose  BY Zenon DEF LinkInv
<1>s. RepliesSorted  BY Zenon DEF LinkInv
<1>1. /\ to_host' \in Seq(Messages) /\ Len(to_host') <= WireCap
      /\ Len(to_host') \in {Len(to_host), Len(to_host) + 1}
      /\ \A i \in 1..Len(to_host) : to_host'[i] = to_host[i]
      /\ \A i \in 1..Len(to_host') : i > Len(to_host) => to_host'[i] = m
  <2>1. TypeOK  BY Zenon DEF LinkInv
  <2>2. QED  BY <2>1, SendfProperties, Zenon
<1>2. \A i \in 1..Len(to_host') :
          \/ i \in 1..Len(to_host) /\ to_host'[i] = to_host[i]
          \/ i = Len(to_host) + 1 /\ to_host'[i] = m
  BY SMTT(30), <1>l, <1>1 DEF Lengths
<1>3. \A i \in 1..Len(to_host) : to_host[i].seq <= next_sequence
  BY <1>c, Zenon DEF RepliesClose
<1>4. RepliesClose'
  <2>1. SUFFICES ASSUME NEW i \in 1..Len(to_host')
                 PROVE  /\ first_seq <= to_host'[i].seq /\ receive_seq <= to_host'[i].seq
                        /\ to_host'[i].seq <= next_sequence
                        /\ to_host'[i].ack => to_host'[i].seq <= Done'
    BY Zenon DEF RepliesClose
  <2>2. CASE i \in 1..Len(to_host) /\ to_host'[i] = to_host[i]
    <3>1. to_host[i].seq \in Nat  BY <1>e, <2>2, Zenon DEF Elements
    <3>2. /\ first_seq <= to_host[i].seq /\ receive_seq <= to_host[i].seq
          /\ to_host[i].seq <= next_sequence
          /\ to_host[i].ack => to_host[i].seq <= Done
      BY <1>c, <2>2, Zenon DEF RepliesClose
    <3>3. QED  BY <1>d, <2>2, <3>1, <3>2
  <2>3. CASE to_host'[i] = m
    BY <1>n, <1>o, <2>3 DEF Numbers, Order
  <2>4. QED  BY <1>2, <2>2, <2>3, Zenon
<1>5. RepliesSorted'
  <2>1. SUFFICES ASSUME NEW i \in 1..Len(to_host'), NEW j \in 1..Len(to_host'), i < j
                 PROVE  to_host'[i].seq <= to_host'[j].seq
    BY Zenon DEF RepliesSorted
  <2>2. i \in 1..Len(to_host) /\ to_host'[i] = to_host[i]
    BY <1>l, <1>1, <1>2, <2>1 DEF Lengths
  <2>3. CASE j \in 1..Len(to_host) /\ to_host'[j] = to_host[j]
    BY <1>s, <2>1, <2>2, <2>3, Zenon DEF RepliesSorted
  <2>4. CASE to_host'[j] = m
    BY <1>3, <2>2, <2>4, Zenon
  <2>5. QED  BY <1>2, <2>3, <2>4, Zenon
<1>6. QED  BY <1>1, <1>4, <1>5, Zenon

LEMMA SendBlockKeeps ==
    ASSUME LinkInv, NEW notify \in BOOLEAN, SendBlock(notify)
    PROVE  LinkInv'
<1>n. Numbers  BY LinkFacts, Zenon
<1>o. Order  BY LinkFacts, Zenon
<1>l. Lengths  BY LinkFacts, Zenon
<1>t. TypeOK  BY Zenon DEF LinkInv
<1>1. /\ send_seq' = send_seq + 1 /\ send_seq - receive_seq < MaxPending
      /\ receive_seq' = receive_seq /\ next_sequence' = next_sequence
      /\ first_seq' = first_seq
  BY Zenon DEF SendBlock, WindowOpen, mcu
<1>2. /\ to_mcu' \in Seq(Nat) /\ Len(to_mcu') <= WireCap /\ Len(to_mcu') \in Nat
      /\ WireCap > 0 /\ to_mcu # <<>> => to_mcu' # <<>>
      /\ \A i \in 1..Len(to_mcu') :
             \/ i \in 1..Len(to_mcu) /\ to_mcu'[i] = to_mcu[i]
             \/ i = Len(to_mcu) + 1 /\ to_mcu'[i] = send_seq
  <2>1. to_mcu \in Seq(Nat) /\ <<send_seq>> \in Seq(Nat)
    BY <1>t, <1>n DEF TypeOK, Numbers
  <2>2. Len(<<send_seq>>) = 1 /\ <<send_seq>>[1] = send_seq  BY Zenon
  <2>3. to_mcu' = Write(to_mcu, <<send_seq>>)  BY Zenon DEF SendBlock
  <2>4. /\ to_mcu' \in Seq(Nat) /\ Len(to_mcu') <= WireCap
        /\ WireCap > 0 /\ to_mcu # <<>> => to_mcu' # <<>>
        /\ \A i \in 1..Len(to_mcu') :
               /\ i <= Len(to_mcu) => to_mcu'[i] = to_mcu[i]
               /\ i > Len(to_mcu) => /\ i - Len(to_mcu) \in 1..Len(<<send_seq>>)
                                     /\ to_mcu'[i] = <<send_seq>>[i - Len(to_mcu)]
    BY <2>1, <2>3, WriteProperties, ZenonT(30)
  <2>5. Len(to_mcu') \in Nat /\ Len(to_mcu) \in Nat
    BY <2>4, <1>l, SeqLength, Zenon DEF Lengths
  <2>6. ASSUME NEW i \in 1..Len(to_mcu')
        PROVE  \/ i \in 1..Len(to_mcu) /\ to_mcu'[i] = to_mcu[i]
               \/ i = Len(to_mcu) + 1 /\ to_mcu'[i] = send_seq
    <3>1. CASE i <= Len(to_mcu)  BY <2>4, <2>5, <3>1
    <3>2. CASE i > Len(to_mcu)
      <4>1. /\ i - Len(to_mcu) \in 1..Len(<<send_seq>>)
            /\ to_mcu'[i] = <<send_seq>>[i - Len(to_mcu)]
        BY <2>4, <3>2, Zenon
      <4>2. i - Len(to_mcu) = 1  BY <2>2, <2>5, <4>1
      <4>3. QED  BY <2>2, <2>5, <4>1, <4>2
    <3>3. QED  BY <2>5, <3>1, <3>2
  <2>7. QED  BY <2>4, <2>5, <2>6, Zenon
<1>3. TypeOK'
  <2>1. sent_queue' \in Seq(Nat) /\ notify_queue' \in Seq(Nat)
    BY <1>t, SeqAppend, Zenon DEF SendBlock, TypeOK
  <2>2. retransmit_timer' \in {"never", "now", "rto"}
    BY <1>t, Zenon DEF SendBlock, TypeOK
  <2>3. send_seq' \in Nat  BY <1>1, <1>n DEF Numbers
  <2>4. /\ receive_seq' = receive_seq /\ last_ack_seq' = last_ack_seq
        /\ ignore_nak_seq' = ignore_nak_seq /\ retransmit_seq' = retransmit_seq
        /\ receive_queue' = receive_queue /\ to_host' = to_host
        /\ next_sequence' = next_sequence /\ sync_state' = sync_state
        /\ dispatching' = dispatching /\ dispatched' = dispatched
        /\ first_seq' = first_seq /\ faults' = faults /\ replies' = replies
    BY Zenon DEF SendBlock, mcu
  <2>5. QED  BY <1>t, <1>2, <2>1, <2>2, <2>3, <2>4, Zenon DEF TypeOK
<1>4. HostCounters'
  <2>1. SentQueueMatches  BY Zenon DEF LinkInv, HostCounters
  <2>2. /\ Len(sent_queue') = Len(sent_queue) + 1
        /\ \A i \in 1..Len(sent_queue) : sent_queue'[i] = sent_queue[i]
        /\ sent_queue'[Len(sent_queue) + 1] = send_seq
    BY <1>t, SeqAppend DEF SendBlock, TypeOK
  <2>3. /\ send_seq \in Nat /\ receive_seq \in Nat /\ Len(sent_queue) \in Nat
        /\ MaxPending \in Nat
    BY <1>n, <1>l, Zenon DEF Numbers, Lengths
  <2>4. SentQueueMatches'
    BY <1>1, <2>1, <2>2, <2>3 DEF SentQueueMatches
  <2>5. QED
    BY <1>1, <1>n, <1>o, <2>4 DEF HostCounters, AckedWasDispatched, Order, Numbers
<1>c. BlocksClose  BY Zenon DEF LinkInv
<1>e. \A i \in 1..Len(to_mcu) : to_mcu[i] \in Nat  BY LinkFacts, Zenon DEF Elements
<1>5. BlocksClose'
  <2>1. next_sequence < send_seq + SeqMod  BY <1>n, <1>o DEF Numbers, Order
  <2>2. \A i \in 1..Len(to_mcu) : to_mcu[i] # SYNC => to_mcu[i] < send_seq + 1
    BY <1>c, <1>e, <1>n DEF BlocksClose, Numbers
  <2>3. send_seq < send_seq + 1  BY <1>n DEF Numbers
  <2>4. QED  BY <1>1, <1>2, <1>c, <2>1, <2>2, <2>3, Zenon DEF BlocksClose
<1>6. BlocksSpread'
  <2>1. BlocksSpread  BY Zenon DEF LinkInv
  <2>2. SUFFICES ASSUME NEW i \in 1..Len(to_mcu'), NEW j \in 1..Len(to_mcu'), i < j,
                        to_mcu'[i] # SYNC, to_mcu'[j] # SYNC
                 PROVE  to_mcu'[i] + 1 < to_mcu'[j] + SeqMod
    BY Zenon DEF BlocksSpread
  <2>3. i \in 1..Len(to_mcu) /\ to_mcu'[i] = to_mcu[i]
    <3>1. j \in 1..Len(to_mcu) \/ j = Len(to_mcu) + 1  BY <1>2, Zenon
    <3>2. i # Len(to_mcu) + 1  BY <1>2, <1>l, <2>2, <3>1, SMTT(30) DEF Lengths
    <3>3. QED  BY <1>2, <3>2, Zenon
  <2>4. CASE j \in 1..Len(to_mcu) /\ to_mcu'[j] = to_mcu[j]
    BY <2>1, <2>2, <2>3, <2>4, Zenon DEF BlocksSpread
  <2>5. CASE to_mcu'[j] = send_seq
    <3>1. to_mcu[i] < send_seq /\ to_mcu[i] \in Nat
      BY <1>c, <1>e, <2>2, <2>3, Zenon DEF BlocksClose
    <3>2. QED  BY <1>n, <2>3, <2>5, <3>1 DEF Numbers
  <2>6. QED  BY <1>2, <2>4, <2>5, Zenon
<1>z. to_mcu # <<>> => Len(to_mcu) # 0
  <2>1. to_mcu \in Seq(Nat)  BY <1>t, Zenon DEF TypeOK
  <2>2. QED  BY <2>1, SeqEmpty, Zenon
<1>7. DispatchingHeld'
  <2>1. dispatching' = dispatching  BY Zenon DEF SendBlock, mcu
  <2>2. to_mcu # <<>> => WireCap > 0  BY <1>l, <1>z DEF Lengths
  <2>3. QED  BY <1>2, <2>1, <2>2, Zenon DEF DispatchingHeld, LinkInv
<1>8. RepliesClose' /\ RepliesSorted' /\ DispatchedInOrder' /\ NotifiedAfterDispatch'
  BY Zenon DEF SendBlock, LinkInv, RepliesClose, RepliesSorted, DispatchedInOrder,
     NotifiedAfterDispatch, Done, mcu
<1>9. QED  BY <1>3, <1>4, <1>5, <1>6, <1>7, <1>8, Zenon DEF LinkInv

\* What the steps of the mcu and the wire leave alone.
LEMMA HostSame ==
    ASSUME LinkInv, UNCHANGED host, next_sequence' = next_sequence,
           first_seq' = first_seq
    PROVE  HostCounters'
  BY Zenon DEF LinkInv, HostCounters, SentQueueMatches, AckedWasDispatched, host

\* A dispatch only ends between two states, so what was below Done stays so.
LEMMA DoneGrows ==
    ASSUME LinkInv, next_sequence' = next_sequence,
           dispatching' = dispatching \/ dispatching' = NoBlock
    PROVE  /\ Done \in Int /\ Done' \in {Done, Done + 1} /\ Done <= Done'
           /\ dispatching' = NoBlock => Done' = next_sequence
<1>1. next_sequence \in Nat  BY LinkFacts, Zenon DEF Numbers
<1>2. QED  BY <1>1 DEF Done

LEMMA NotifiedStays ==
    ASSUME LinkInv, receive_queue' = receive_queue, Done' \in Int, Done \in Int,
           Done <= Done'
    PROVE  NotifiedAfterDispatch'
<1>1. NotifiedAfterDispatch  BY Zenon DEF LinkInv
<1>2. \A i \in 1..Len(receive_queue) : receive_queue[i].of \in Nat
  <2>1. receive_queue \in Seq(Entries)  BY Zenon DEF LinkInv, TypeOK
  <2>2. \A i \in 1..Len(receive_queue) : receive_queue[i] \in Entries
    BY <2>1, SeqElement, Zenon
  <2>3. \A e \in Entries : e.of \in Nat  BY Zenon DEF Entries
  <2>4. QED  BY <2>2, <2>3, Zenon
<1>3. QED  BY <1>1, <1>2 DEF NotifiedAfterDispatch

\* Every step that pops a block and may ack or nak: PopAndAck, NakBlock,
\* SkipSync, NeedSync and LoseBlock.
LEMMA PopKeeps ==
    ASSUME LinkInv, to_mcu # <<>>, to_mcu' = Tail(to_mcu), UNCHANGED host,
           next_sequence' = next_sequence, dispatching' = NoBlock,
           dispatched' = dispatched, first_seq' = first_seq, replies' = replies,
           to_host' = to_host \/ Sendf(Ack(next_sequence)),
           sync_state' \in SUBSET {"CF_NEED_SYNC", "CF_NEED_VALID"}, faults' \in Nat
    PROVE  LinkInv'
<1>n. Numbers  BY LinkFacts, Zenon
<1>t. TypeOK  BY Zenon DEF LinkInv
<1>d. /\ Done \in Int /\ Done' \in {Done, Done + 1} /\ Done <= Done'
      /\ Done' = next_sequence
  BY DoneGrows, Zenon
<1>1. /\ to_mcu' \in Seq(Nat) /\ Len(to_mcu') <= WireCap
      /\ BlocksClose' /\ BlocksSpread'
  <2>1. send_seq' = send_seq  BY Zenon DEF host
  <2>2. QED  BY <2>1, PopBlock, Zenon
<1>2. /\ to_host' \in Seq(Messages) /\ Len(to_host') <= WireCap
      /\ RepliesClose' /\ RepliesSorted'
  <2>0. receive_seq' = receive_seq  BY Zenon DEF host
  <2>1. CASE Sendf(Ack(next_sequence))
    <3>1. /\ Ack(next_sequence) \in Messages
          /\ Ack(next_sequence).seq = next_sequence
      BY <1>n, Zenon DEF Ack, Messages, Numbers, NoBlock
    <3>2. next_sequence <= Done'  BY <1>d, <1>n DEF Numbers
    <3>3. QED  BY <1>d, <2>0, <2>1, <3>1, <3>2, SendReply, Zenon
  <2>2. CASE to_host' = to_host
    <3>1. to_host' \in Seq(Messages) /\ Len(to_host') <= WireCap
      BY <1>t, <2>2, Zenon DEF TypeOK
    <3>2. RepliesSorted'  BY <2>2, Zenon DEF LinkInv, RepliesSorted
    <3>3. RepliesClose'
      <4>1. RepliesClose  BY Zenon DEF LinkInv
      <4>2. \A i \in 1..Len(to_host) : to_host[i].seq \in Nat
        BY LinkFacts, Zenon DEF Elements
      <4>3. QED  BY <1>d, <2>0, <2>2, <4>1, <4>2, Zenon DEF RepliesClose
    <3>4. QED  BY <3>1, <3>2, <3>3, Zenon
  <2>3. QED  BY <2>1, <2>2, Zenon
<1>3. TypeOK'
  <2>1. dispatching' \in Nat  BY Zenon DEF NoBlock
  <2>2. QED  BY <1>t, <1>1, <1>2, <2>1, Zenon DEF TypeOK, host
<1>4. HostCounters'  BY HostSame, Zenon
<1>5. DispatchingHeld'  BY Zenon DEF DispatchingHeld
<1>6. DispatchedInOrder'  BY Zenon DEF LinkInv, DispatchedInOrder
<1>7. NotifiedAfterDispatch'
  <2>1. receive_queue' = receive_queue  BY Zenon DEF host
  <2>2. Done' \in Int  BY <1>d
  <2>3. QED  BY <1>d, <2>1, <2>2, NotifiedStays, Zenon
<1>8. QED  BY <1>1, <1>2, <1>3, <1>4, <1>5, <1>6, <1>7, Zenon DEF LinkInv

\* Reply and TaskSendf.
LEMMA DataKeeps ==
    ASSUME LinkInv, NEW blk \in Nat, Sendf(Data(next_sequence, blk)),
           UNCHANGED <<host, to_mcu, mcu, first_seq, faults>>, replies' = replies + 1
    PROVE  LinkInv'
<1>n. Numbers  BY LinkFacts, Zenon
<1>t. TypeOK  BY Zenon DEF LinkInv
<1>0. /\ receive_seq' = receive_seq /\ next_sequence' = next_sequence
      /\ first_seq' = first_seq /\ dispatching' = dispatching
      /\ dispatched' = dispatched /\ to_mcu' = to_mcu /\ send_seq' = send_seq
      /\ receive_queue' = receive_queue /\ UNCHANGED host
  BY Zenon DEF host, mcu
<1>d. /\ Done \in Int /\ Done' \in {Done, Done + 1} /\ Done <= Done'
  BY <1>0, DoneGrows, Zenon
<1>1. /\ to_host' \in Seq(Messages) /\ Len(to_host') <= WireCap
      /\ RepliesClose' /\ RepliesSorted'
  <2>1. /\ Data(next_sequence, blk) \in Messages
        /\ Data(next_sequence, blk).seq = next_sequence
        /\ ~Data(next_sequence, blk).ack
    BY <1>n, Zenon DEF Data, Messages, Numbers
  <2>2. QED  BY <1>0, <1>d, <2>1, SendReply, Zenon
<1>2. TypeOK'  BY <1>t, <1>1 DEF TypeOK, host, mcu
<1>3. HostCounters'  BY <1>0, HostSame, Zenon
<1>4. BlocksClose' /\ BlocksSpread' /\ DispatchingHeld' /\ DispatchedInOrder'
  BY <1>0, Zenon DEF LinkInv, BlocksClose, BlocksSpread, DispatchingHeld, DispatchedInOrder
<1>5. NotifiedAfterDispatch'
  <2>1. Done' \in Int  BY <1>d
  <2>2. QED  BY <1>0, <1>d, <2>1, NotifiedStays, Zenon
<1>6. QED  BY <1>1, <1>2, <1>3, <1>4, <1>5, Zenon DEF LinkInv

LEMMA ShutdownInDispatchKeeps ==
    ASSUME LinkInv, ShutdownInDispatch
    PROVE  LinkInv'
<1>t. TypeOK  BY Zenon DEF LinkInv
<1>0. /\ receive_seq' = receive_seq /\ next_sequence' = next_sequence
      /\ first_seq' = first_seq /\ dispatching' = NoBlock
      /\ dispatched' = dispatched /\ to_mcu' = to_mcu /\ to_host' = to_host
      /\ send_seq' = send_seq /\ receive_queue' = receive_queue /\ UNCHANGED host
  BY Zenon DEF ShutdownInDispatch, host
<1>d. Done \in Int /\ Done' \in {Done, Done + 1} /\ Done <= Done'
  BY <1>0, DoneGrows, Zenon
<1>1. TypeOK'  BY <1>t DEF TypeOK, ShutdownInDispatch, host, NoBlock
<1>2. HostCounters'  BY <1>0, HostSame, Zenon
<1>3. BlocksClose' /\ BlocksSpread' /\ DispatchingHeld' /\ DispatchedInOrder' /\ RepliesSorted'
  BY <1>0, Zenon DEF LinkInv, BlocksClose, BlocksSpread, DispatchingHeld,
     DispatchedInOrder, RepliesSorted
<1>4. RepliesClose'
  <2>1. RepliesClose  BY Zenon DEF LinkInv
  <2>2. \A i \in 1..Len(to_host) : to_host[i].seq \in Nat
    BY LinkFacts, Zenon DEF Elements
  <2>3. QED  BY <1>0, <1>d, <2>1, <2>2 DEF RepliesClose
<1>5. NotifiedAfterDispatch'
  <2>1. Done' \in Int  BY <1>d
  <2>2. QED  BY <1>0, <1>d, <2>1, NotifiedStays, Zenon
<1>6. QED  BY <1>1, <1>2, <1>3, <1>4, <1>5, Zenon DEF LinkInv

LEMMA LoseReplyKeeps ==
    ASSUME LinkInv, LoseReply
    PROVE  LinkInv'
<1>t. TypeOK  BY Zenon DEF LinkInv
<1>0. /\ receive_seq' = receive_seq /\ next_sequence' = next_sequence
      /\ first_seq' = first_seq /\ dispatching' = dispatching
      /\ dispatched' = dispatched /\ to_mcu' = to_mcu /\ send_seq' = send_seq
      /\ receive_queue' = receive_queue /\ UNCHANGED host
      /\ to_host # <<>> /\ to_host' = Tail(to_host)
  BY Zenon DEF LoseReply, host, mcu
<1>1. /\ to_host' \in Seq(Messages) /\ Len(to_host') <= WireCap
      /\ RepliesClose' /\ RepliesSorted'
  BY <1>0, PopReply, Zenon
<1>2. TypeOK'  BY <1>t, <1>1 DEF TypeOK, LoseReply, host, mcu
<1>3. HostCounters'  BY <1>0, HostSame, Zenon
<1>4. /\ BlocksClose' /\ BlocksSpread' /\ DispatchingHeld' /\ DispatchedInOrder'
      /\ NotifiedAfterDispatch'
  BY <1>0, Zenon DEF LinkInv, BlocksClose, BlocksSpread, DispatchingHeld,
     DispatchedInOrder, NotifiedAfterDispatch, Done
<1>5. QED  BY <1>1, <1>2, <1>3, <1>4, Zenon DEF LinkInv

\* The step the sequence numbers are there for: the block found is the one
\* expected, because all blocks on the wire are close.
LEMMA FoundIsNext ==
    ASSUME LinkInv, FindBlock
    PROVE  /\ 1 \in 1..Len(to_mcu) /\ Head(to_mcu) = to_mcu[1]
           /\ to_mcu[1] = next_sequence /\ next_sequence < send_seq
<1>n. Numbers  BY LinkFacts, Zenon
<1>o. Order  BY LinkFacts, Zenon
<1>l. Lengths  BY LinkFacts, Zenon
<1>1. 1 \in 1..Len(to_mcu) /\ Head(to_mcu) = to_mcu[1]
  <2>1. to_mcu \in Seq(Nat)  BY Zenon DEF LinkInv, TypeOK
  <2>2. to_mcu # <<>>  BY Zenon DEF FindBlock
  <2>3. Len(to_mcu) # 0  BY <2>1, <2>2, SeqEmpty, Zenon
  <2>4. QED  BY <1>l, <2>1, <2>2, <2>3 DEF Lengths
<1>2. to_mcu[1] \in Nat  BY <1>1, LinkFacts, Zenon DEF Elements
<1>3. to_mcu[1] < send_seq /\ next_sequence < to_mcu[1] + SeqMod
  <2>1. BlocksClose  BY Zenon DEF LinkInv
  <2>2. to_mcu[1] # SYNC  BY <1>1, Zenon DEF FindBlock
  <2>3. QED  BY <1>1, <2>1, <2>2, Zenon DEF BlocksClose
<1>4. to_mcu[1] < next_sequence + SeqMod
  BY <1>n, <1>o, <1>2, <1>3 DEF Numbers, Order
<1>5. to_mcu[1] % SeqMod = next_sequence % SeqMod
  BY <1>1, Zenon DEF FindBlock, WireSeq
<1>6. to_mcu[1] = next_sequence
  <2>1. SeqMod \in Nat /\ 0 < SeqMod /\ next_sequence \in Int /\ to_mcu[1] \in Int
    BY <1>n, <1>2 DEF Numbers
  <2>2. QED  BY <1>3, <1>4, <1>5, <2>1, SameResidue, Zenon
<1>7. QED  BY <1>1, <1>3, <1>6, Zenon

LEMMA FindBlockKeeps ==
    ASSUME LinkInv, FindBlock
    PROVE  LinkInv'
<1>n. Numbers  BY LinkFacts, Zenon
<1>o. Order  BY LinkFacts, Zenon
<1>l. Lengths  BY LinkFacts, Zenon
<1>t. TypeOK  BY Zenon DEF LinkInv
<1>f. /\ 1 \in 1..Len(to_mcu) /\ Head(to_mcu) = to_mcu[1]
      /\ to_mcu[1] = next_sequence /\ next_sequence < send_seq
  BY FoundIsNext, Zenon
<1>0. /\ receive_seq' = receive_seq /\ next_sequence' = next_sequence + 1
      /\ first_seq' = first_seq /\ dispatching' = next_sequence
      /\ dispatching = NoBlock /\ dispatched' = Append(dispatched, next_sequence)
      /\ to_mcu' = to_mcu /\ to_host' = to_host /\ send_seq' = send_seq
      /\ sent_queue' = sent_queue /\ receive_queue' = receive_queue /\ to_mcu # <<>>
  BY <1>f, Zenon DEF FindBlock, host
<1>d. Done' = Done /\ Done = next_sequence
  BY <1>0, <1>n, <1>o DEF Done, Numbers, Order, NoBlock
<1>1. TypeOK'
  <2>1. next_sequence' \in Nat /\ dispatching' \in Nat  BY <1>0, <1>n DEF Numbers
  <2>2. dispatched' \in Seq(Nat)
    BY <1>0, <1>n, <1>t, SeqAppend, Zenon DEF TypeOK, Numbers
  <2>3. QED  BY <1>t, <2>1, <2>2, Zenon DEF TypeOK, FindBlock, host
<1>2. HostCounters'
  <2>1. SentQueueMatches'
    BY <1>0, Zenon DEF LinkInv, HostCounters, SentQueueMatches
  <2>2. QED
    BY <1>0, <1>f, <1>n, <1>o, <2>1
       DEF HostCounters, AckedWasDispatched, Numbers, Order
<1>3. BlocksClose'
  <2>1. BlocksClose /\ BlocksSpread /\ Elements  BY LinkFacts, Zenon DEF LinkInv
  <2>2. SUFFICES ASSUME NEW i \in 1..Len(to_mcu), to_mcu[i] # SYNC
                 PROVE  to_mcu[i] < send_seq /\ next_sequence + 1 < to_mcu[i] + SeqMod
    BY <1>0, Zenon DEF BlocksClose
  <2>3. to_mcu[i] \in Nat /\ to_mcu[i] < send_seq
    BY <2>1, <2>2, Zenon DEF BlocksClose, Elements
  <2>4. CASE i = 1  BY <1>f, <1>n, <2>3, <2>4 DEF Numbers
  <2>5. CASE 1 < i
    <3>1. to_mcu[1] # SYNC  BY <1>f, Zenon DEF FindBlock
    <3>2. to_mcu[1] + 1 < to_mcu[i] + SeqMod
      BY <1>f, <2>1, <2>2, <2>5, <3>1, Zenon DEF BlocksSpread
    <3>3. QED  BY <1>f, <2>3, <3>2, Zenon
  <2>6. QED  BY <1>l, <2>4, <2>5 DEF Lengths
<1>4. RepliesClose'
  <2>1. RepliesClose  BY Zenon DEF LinkInv
  <2>2. \A i \in 1..Len(to_host) : to_host[i].seq \in Nat
    BY LinkFacts, Zenon DEF Elements
  <2>3. \A i \in 1..Len(to_host) : to_host[i].seq <= next_sequence + 1
    BY <1>n, <2>1, <2>2 DEF RepliesClose, Numbers
  <2>4. QED  BY <1>0, <1>d, <2>1, <2>3, Zenon DEF RepliesClose
<1>5. BlocksSpread' /\ RepliesSorted' /\ DispatchingHeld' /\ NotifiedAfterDispatch'
  BY <1>0, <1>d, Zenon
     DEF LinkInv, BlocksSpread, RepliesSorted, DispatchingHeld, NotifiedAfterDispatch
<1>6. DispatchedInOrder'
  <2>1. DispatchedInOrder  BY Zenon DEF LinkInv
  <2>2. /\ Len(dispatched') = Len(dispatched) + 1
        /\ \A i \in 1..Len(dispatched) : dispatched'[i] = dispatched[i]
        /\ dispatched'[Len(dispatched) + 1] = next_sequence
    BY <1>0, <1>n, <1>t, SeqAppend DEF TypeOK, Numbers
  <2>3. Len(dispatched) \in Nat /\ first_seq \in Nat  BY <1>n, <1>l, Zenon DEF Numbers, Lengths
  <2>4. QED  BY <1>0, <2>1, <2>2, <2>3 DEF DispatchedInOrder
<1>7. QED  BY <1>1, <1>2, <1>3, <1>4, <1>5, <1>6, Zenon DEF LinkInv

LEMMA RetransmitEventKeeps ==
    ASSUME LinkInv, RetransmitEvent
    PROVE  LinkInv'
<1>n. Numbers  BY LinkFacts, Zenon
<1>o. Order  BY LinkFacts, Zenon
<1>l. Lengths  BY LinkFacts, Zenon
<1>t. TypeOK  BY Zenon DEF LinkInv
<1>0. /\ send_seq' = send_seq /\ receive_seq' = receive_seq
      /\ sent_queue' = sent_queue /\ receive_queue' = receive_queue
      /\ to_host' = to_host /\ next_sequence' = next_sequence
      /\ dispatching' = dispatching /\ dispatched' = dispatched
      /\ first_seq' = first_seq
  BY Zenon DEF RetransmitEvent, mcu
<1>1. PICK kept \in 0..Len(to_mcu) :
          /\ dispatching # NoBlock => kept > 0
          /\ to_mcu' = Write(SubSeq(to_mcu, 1, kept), <<SYNC>> \o sent_queue)
  BY Zenon DEF RetransmitEvent
<1>2. /\ SubSeq(to_mcu, 1, kept) \in Seq(Nat)
      /\ Len(SubSeq(to_mcu, 1, kept)) = kept
      /\ \A i \in 1..kept : SubSeq(to_mcu, 1, kept)[i] = to_mcu[i]
  <2>1. \A i \in 1..kept : to_mcu[i] \in Nat
    BY <1>l, LinkFacts DEF Lengths, Elements
  <2>2. kept \in Nat  BY <1>l DEF Lengths
  <2>3. QED  BY <2>1, <2>2, SeqPart
<1>3. /\ <<SYNC>> \o sent_queue \in Seq(Nat)
      /\ \A i \in 1..Len(<<SYNC>> \o sent_queue) :
             \/ (<<SYNC>> \o sent_queue)[i] = SYNC
             \/ /\ (<<SYNC>> \o sent_queue)[i] \in Nat
                /\ receive_seq <= (<<SYNC>> \o sent_queue)[i]
                /\ (<<SYNC>> \o sent_queue)[i] < send_seq
  <2>1. <<SYNC>> \in Seq(Nat) /\ Len(<<SYNC>>) = 1 /\ <<SYNC>>[1] = SYNC
    BY DEF SYNC
  <2>2. sent_queue \in Seq(Nat) /\ Len(sent_queue) \in Nat
    BY <1>t, <1>l, Zenon DEF TypeOK, Lengths
  <2>3. /\ <<SYNC>> \o sent_queue \in Seq(Nat)
        /\ Len(<<SYNC>> \o sent_queue) = 1 + Len(sent_queue)
        /\ \A i \in 1..1 + Len(sent_queue) : (<<SYNC>> \o sent_queue)[i] =
               IF i <= 1 THEN <<SYNC>>[i] ELSE sent_queue[i - 1]
    BY <2>1, <2>2, SeqConcat, Zenon
  <2>4. \A i \in 1..Len(sent_queue) :
            sent_queue[i] \in Nat /\ receive_seq <= sent_queue[i] /\ sent_queue[i] < send_seq
    <3>1. SentQueueMatches  BY Zenon DEF LinkInv, HostCounters
    <3>2. QED  BY <1>n, <2>2, <3>1, SMTT(30) DEF SentQueueMatches, Numbers
  <2>5. ASSUME NEW i \in 1..1 + Len(sent_queue)
        PROVE  (<<SYNC>> \o sent_queue)[i] = SYNC
               \/ (i - 1 \in 1..Len(sent_queue)
                   /\ (<<SYNC>> \o sent_queue)[i] = sent_queue[i - 1])
    BY <2>1, <2>2, <2>3
  <2>6. QED  BY <2>3, <2>4, <2>5, Zenon
<1>4. /\ to_mcu' \in Seq(Nat) /\ Len(to_mcu') <= WireCap
      /\ (WireCap > 0 /\ SubSeq(to_mcu, 1, kept) # <<>>) => to_mcu' # <<>>
      /\ \A i \in 1..Len(to_mcu') :
             /\ i <= kept => to_mcu'[i] = SubSeq(to_mcu, 1, kept)[i]
             /\ i > kept => /\ i - kept \in 1..Len(<<SYNC>> \o sent_queue)
                            /\ to_mcu'[i] = (<<SYNC>> \o sent_queue)[i - kept]
  <2> DEFINE wire == SubSeq(to_mcu, 1, kept)
             items == <<SYNC>> \o sent_queue
  <2>1. wire \in Seq(Nat) /\ items \in Seq(Nat) /\ Len(wire) = kept  BY <1>2, <1>3, Zenon
  <2>2. to_mcu' = Write(wire, items)  BY <1>1, Zenon
  <2> HIDE DEF wire, items
  <2>3. /\ to_mcu' \in Seq(Nat) /\ Len(to_mcu') <= WireCap
        /\ (WireCap > 0 /\ wire # <<>>) => to_mcu' # <<>>
        /\ \A i \in 1..Len(to_mcu') :
               /\ i <= kept => to_mcu'[i] = wire[i]
               /\ i > kept => /\ i - kept \in 1..Len(items)
                              /\ to_mcu'[i] = items[i - kept]
    BY <2>1, <2>2, WriteProperties, ZenonT(30)
  <2>4. QED  BY <2>3, Zenon DEF wire, items
<1>5. \A i \in 1..Len(to_mcu') :
          \/ i <= kept /\ i \in 1..Len(to_mcu) /\ to_mcu'[i] = to_mcu[i]
          \/ i > kept /\ to_mcu'[i] = SYNC
          \/ /\ i > kept /\ to_mcu'[i] \in Nat
             /\ receive_seq <= to_mcu'[i] /\ to_mcu'[i] < send_seq
  <2>1. TAKE i \in 1..Len(to_mcu')
  <2>2. CASE i <= kept
    <3>1. i \in 1..kept /\ i \in 1..Len(to_mcu)  BY <1>l, <2>2 DEF Lengths
    <3>2. QED  BY <1>2, <1>4, <2>2, <3>1, Zenon
  <2>3. CASE i > kept
    <3>1. /\ i - kept \in 1..Len(<<SYNC>> \o sent_queue)
          /\ to_mcu'[i] = (<<SYNC>> \o sent_queue)[i - kept]
      BY <1>4, <2>3, Zenon
    <3>2. QED  BY <1>3, <2>3, <3>1, ZenonT(30)
  <2>4. kept \in Nat /\ i \in Int  BY <1>l DEF Lengths
  <2>5. QED  BY <2>2, <2>3, <2>4
<1>c. BlocksClose  BY Zenon DEF LinkInv
<1>e. \A i \in 1..Len(to_mcu) : to_mcu[i] \in Nat  BY LinkFacts, Zenon DEF Elements
<1>6. \A i \in 1..Len(to_mcu') : to_mcu'[i] # SYNC =>
          to_mcu'[i] \in Nat /\ to_mcu'[i] < send_seq
  <2>1. SUFFICES ASSUME NEW i \in 1..Len(to_mcu'), to_mcu'[i] # SYNC
                 PROVE  to_mcu'[i] \in Nat /\ to_mcu'[i] < send_seq
    BY Zenon
  <2>2. CASE i \in 1..Len(to_mcu) /\ to_mcu'[i] = to_mcu[i]
    BY <1>c, <1>e, <2>1, <2>2, Zenon DEF BlocksClose
  <2>3. QED  BY <1>5, <2>1, <2>2, Zenon
<1>7. BlocksClose'
  <2>1. SUFFICES ASSUME NEW i \in 1..Len(to_mcu'), to_mcu'[i] # SYNC
                 PROVE  next_sequence < to_mcu'[i] + SeqMod
    BY <1>0, <1>6, Zenon DEF BlocksClose
  <2>2. CASE i \in 1..Len(to_mcu) /\ to_mcu'[i] = to_mcu[i]
    BY <1>c, <2>1, <2>2, Zenon DEF BlocksClose
  <2>3. CASE to_mcu'[i] \in Nat /\ receive_seq <= to_mcu'[i]
    BY <1>n, <1>o, <2>3 DEF Numbers, Order
  <2>4. QED  BY <1>5, <2>1, <2>2, <2>3, Zenon
<1>8. BlocksSpread'
  <2>1. SUFFICES ASSUME NEW i \in 1..Len(to_mcu'), NEW j \in 1..Len(to_mcu'), i < j,
                        to_mcu'[i] # SYNC, to_mcu'[j] # SYNC
                 PROVE  to_mcu'[i] + 1 < to_mcu'[j] + SeqMod
    BY Zenon DEF BlocksSpread
  <2>2. to_mcu'[i] \in Nat /\ to_mcu'[i] < send_seq  BY <1>6, <2>1, Zenon
  <2>3. CASE to_mcu'[j] \in Nat /\ receive_seq <= to_mcu'[j]
    BY <1>n, <1>o, <2>2, <2>3, SMTT(30) DEF Numbers, Order
  <2>4. CASE j <= kept /\ j \in 1..Len(to_mcu) /\ to_mcu'[j] = to_mcu[j]
    <3>1. BlocksSpread  BY Zenon DEF LinkInv
    <3>2. i <= kept  BY <2>1, <2>4
    <3>3. i \in 1..Len(to_mcu) /\ to_mcu'[i] = to_mcu[i]  BY <1>5, <3>2
    <3>4. QED  BY <2>1, <2>4, <3>1, <3>3, Zenon DEF BlocksSpread
  <2>5. QED  BY <1>5, <2>1, <2>3, <2>4, Zenon
<1>9. TypeOK'
  <2>1. ignore_nak_seq' \in Nat /\ retransmit_seq' \in Nat
    BY <1>t, Zenon DEF TypeOK, RetransmitEvent, Larger
  <2>2. retransmit_timer' \in {"never", "now", "rto"}  BY Zenon DEF RetransmitEvent
  <2>3. QED  BY <1>t, <1>0, <1>4, <2>1, <2>2, Zenon DEF TypeOK, RetransmitEvent, mcu
<1>10. HostCounters'
  BY <1>0, Zenon DEF LinkInv, HostCounters, SentQueueMatches, AckedWasDispatched
<1>11. DispatchingHeld'
  <2>1. SUFFICES ASSUME dispatching # NoBlock  PROVE to_mcu' # <<>>
    BY <1>0, Zenon DEF DispatchingHeld
  <2>2. kept > 0  BY <1>1, <2>1, Zenon
  <2>3. SubSeq(to_mcu, 1, kept) # <<>>  BY <1>2, <2>2, SeqEmpty
  <2>4. WireCap > 0  BY <1>l, <2>2, SMTT(30) DEF Lengths
  <2>5. QED  BY <1>4, <2>3, <2>4, Zenon
<1>12. RepliesClose' /\ RepliesSorted' /\ DispatchedInOrder' /\ NotifiedAfterDispatch'
  BY <1>0, Zenon DEF LinkInv, RepliesClose, RepliesSorted, DispatchedInOrder,
     NotifiedAfterDispatch, Done
<1>13. QED  BY <1>7, <1>8, <1>9, <1>10, <1>11, <1>12, Zenon DEF LinkInv

\* The number handle_message rebuilds is the one the mcu sent, so the reply is
\* never taken for the acknowledgement of a block not sent.
LEMMA ReplySeqIsSeq ==
    ASSUME LinkInv, to_host # <<>>
    PROVE  LET m == Head(to_host) IN
           /\ m \in Messages /\ m.seq \in Nat
           /\ ReplySeq(m) = m.seq /\ ~Unsent(m.seq)
           /\ receive_seq <= m.seq /\ m.seq <= next_sequence
           /\ first_seq <= m.seq /\ (m.ack => m.seq <= Done)
<1> DEFINE m == Head(to_host)
<1>n. Numbers  BY LinkFacts, Zenon
<1>o. Order  BY LinkFacts, Zenon
<1>l. Lengths  BY LinkFacts, Zenon
<1>1. 1 \in 1..Len(to_host) /\ m = to_host[1]
  <2>1. to_host \in Seq(Messages)  BY Zenon DEF LinkInv, TypeOK
  <2>2. Len(to_host) # 0  BY <2>1, SeqEmpty, Zenon
  <2>3. QED  BY <1>l, <2>1, <2>2 DEF Lengths
<1>2. m \in Messages /\ m.seq \in Nat  BY <1>1, LinkFacts, Zenon DEF Elements
<1>3. /\ receive_seq <= m.seq /\ m.seq <= next_sequence
      /\ first_seq <= m.seq /\ (m.ack => m.seq <= Done)
  <2>1. RepliesClose  BY Zenon DEF LinkInv
  <2>2. QED  BY <1>1, <2>1, Zenon DEF RepliesClose
<1> HIDE DEF m
<1>4. ReplySeq(m) = m.seq
  <2>1. /\ receive_seq \in Int /\ m.seq \in Int /\ SeqMod \in Nat /\ 0 < SeqMod
        /\ m.seq < receive_seq + SeqMod
    BY <1>n, <1>o, <1>2, <1>3 DEF Numbers, Order
  <2>2. receive_seq + (((m.seq % SeqMod) - receive_seq) % SeqMod) = m.seq
    BY <1>3, <2>1, RebuildSeq, Zenon
  <2>3. QED  BY <2>2, Zenon DEF ReplySeq, WireSeq
<1>5. ~Unsent(m.seq)
  BY <1>n, <1>o, <1>2, <1>3 DEF Unsent, Numbers, Order
<1>6. QED  BY <1>2, <1>3, <1>4, <1>5, Zenon DEF m

\* update_receive_seq keeps sent_queue, send_seq and receive_seq consistent.
LEMMA UpdateKeeps ==
    ASSUME LinkInv, NEW rseq \in Nat, UpdateReceiveSeq(rseq),
           receive_seq <= rseq, rseq <= next_sequence, first_seq <= rseq,
           next_sequence' = next_sequence, first_seq' = first_seq
    PROVE  /\ HostCounters' /\ sent_queue' \in Seq(Nat)
           /\ send_seq' \in Nat /\ send_seq <= send_seq' /\ receive_seq' = rseq
<1>n. Numbers  BY LinkFacts, Zenon
<1>o. Order  BY LinkFacts, Zenon
<1>l. Lengths  BY LinkFacts, Zenon
<1>m. SentQueueMatches  BY Zenon DEF LinkInv, HostCounters
<1>q. sent_queue \in Seq(Nat)  BY Zenon DEF LinkInv, TypeOK
<1> DEFINE acked == rseq - receive_seq
<1>1. receive_seq' = rseq  BY Zenon DEF UpdateReceiveSeq
<1>2. CASE acked <= Len(sent_queue)
  <2>1. acked \in 0..Len(sent_queue)  BY <1>n, <1>l, <1>2 DEF Numbers, Lengths
  <2>2. /\ sent_queue' = SubSeq(sent_queue, acked + 1, Len(sent_queue))
        /\ send_seq' = send_seq
    BY <1>2, ZenonT(30) DEF UpdateReceiveSeq
  <2> HIDE DEF acked
  <2>3. /\ sent_queue' \in Seq(Nat) /\ Len(sent_queue') = Len(sent_queue) - acked
        /\ \A i \in 1..Len(sent_queue) - acked : sent_queue'[i] = sent_queue[i + acked]
    BY <1>q, <2>1, <2>2, DropFirst, Zenon
  <2>4. /\ acked = rseq - receive_seq /\ send_seq \in Nat /\ receive_seq \in Nat
        /\ Len(sent_queue) \in Nat /\ MaxPending \in Nat
    BY <1>n, <1>l, Zenon DEF acked, Numbers, Lengths
  <2>5. SentQueueMatches'
    BY <1>1, <1>m, <2>1, <2>2, <2>3, <2>4 DEF SentQueueMatches
  <2>6. HostCounters'
    BY <1>1, <1>n, <1>o, <2>2, <2>5, <1>m, <2>1, <2>4
       DEF HostCounters, AckedWasDispatched, Numbers, Order, SentQueueMatches
  <2>7. QED  BY <1>1, <2>2, <2>3, <2>4, <2>6
<1>3. CASE ~(acked <= Len(sent_queue))
  <2>1. sent_queue' = <<>> /\ send_seq' = rseq  BY <1>3, Zenon DEF UpdateReceiveSeq
  <2>2. send_seq < rseq
    BY <1>3, <1>m, <1>n, <1>l DEF SentQueueMatches, Numbers, Lengths
  <2>3. SentQueueMatches'
    BY <1>1, <1>n, <2>1 DEF SentQueueMatches, Numbers
  <2>4. rseq = next_sequence  BY <1>n, <1>o, <2>2 DEF Numbers, Order
  <2>5. HostCounters'
    BY <1>1, <1>n, <1>o, <2>1, <2>3, <2>4, SMTT(30)
       DEF HostCounters, AckedWasDispatched, Numbers, Order
  <2>6. QED  BY <1>1, <1>n, <2>1, <2>2, <2>5 DEF Numbers
<1>4. QED  BY <1>2, <1>3, Zenon

\* What Notify leaves in the queues: an entry of receive_queue is an old one,
\* the notification of a block up to wake_seq, or one of tail.
Woken(i, wake_seq) ==
    /\ receive_queue'[i].notify /\ receive_queue'[i].of <= wake_seq
    /\ \E k \in 1..Len(notify_queue) : receive_queue'[i].of = notify_queue[k]
Kept(i) == i \in 1..Len(receive_queue) /\ receive_queue'[i] = receive_queue[i]
OfTail(i, tail) == \E k \in 1..Len(tail) : receive_queue'[i] = tail[k]

LEMMA NotifyShape ==
    ASSUME LinkInv, NEW wake_seq \in Int, NEW tail \in Seq(Entries),
           Notify(wake_seq, tail)
    PROVE  /\ notify_queue' \in Seq(Nat) /\ receive_queue' \in Seq(Entries)
           /\ \A i \in 1..Len(notify_queue') :
                  \E k \in 1..Len(notify_queue) : notify_queue'[i] = notify_queue[k]
           /\ \A i \in 1..Len(receive_queue') :
                  \/ Kept(i)
                  \/ Len(receive_queue) < i /\ Woken(i, wake_seq)
                  \/ Len(receive_queue) < i /\ OfTail(i, tail)
<1>l. Lengths  BY LinkFacts, Zenon
<1>t. notify_queue \in Seq(Nat) /\ receive_queue \in Seq(Entries)
  BY Zenon DEF LinkInv, TypeOK
<1>1. PICK n \in 0..Len(notify_queue) :
          /\ \A i \in 1..n : notify_queue[i] <= wake_seq
          /\ notify_queue' = SubSeq(notify_queue, n + 1, Len(notify_queue))
          /\ receive_queue' = receive_queue
                 \o [i \in 1..n |-> Notification(notify_queue[i])] \o tail
  BY ZenonT(30) DEF Notify
<1> DEFINE woken == [i \in 1..n |-> Notification(notify_queue[i])]
<1>2. /\ notify_queue' \in Seq(Nat) /\ Len(notify_queue') = Len(notify_queue) - n
      /\ \A i \in 1..Len(notify_queue) - n : notify_queue'[i] = notify_queue[i + n]
  BY <1>t, <1>1, DropFirst, ZenonT(30)
<1>3. n \in Nat /\ \A i \in 1..n : notify_queue[i] \in Nat
  <2>1. n \in Nat /\ \A i \in 1..n : i \in 1..Len(notify_queue)
    BY <1>l DEF Lengths
  <2>2. QED  BY <1>t, <2>1, SeqElement, Zenon
<1>4. /\ woken \in Seq(Entries) /\ Len(woken) = n
      /\ \A i \in 1..n : /\ woken[i].notify /\ woken[i].of = notify_queue[i]
                         /\ woken[i].of <= wake_seq
  <2>1. \A i \in 1..n : Notification(notify_queue[i]) \in Entries
    BY <1>3, Zenon DEF Notification, Entries
  <2>2. woken \in [1..n -> Entries]  BY <2>1, Zenon
  <2>3. woken \in Seq(Entries) /\ Len(woken) = n  BY <1>3, <2>2
  <2>4. \A i \in 1..n : woken[i].notify /\ woken[i].of = notify_queue[i]
    BY Zenon DEF Notification
  <2>5. QED  BY <1>1, <1>3, <2>3, <2>4, Zenon
<1> HIDE DEF woken
<1>5. /\ receive_queue \o woken \in Seq(Entries)
      /\ Len(receive_queue \o woken) = Len(receive_queue) + n
      /\ \A i \in 1..Len(receive_queue) + n : (receive_queue \o woken)[i] =
             IF i <= Len(receive_queue) THEN receive_queue[i]
                                        ELSE woken[i - Len(receive_queue)]
  BY <1>t, <1>4, SeqConcat, ZenonT(30)
<1>6. /\ receive_queue' \in Seq(Entries)
      /\ Len(receive_queue') = Len(receive_queue) + n + Len(tail)
      /\ \A i \in 1..Len(receive_queue) + n + Len(tail) : receive_queue'[i] =
             IF i <= Len(receive_queue) + n THEN (receive_queue \o woken)[i]
                 ELSE tail[i - (Len(receive_queue) + n)]
  <2> DEFINE front == receive_queue \o woken
  <2>1. receive_queue' = front \o tail  BY <1>1, Zenon DEF woken
  <2>2. front \in Seq(Entries) /\ Len(front) = Len(receive_queue) + n  BY <1>5, Zenon
  <2> HIDE DEF front
  <2>3. /\ front \o tail \in Seq(Entries)
        /\ Len(front \o tail) = Len(front) + Len(tail)
        /\ \A i \in 1..Len(front) + Len(tail) : (front \o tail)[i] =
               IF i <= Len(front) THEN front[i] ELSE tail[i - Len(front)]
    BY <2>2, SeqConcat, ZenonT(30)
  <2>4. QED  BY <2>1, <2>2, <2>3, Zenon DEF front
<1>7. ASSUME NEW i \in 1..Len(receive_queue')
      PROVE  \/ Kept(i)
             \/ Len(receive_queue) < i /\ Woken(i, wake_seq)
             \/ Len(receive_queue) < i /\ OfTail(i, tail)
  <2>0. Len(receive_queue) \in Nat /\ Len(tail) \in Nat
    BY <1>l, SeqLength, Zenon DEF Lengths
  <2>2. CASE i <= Len(receive_queue)
    <3>1. i \in 1..Len(receive_queue) /\ receive_queue'[i] = receive_queue[i]
      BY <1>3, <1>5, <1>6, <1>7, <2>0, <2>2
    <3>2. QED  BY <3>1, Zenon DEF Kept
  <2>3. CASE Len(receive_queue) < i /\ i <= Len(receive_queue) + n
    <3>1. /\ i - Len(receive_queue) \in 1..n
          /\ receive_queue'[i] = woken[i - Len(receive_queue)]
      BY <1>3, <1>5, <1>6, <1>7, <2>0, <2>3
    <3>2. i - Len(receive_queue) \in 1..Len(notify_queue)
      BY <1>1, <1>l, <3>1 DEF Lengths
    <3>3. QED  BY <1>4, <2>3, <3>1, <3>2, Zenon DEF Woken
  <2>4. CASE Len(receive_queue) + n < i
    <3>1. /\ i - (Len(receive_queue) + n) \in 1..Len(tail)
          /\ receive_queue'[i] = tail[i - (Len(receive_queue) + n)]
      BY <1>3, <1>6, <1>7, <2>0, <2>4
    <3>2. Len(receive_queue) < i  BY <1>3, <1>7, <2>0, <2>4
    <3>3. QED  BY <3>1, <3>2, Zenon DEF OfTail
  <2>5. i \in Int /\ n \in Int  BY <1>3
  <2>6. QED  BY <2>0, <2>2, <2>3, <2>4, <2>5
<1>8. ASSUME NEW i \in 1..Len(notify_queue')
      PROVE  \E k \in 1..Len(notify_queue) : notify_queue'[i] = notify_queue[k]
  <2>1. /\ i + n \in 1..Len(notify_queue) /\ notify_queue'[i] = notify_queue[i + n]
    BY <1>1, <1>2, <1>3, <1>8, <1>l DEF Lengths
  <2>2. QED  BY <2>1, Zenon
<1>9. QED  BY <1>2, <1>6, <1>7, <1>8, Zenon

\* Notify delivers notifications of blocks up to wake_seq, then the message.
LEMMA NotifyKeeps ==
    ASSUME LinkInv, NEW wake_seq \in Int, NEW tail \in Seq(Entries),
           Notify(wake_seq, tail), wake_seq < Done, Done' = Done,
           \A i \in 1..Len(tail) : ~tail[i].notify
    PROVE  /\ notify_queue' \in Seq(Nat) /\ receive_queue' \in Seq(Entries)
           /\ NotifiedAfterDispatch'
<1>1. /\ notify_queue' \in Seq(Nat) /\ receive_queue' \in Seq(Entries)
      /\ \A i \in 1..Len(receive_queue') :
             Kept(i) \/ Woken(i, wake_seq) \/ OfTail(i, tail)
  BY NotifyShape, ZenonT(30)
<1>2. ASSUME NEW i \in 1..Len(receive_queue'), receive_queue'[i].notify
      PROVE  receive_queue'[i].of < Done
  <2>1. CASE Kept(i)
    <3>1. NotifiedAfterDispatch  BY Zenon DEF LinkInv
    <3>2. QED  BY <1>2, <2>1, <3>1, Zenon DEF NotifiedAfterDispatch, Kept
  <2>2. CASE Woken(i, wake_seq)
    <3>1. Done \in Int  BY LinkFacts DEF Done, Numbers
    <3>2. receive_queue'[i] \in Entries  BY <1>1, <1>2, SeqElement, Zenon
    <3>3. receive_queue'[i].of \in Nat  BY <3>2, Zenon DEF Entries
    <3>4. receive_queue'[i].of <= wake_seq  BY <2>2, Zenon DEF Woken
    <3>5. QED  BY <3>1, <3>3, <3>4
  <2>3. CASE OfTail(i, tail)  BY <1>2, <2>3, Zenon DEF OfTail
  <2>4. QED  BY <1>1, <1>2, <2>1, <2>2, <2>3, Zenon
<1>3. QED  BY <1>1, <1>2, Zenon DEF NotifiedAfterDispatch

LEMMA HandleMessageKeeps ==
    ASSUME LinkInv, HandleMessage
    PROVE  LinkInv'
<1> DEFINE m == Head(to_host)
<1>t. TypeOK  BY Zenon DEF LinkInv
<1>n. Numbers  BY LinkFacts, Zenon
<1>0. /\ next_sequence' = next_sequence /\ first_seq' = first_seq
      /\ dispatching' = dispatching /\ dispatched' = dispatched /\ to_mcu' = to_mcu
      /\ to_host # <<>> /\ to_host' = Tail(to_host)
  BY Zenon DEF HandleMessage, mcu
<1>1. /\ m \in Messages /\ m.seq \in Nat
      /\ ReplySeq(m) = m.seq /\ ~Unsent(m.seq)
      /\ receive_seq <= m.seq /\ m.seq <= next_sequence
      /\ first_seq <= m.seq /\ (m.ack => m.seq <= Done)
  BY <1>0, ReplySeqIsSeq, Zenon
<1>2. /\ UpdateReceiveSeq(m.seq)
      /\ Notify(WakeSeq(m, m.seq), IF m.ack THEN <<>> ELSE <<Response(m.of)>>)
      /\ last_ack_seq' = IF m.ack THEN Larger(last_ack_seq, m.seq) ELSE last_ack_seq
      /\ retransmit_timer' = IF m.ack /\ IsNak(m.seq) THEN "now" ELSE TimerAfter(m.seq)
      /\ ignore_nak_seq' = ignore_nak_seq /\ retransmit_seq' = retransmit_seq
  BY <1>1, Zenon DEF HandleMessage
<1> HIDE DEF m
<1>3. /\ HostCounters' /\ sent_queue' \in Seq(Nat)
      /\ send_seq' \in Nat /\ send_seq <= send_seq' /\ receive_seq' = m.seq
  BY <1>0, <1>1, <1>2, UpdateKeeps, Zenon
<1>d. Done' = Done /\ Done \in Int /\ next_sequence - 1 <= Done
  BY <1>0, <1>n DEF Done, Numbers
<1>4. /\ notify_queue' \in Seq(Nat) /\ receive_queue' \in Seq(Entries)
      /\ NotifiedAfterDispatch'
  <2>1. m.ack \in BOOLEAN /\ m.of \in Nat  BY <1>1, Zenon DEF Messages
  <2>2. WakeSeq(m, m.seq) \in Int /\ WakeSeq(m, m.seq) < Done
    BY <1>1, <1>d, <1>n DEF WakeSeq, Numbers
  <2>3. CASE m.ack
    <3>1. <<>> \in Seq(Entries) /\ \A i \in 1..Len(<<>>) : ~<<>>[i].notify
      OBVIOUS
    <3>2. Notify(WakeSeq(m, m.seq), <<>>)  BY <1>2, <2>3, Zenon
    <3>3. QED  BY <1>d, <2>2, <3>1, <3>2, NotifyKeeps, ZenonT(30)
  <2>4. CASE ~m.ack
    <3>1. Response(m.of) \in Entries /\ ~Response(m.of).notify
      BY <2>1, Zenon DEF Response, Entries
    <3>2. /\ <<Response(m.of)>> \in Seq(Entries)
          /\ \A i \in 1..Len(<<Response(m.of)>>) : ~<<Response(m.of)>>[i].notify
      BY <3>1
    <3>3. Notify(WakeSeq(m, m.seq), <<Response(m.of)>>)  BY <1>2, <2>4, Zenon
    <3>4. QED  BY <1>d, <2>2, <3>2, <3>3, NotifyKeeps, ZenonT(30)
  <2>5. QED  BY <2>3, <2>4, Zenon
<1>5. /\ to_host' \in Seq(Messages) /\ Len(to_host') <= WireCap
      /\ RepliesClose' /\ RepliesSorted'
  BY <1>0, <1>3, PopReply, Zenon DEF m
<1>6. TypeOK'
  <2>1. last_ack_seq' \in Nat  BY <1>t, <1>1, <1>2, Zenon DEF TypeOK, Larger
  <2>2. retransmit_timer' \in {"never", "now", "rto"}
    BY <1>t, <1>2, Zenon DEF TypeOK, TimerAfter
  <2>3. receive_seq' \in Nat  BY <1>1, <1>3, Zenon
  <2>4. faults' = faults /\ replies' = replies /\ sync_state' = sync_state
    BY Zenon DEF HandleMessage, mcu
  <2>5. QED  BY <1>t, <1>0, <1>2, <1>3, <1>4, <1>5, <2>1, <2>2, <2>3, <2>4, Zenon DEF TypeOK
<1>7. BlocksClose'
  <2>1. BlocksClose  BY Zenon DEF LinkInv
  <2>2. \A i \in 1..Len(to_mcu) : to_mcu[i] \in Nat  BY LinkFacts, Zenon DEF Elements
  <2>3. send_seq \in Nat  BY <1>n, Zenon DEF Numbers
  <2>4. QED  BY <1>0, <1>3, <2>1, <2>2, <2>3 DEF BlocksClose
<1>8. BlocksSpread' /\ DispatchingHeld' /\ DispatchedInOrder'
  BY <1>0, Zenon DEF LinkInv, BlocksSpread, DispatchingHeld, DispatchedInOrder
<1>9. QED  BY <1>3, <1>4, <1>5, <1>6, <1>7, <1>8, Zenon DEF LinkInv

-----------------------------------------------------------------------------
(* The theorems *)

LEMMA LinkInvInit == Init => LinkInv
<1> SUFFICES ASSUME Init PROVE LinkInv  BY Zenon
<1>1. first_seq \in Nat /\ 1 <= first_seq /\ first_seq <= SeqMod
  BY LinkAssumption DEF Init
<1>2. TypeOK  BY <1>1, LinkAssumption DEF Init, TypeOK, NoBlock
<1>3. HostCounters
  BY <1>1, LinkAssumption DEF Init, HostCounters, SentQueueMatches, AckedWasDispatched
<1>4. BlocksClose /\ BlocksSpread /\ RepliesClose /\ RepliesSorted
  BY DEF Init, BlocksClose, BlocksSpread, RepliesClose, RepliesSorted
<1>5. DispatchingHeld /\ NotifiedAfterDispatch
  BY DEF Init, DispatchingHeld, NotifiedAfterDispatch
<1>6. DispatchedInOrder  BY <1>1 DEF Init, DispatchedInOrder
<1>7. QED  BY <1>2, <1>3, <1>4, <1>5, <1>6, Zenon DEF LinkInv

LEMMA NeedSyncKeeps ==
    ASSUME LinkInv, NEW found \in BOOLEAN, NeedSync(found), to_mcu # <<>>,
           dispatching = NoBlock, faults' \in Nat
    PROVE  LinkInv'
<1>1. /\ sync_state' \in SUBSET {"CF_NEED_SYNC", "CF_NEED_VALID"}
      /\ to_host' = to_host \/ Sendf(Ack(next_sequence))
  BY Zenon DEF NeedSync
<1>2. /\ to_mcu' = Tail(to_mcu) /\ UNCHANGED host
      /\ next_sequence' = next_sequence /\ dispatching' = NoBlock
      /\ dispatched' = dispatched /\ first_seq' = first_seq /\ replies' = replies
  BY Zenon DEF NeedSync
<1>3. QED  BY <1>1, <1>2, PopKeeps, Zenon

LEMMA LinkInvNext == LinkInv /\ [Next]_vars => LinkInv'
<1> SUFFICES ASSUME LinkInv, [Next]_vars PROVE LinkInv'  BY Zenon
<1>t. faults \in Nat /\ sync_state \in SUBSET {"CF_NEED_SYNC", "CF_NEED_VALID"}
  BY Zenon DEF LinkInv, TypeOK
<1>1. ASSUME NEW notify \in BOOLEAN, SendBlock(notify)  PROVE LinkInv'
  BY <1>1, SendBlockKeeps, Zenon
<1>2. CASE HandleMessage  BY <1>2, HandleMessageKeeps, Zenon
<1>3. CASE RetransmitEvent  BY <1>3, RetransmitEventKeeps, Zenon
<1>4. CASE FindBlock  BY <1>4, FindBlockKeeps, Zenon
<1>5. CASE NakBlock
  <2>1. sync_state' \in SUBSET {"CF_NEED_SYNC", "CF_NEED_VALID"}
    BY <1>t, <1>5, Zenon DEF NakBlock
  <2>2. faults' \in Nat  BY <1>t, <1>5, Zenon DEF NakBlock
  <2>3. QED  BY <1>5, <2>1, <2>2, PopKeeps, Zenon DEF NakBlock
<1>6. CASE Reply
  <2>1. dispatching \in Nat  BY Zenon DEF LinkInv, TypeOK
  <2>2. QED  BY <1>6, <2>1, DataKeeps, Zenon DEF Reply
<1>7. CASE TaskSendf
  <2>1. NoBlock \in Nat  BY Zenon DEF NoBlock
  <2>2. QED  BY <1>7, <2>1, DataKeeps, Zenon DEF TaskSendf
<1>8. CASE PopAndAck
  <2>1. to_mcu # <<>>  BY <1>8, Zenon DEF PopAndAck, LinkInv, DispatchingHeld
  <2>2. faults' \in Nat /\ sync_state' \in SUBSET {"CF_NEED_SYNC", "CF_NEED_VALID"}
    BY <1>t, <1>8, Zenon DEF PopAndAck
  <2>3. QED  BY <1>8, <2>1, <2>2, PopKeeps, Zenon DEF PopAndAck
<1>9. CASE ShutdownInDispatch  BY <1>9, ShutdownInDispatchKeeps, Zenon
<1>10. CASE SkipSync
  <2>1. sync_state' \in SUBSET {"CF_NEED_SYNC", "CF_NEED_VALID"}
    BY <1>t, <1>10, Zenon DEF SkipSync
  <2>2. faults' \in Nat  BY <1>t, <1>10, Zenon DEF SkipSync
  <2>3. QED  BY <1>10, <2>1, <2>2, PopKeeps, Zenon DEF SkipSync
<1>11. CASE Resync
  <2>1. faults' \in Nat  BY <1>t, <1>11, Zenon DEF Resync
  <2>2. QED  BY <1>11, <2>1, NeedSyncKeeps, ZenonT(30) DEF Resync
<1>12. ASSUME NEW found \in BOOLEAN, CorruptBlock(found)  PROVE LinkInv'
  <2>1. faults' \in Nat  BY <1>t, <1>12 DEF CorruptBlock
  <2>2. QED  BY <1>12, <2>1, NeedSyncKeeps, Zenon DEF CorruptBlock
<1>13. CASE LoseBlock
  <2>1. /\ faults' \in Nat /\ sync_state' \in SUBSET {"CF_NEED_SYNC", "CF_NEED_VALID"}
        /\ next_sequence' = next_sequence /\ dispatching' = NoBlock
        /\ dispatched' = dispatched
    BY <1>t, <1>13 DEF LoseBlock, mcu
  <2>2. QED  BY <1>13, <2>1, PopKeeps, Zenon DEF LoseBlock
<1>14. CASE LoseReply  BY <1>14, LoseReplyKeeps, Zenon
<1>15. CASE UNCHANGED vars
  <2>1. /\ TypeOK' = TypeOK /\ HostCounters' = HostCounters
        /\ BlocksClose' = BlocksClose /\ BlocksSpread' = BlocksSpread
        /\ RepliesClose' = RepliesClose /\ RepliesSorted' = RepliesSorted
        /\ DispatchingHeld' = DispatchingHeld
        /\ DispatchedInOrder' = DispatchedInOrder
        /\ NotifiedAfterDispatch' = NotifiedAfterDispatch
    BY <1>15, Zenon DEF vars, host, mcu, TypeOK, HostCounters, SentQueueMatches,
       AckedWasDispatched, BlocksClose, BlocksSpread, RepliesClose,
       RepliesSorted, DispatchingHeld, DispatchedInOrder, NotifiedAfterDispatch, Done
  <2>2. QED  BY <2>1, Zenon DEF LinkInv
<1>16. QED
  BY Zenon, <1>1, <1>2, <1>3, <1>4, <1>5, <1>6, <1>7, <1>8, <1>9, <1>10, <1>11, <1>12,
     <1>13, <1>14, <1>15 DEF Next, HostStep, McuStep, Fault

\* The inductive invariant holds in every reachable state.
THEOREM LinkInvariant == Spec => []LinkInv
  BY LinkInvInit, LinkInvNext, PTL DEF Spec

\* Every variable keeps its type and both directions of the wire their limit.
THEOREM TypeCorrect == Spec => []TypeOK
<1>1. LinkInv => TypeOK  BY Zenon DEF LinkInv
<1>2. QED  BY <1>1, LinkInvariant, PTL

\* command_find_block dispatches every block once and in order, for every
\* sequence space larger than the window and any number of faults.
THEOREM InOrder == Spec => []DispatchedInOrder
<1>1. LinkInv => DispatchedInOrder  BY Zenon DEF LinkInv
<1>2. QED  BY <1>1, LinkInvariant, PTL

\* handle_message never acknowledges a block before its dispatch.
THEOREM AcksAreTrue == Spec => []AckedWasDispatched
<1>1. LinkInv => AckedWasDispatched  BY Zenon DEF LinkInv, HostCounters
<1>2. QED  BY <1>1, LinkInvariant, PTL

\* sent_queue, send_seq and receive_seq stay consistent within the window.
THEOREM QueueMatches == Spec => []SentQueueMatches
<1>1. LinkInv => SentQueueMatches  BY Zenon DEF LinkInv, HostCounters
<1>2. QED  BY <1>1, LinkInvariant, PTL

\* The acknowledgement of an unsent block is never met.
THEOREM NoAckOfUnsent == Spec => []NoUnsentAck
<1>1. LinkInv => NoUnsentAck
  <2>1. SUFFICES ASSUME LinkInv, to_host # <<>>
                 PROVE  ~Unsent(ReplySeq(Head(to_host)))
    BY Zenon DEF NoUnsentAck
  <2>2. QED  BY <2>1, ReplySeqIsSeq, Zenon
<1>2. QED  BY <1>1, LinkInvariant, PTL

\* A notification is delivered only after the dispatch of its block.
THEOREM NotifiedInTime == Spec => []NotifiedAfterDispatch
<1>1. LinkInv => NotifiedAfterDispatch  BY Zenon DEF LinkInv
<1>2. QED  BY <1>1, LinkInvariant, PTL

-----------------------------------------------------------------------------
(* Replies come before their notification *)

\* A message sent by a command handler.
FromHandler(m) == ~m.ack /\ m.of # NoBlock

\* While block n is dispatched next_sequence is n + 1, which is what the
\* replies of its handlers carry.
HandlerNumber == dispatching # NoBlock => next_sequence = dispatching + 1
RepliesNumbered ==
    \A j \in 1..Len(to_host) :
        FromHandler(to_host[j]) => to_host[j].seq = to_host[j].of + 1

\* An ack sent before a reply to block n acknowledges nothing from n on.
AcksBeforeReplies ==
    \A i, j \in 1..Len(to_host) :
        i < j /\ to_host[i].ack /\ FromHandler(to_host[j])
            => to_host[i].seq <= to_host[j].of

\* The blocks notified so far are older than those a reply in transit answers.
NotifiedEarlier ==
    \A i \in 1..Len(receive_queue) : \A j \in 1..Len(to_host) :
        receive_queue[i].notify /\ FromHandler(to_host[j])
            => receive_queue[i].of < to_host[j].of

\* A notification names a block.
NotifiesBlocks ==
    /\ \A i \in 1..Len(notify_queue) : notify_queue[i] # NoBlock
    /\ \A i \in 1..Len(receive_queue) :
           receive_queue[i].notify => receive_queue[i].of # NoBlock

\* Replies on the wire, and the queues of the host.
RepliesInv == RepliesNumbered /\ AcksBeforeReplies
QueuesInv == NotifiedEarlier /\ NotifiesBlocks /\ RepliesBeforeNotification
ReplyInv == LinkInv /\ HandlerNumber /\ RepliesInv /\ QueuesInv

LEMMA ReplyFacts ==
    ASSUME ReplyInv
    PROVE  /\ LinkInv /\ Lengths /\ Elements
           /\ \A i \in 1..Len(to_host) : to_host[i].seq \in Nat /\ to_host[i].of \in Nat
           /\ \A i \in 1..Len(receive_queue) : receive_queue[i].of \in Nat
           /\ \A i \in 1..Len(notify_queue) : notify_queue[i] \in Nat
<1>1. LinkInv  BY Zenon DEF ReplyInv
<1>2. Lengths /\ Elements  BY <1>1, LinkFacts, Zenon
<1>3. receive_queue \in Seq(Entries) /\ notify_queue \in Seq(Nat)
  BY <1>1, Zenon DEF LinkInv, TypeOK
<1>4. \A i \in 1..Len(receive_queue) : receive_queue[i] \in Entries
  BY <1>3, SeqElement, Zenon
<1>5. \A i \in 1..Len(notify_queue) : notify_queue[i] \in Nat  BY <1>3, SeqElement, Zenon
<1>6. \A m \in Messages : m.of \in Nat  BY Zenon DEF Messages
<1>7. \A e \in Entries : e.of \in Nat  BY Zenon DEF Entries
<1>8. QED  BY <1>1, <1>2, <1>4, <1>5, <1>6, <1>7, Zenon DEF Elements

\* The first message of to_host is taken off the wire.
Taken == /\ \A i \in 1..Len(to_host') : /\ i + 1 \in 1..Len(to_host) /\ 1 < i + 1
                                        /\ to_host'[i] = to_host[i + 1]
         /\ \A i, j \in 1..Len(to_host') : i < j => i + 1 < j + 1
         /\ 1 \in 1..Len(to_host) /\ Head(to_host) = to_host[1]

LEMMA TakenFromWire ==
    ASSUME ReplyInv, to_host # <<>>, to_host' = Tail(to_host)
    PROVE  Taken
<1>1. Lengths  BY ReplyFacts, Zenon
<1>2. to_host \in Seq(Messages)  BY Zenon DEF ReplyInv, LinkInv, TypeOK
<1>3. /\ Len(to_host') = Len(to_host) - 1
      /\ \A i \in 1..Len(to_host') : to_host'[i] = to_host[i + 1]
  BY <1>2, SeqTail, Zenon
<1>4. 1 \in 1..Len(to_host) /\ Head(to_host) = to_host[1]
  BY <1>1, <1>2, SeqEmpty DEF Lengths
<1>5. \A i \in 1..Len(to_host') : i + 1 \in 1..Len(to_host) /\ 1 < i + 1
  BY <1>1, <1>3 DEF Lengths
<1>6. \A i, j \in 1..Len(to_host') : i < j => i + 1 < j + 1
  BY <1>1, <1>3 DEF Lengths
<1>7. QED  BY <1>3, <1>4, <1>5, <1>6, Zenon DEF Taken

LEMMA TakingKeeps ==
    ASSUME ReplyInv, Taken
    PROVE  RepliesInv'
<1>1. RepliesNumbered /\ AcksBeforeReplies  BY Zenon DEF ReplyInv, RepliesInv
<1>2. RepliesNumbered'
  BY <1>1, Zenon DEF RepliesNumbered, Taken, FromHandler
<1>3. AcksBeforeReplies'
  <2>1. SUFFICES ASSUME NEW i \in 1..Len(to_host'), NEW j \in 1..Len(to_host'), i < j,
                        to_host'[i].ack, FromHandler(to_host'[j])
                 PROVE  to_host'[i].seq <= to_host'[j].of
    BY Zenon DEF AcksBeforeReplies, FromHandler
  <2>2. /\ i + 1 \in 1..Len(to_host) /\ j + 1 \in 1..Len(to_host) /\ i + 1 < j + 1
        /\ to_host'[i] = to_host[i + 1] /\ to_host'[j] = to_host[j + 1]
    BY <2>1, Zenon DEF Taken
  <2>3. to_host[i + 1].ack /\ FromHandler(to_host[j + 1])  BY <2>1, <2>2, Zenon
  <2>4. to_host[i + 1].seq <= to_host[j + 1].of
    BY <1>1, <2>2, <2>3, Zenon DEF AcksBeforeReplies
  <2>5. QED  BY <2>2, <2>4, Zenon
<1>4. QED  BY <1>2, <1>3, Zenon DEF RepliesInv

\* A message that is lost leaves the queues alone.
LEMMA LosingKeeps ==
    ASSUME ReplyInv, Taken, receive_queue' = receive_queue,
           notify_queue' = notify_queue
    PROVE  RepliesInv' /\ QueuesInv'
<1>1. RepliesInv'  BY TakingKeeps, Zenon
<1>2. NotifiedEarlier /\ NotifiesBlocks /\ RepliesBeforeNotification
  BY Zenon DEF ReplyInv, QueuesInv
<1>3. NotifiedEarlier'
  BY <1>2, ZenonT(30) DEF NotifiedEarlier, Taken, FromHandler
<1>4. NotifiesBlocks' /\ RepliesBeforeNotification'
  BY <1>2, Zenon DEF NotifiesBlocks, RepliesBeforeNotification
<1>5. QED  BY <1>1, <1>3, <1>4, Zenon DEF QueuesInv

\* Sending a message: a handler's reply carries the number after its block,
\* and the dispatch of that block is not over.
LEMMA SendingKeeps ==
    ASSUME ReplyInv, NEW m \in Messages, Sendf(m),
           FromHandler(m) => m.seq = m.of + 1 /\ m.of = Done,
           receive_queue' = receive_queue, notify_queue' = notify_queue
    PROVE  RepliesInv' /\ QueuesInv'
<1>f. LinkInv /\ Lengths  BY ReplyFacts, Zenon
<1>1. /\ Len(to_host') \in {Len(to_host), Len(to_host) + 1}
      /\ \A i \in 1..Len(to_host) : to_host'[i] = to_host[i]
      /\ \A i \in 1..Len(to_host') : i > Len(to_host) => to_host'[i] = m
  <2>1. TypeOK  BY <1>f, Zenon DEF LinkInv
  <2>2. QED  BY <2>1, SendfProperties, Zenon
<1>n. Len(to_host) \in Nat  BY <1>f, Zenon DEF Lengths
<1>2. \A i \in 1..Len(to_host') :
          \/ i \in 1..Len(to_host) /\ to_host'[i] = to_host[i]
          \/ i = Len(to_host) + 1 /\ to_host'[i] = m
  <2>1. \A i \in 1..Len(to_host') :
            i \in 1..Len(to_host) \/ (i = Len(to_host) + 1 /\ i > Len(to_host))
    BY <1>n, <1>1
  <2>2. QED  BY <1>1, <2>1, Zenon
<1>3. \A i, j \in 1..Len(to_host') :
          i < j => i \in 1..Len(to_host) /\ to_host'[i] = to_host[i]
  <2>1. \A i, j \in 1..Len(to_host') : i < j => i \in 1..Len(to_host)
    BY <1>n, <1>1
  <2>2. QED  BY <1>1, <2>1, Zenon
<1>4. RepliesNumbered /\ AcksBeforeReplies /\ RepliesClose /\ NotifiedAfterDispatch
  BY <1>f, Zenon DEF ReplyInv, RepliesInv, LinkInv
<1>5. NotifiedEarlier /\ NotifiesBlocks /\ RepliesBeforeNotification
  BY Zenon DEF ReplyInv, QueuesInv
<1>6. RepliesNumbered'
  <2>1. SUFFICES ASSUME NEW j \in 1..Len(to_host'), FromHandler(to_host'[j])
                 PROVE  to_host'[j].seq = to_host'[j].of + 1
    BY Zenon DEF RepliesNumbered, FromHandler
  <2>2. CASE to_host'[j] = m  BY <2>1, <2>2, Zenon
  <2>3. CASE j \in 1..Len(to_host) /\ to_host'[j] = to_host[j]
    BY <1>4, <2>1, <2>3, Zenon DEF RepliesNumbered
  <2>4. QED  BY <1>2, <2>1, <2>2, <2>3, Zenon
<1>7. AcksBeforeReplies'
  <2>1. SUFFICES ASSUME NEW i \in 1..Len(to_host'), NEW j \in 1..Len(to_host'), i < j,
                        to_host'[i].ack, FromHandler(to_host'[j])
                 PROVE  to_host'[i].seq <= to_host'[j].of
    BY Zenon DEF AcksBeforeReplies, FromHandler
  <2>2. i \in 1..Len(to_host) /\ to_host'[i] = to_host[i]  BY <1>3, <2>1, Zenon
  <2>3. CASE to_host'[j] = m
    <3>1. m.of = Done  BY <2>1, <2>3, Zenon
    <3>2. to_host[i].seq <= Done  BY <1>4, <2>1, <2>2, Zenon DEF RepliesClose
    <3>3. QED  BY <2>2, <2>3, <3>1, <3>2, Zenon
  <2>4. CASE j \in 1..Len(to_host) /\ to_host'[j] = to_host[j]
    BY <1>4, <2>1, <2>2, <2>4, Zenon DEF AcksBeforeReplies
  <2>5. QED  BY <1>2, <2>1, <2>3, <2>4, Zenon
<1>8. NotifiedEarlier'
  <2>1. SUFFICES ASSUME NEW i \in 1..Len(receive_queue), NEW j \in 1..Len(to_host'),
                        receive_queue[i].notify, FromHandler(to_host'[j])
                 PROVE  receive_queue[i].of < to_host'[j].of
    BY Zenon DEF NotifiedEarlier, FromHandler
  <2>2. CASE to_host'[j] = m
    <3>1. m.of = Done  BY <2>1, <2>2, Zenon
    <3>2. receive_queue[i].of < Done  BY <1>4, <2>1, Zenon DEF NotifiedAfterDispatch
    <3>3. QED  BY <2>2, <3>1, <3>2, Zenon
  <2>3. CASE j \in 1..Len(to_host) /\ to_host'[j] = to_host[j]
    BY <1>5, <2>1, <2>3, Zenon DEF NotifiedEarlier
  <2>4. QED  BY <1>2, <2>1, <2>2, <2>3, Zenon
<1>9. NotifiesBlocks' /\ RepliesBeforeNotification'
  BY <1>5, Zenon DEF NotifiesBlocks, RepliesBeforeNotification
<1>10. QED  BY <1>6, <1>7, <1>8, <1>9, Zenon DEF RepliesInv, QueuesInv

\* The replies still on the wire when handle_message takes m off it answer
\* blocks later than those it notifies.
LEMMA WokenBeforeReplies ==
    ASSUME ReplyInv, Taken, NEW j \in 1..Len(to_host'), FromHandler(to_host'[j])
    PROVE  WakeSeq(Head(to_host), Head(to_host).seq) < to_host'[j].of
<1> DEFINE m == Head(to_host)
           r == to_host'[j]
<1>f. /\ Elements
      /\ \A i \in 1..Len(to_host) : to_host[i].seq \in Nat /\ to_host[i].of \in Nat
  BY ReplyFacts, Zenon
<1>1. /\ 1 \in 1..Len(to_host) /\ j + 1 \in 1..Len(to_host) /\ 1 < j + 1
      /\ m = to_host[1] /\ r = to_host[j + 1]
  BY Zenon DEF Taken
<1>2. RepliesNumbered /\ AcksBeforeReplies /\ RepliesSorted
  BY Zenon DEF ReplyInv, RepliesInv, LinkInv
<1>3. m.seq \in Nat /\ r.seq \in Nat /\ r.of \in Nat  BY <1>f, <1>1, Zenon
<1>4. m.seq <= r.seq  BY <1>1, <1>2, Zenon DEF RepliesSorted
<1>5. r.seq = r.of + 1  BY <1>1, <1>2, Zenon DEF RepliesNumbered
<1>6. m.ack => m.seq <= r.of  BY <1>1, <1>2, Zenon DEF AcksBeforeReplies
<1> HIDE DEF m, r
<1>7. WakeSeq(m, m.seq) < r.of  BY <1>3, <1>4, <1>5, <1>6, SMTT(30) DEF WakeSeq
<1>8. QED  BY <1>7, Zenon DEF m, r

\* What handle_message puts into receive_queue: the blocks notified, and a
\* message m that comes from the wire.
LEMMA NotifyingKeeps ==
    ASSUME ReplyInv, Taken, NEW wake_seq \in Int, NEW tail \in Seq(Entries),
           Notify(wake_seq, tail),
           \A j \in 1..Len(to_host') :
               FromHandler(to_host'[j]) => wake_seq < to_host'[j].of,
           \A k \in 1..Len(tail) :
               /\ ~tail[k].notify /\ tail[k].of \in Nat
               /\ tail[k].of # NoBlock =>
                      /\ wake_seq < tail[k].of
                      /\ \A i \in 1..Len(receive_queue) :
                             receive_queue[i].notify => receive_queue[i].of < tail[k].of
    PROVE  QueuesInv'
<1>f. /\ LinkInv /\ Lengths
      /\ \A i \in 1..Len(to_host) : to_host[i].seq \in Nat /\ to_host[i].of \in Nat
      /\ \A i \in 1..Len(receive_queue) : receive_queue[i].of \in Nat
      /\ \A i \in 1..Len(notify_queue) : notify_queue[i] \in Nat
  BY ReplyFacts, Zenon
<1>1. /\ \A i \in 1..Len(notify_queue') :
             \E k \in 1..Len(notify_queue) : notify_queue'[i] = notify_queue[k]
      /\ \A i \in 1..Len(receive_queue') :
             \/ Kept(i)
             \/ Len(receive_queue) < i /\ Woken(i, wake_seq)
             \/ Len(receive_queue) < i /\ OfTail(i, tail)
  BY <1>f, NotifyShape, ZenonT(30)
<1>2. NotifiedEarlier /\ NotifiesBlocks /\ RepliesBeforeNotification
  BY Zenon DEF ReplyInv, QueuesInv
<1>3. NotifiesBlocks'
  <2>1. \A i \in 1..Len(notify_queue') : notify_queue'[i] # NoBlock
    BY <1>1, <1>2, Zenon DEF NotifiesBlocks
  <2>2. ASSUME NEW i \in 1..Len(receive_queue'), receive_queue'[i].notify
        PROVE  receive_queue'[i].of # NoBlock
    <3>1. CASE Kept(i)  BY <1>2, <2>2, <3>1, Zenon DEF Kept, NotifiesBlocks
    <3>2. CASE Woken(i, wake_seq)  BY <1>2, <3>2, Zenon DEF Woken, NotifiesBlocks
    <3>3. CASE OfTail(i, tail)  BY <2>2, <3>3, Zenon DEF OfTail
    <3>4. QED  BY <1>1, <3>1, <3>2, <3>3, Zenon
  <2>3. QED  BY <2>1, <2>2, Zenon DEF NotifiesBlocks, NoBlock
<1>4. NotifiedEarlier'
  <2>1. SUFFICES ASSUME NEW i \in 1..Len(receive_queue'), NEW j \in 1..Len(to_host'),
                        receive_queue'[i].notify, FromHandler(to_host'[j])
                 PROVE  receive_queue'[i].of < to_host'[j].of
    BY Zenon DEF NotifiedEarlier, FromHandler
  <2>2. j + 1 \in 1..Len(to_host) /\ to_host'[j] = to_host[j + 1]
    BY <2>1, Zenon DEF Taken
  <2>3. CASE Kept(i)
    BY <1>2, <2>1, <2>2, <2>3, ZenonT(30) DEF Kept, NotifiedEarlier
  <2>4. CASE Woken(i, wake_seq)
    <3>1. wake_seq < to_host'[j].of /\ receive_queue'[i].of <= wake_seq
      BY <2>1, <2>4, Zenon DEF Woken
    <3>2. to_host'[j].of \in Nat  BY <1>f, <2>2, Zenon
    <3>3. receive_queue'[i].of \in Nat  BY <1>f, <2>4, Zenon DEF Woken
    <3>4. QED  BY <3>1, <3>2, <3>3
  <2>5. CASE OfTail(i, tail)  BY <2>1, <2>5, Zenon DEF OfTail
  <2>6. QED  BY <1>1, <2>1, <2>3, <2>4, <2>5, Zenon
<1>5. RepliesBeforeNotification'
  <2>1. SUFFICES ASSUME NEW i \in 1..Len(receive_queue'), NEW j \in 1..Len(receive_queue'),
                        i < j, receive_queue'[i].notify, ~receive_queue'[j].notify
                 PROVE  receive_queue'[j].of # receive_queue'[i].of
    BY Zenon DEF RepliesBeforeNotification
  <2>2. CASE Kept(j)
    <3>1. i \in 1..Len(receive_queue) /\ ~(Len(receive_queue) < i)
      BY <1>f, <2>1, <2>2, SMTT(30) DEF Kept, Lengths
    <3>2. Kept(i)  BY <1>1, <2>1, <3>1, Zenon
    <3>3. QED
      BY <1>2, <2>1, <2>2, <3>2, ZenonT(30) DEF Kept, RepliesBeforeNotification
  <2>3. CASE Woken(j, wake_seq)  BY <2>1, <2>3, Zenon DEF Woken
  <2>4. CASE OfTail(j, tail)
    <3>1. PICK k \in 1..Len(tail) : receive_queue'[j] = tail[k]
      BY <2>4, Zenon DEF OfTail
    <3>2. receive_queue'[i].of # NoBlock
      BY <1>3, <2>1, Zenon DEF NotifiesBlocks, NoBlock
    <3>3. CASE tail[k].of = NoBlock  BY <3>1, <3>2, <3>3, Zenon
    <3>4. CASE tail[k].of # NoBlock
      <4>1. tail[k].of \in Nat /\ wake_seq < tail[k].of  BY <3>4, Zenon
      <4>2. CASE Kept(i)
        <5>1. receive_queue[i].of < tail[k].of /\ receive_queue[i].of \in Nat
          BY <1>f, <2>1, <3>4, <4>2, ZenonT(30) DEF Kept
        <5>2. receive_queue[i].of # tail[k].of  BY <4>1, <5>1
        <5>3. QED  BY <3>1, <4>2, <5>2, Zenon DEF Kept
      <4>3. CASE Woken(i, wake_seq)
        <5>1. receive_queue'[i].of \in Nat /\ receive_queue'[i].of <= wake_seq
          BY <1>f, <4>3, Zenon DEF Woken
        <5>2. receive_queue'[i].of # tail[k].of  BY <4>1, <5>1
        <5>3. QED  BY <3>1, <5>2, Zenon
      <4>4. CASE OfTail(i, tail)  BY <2>1, <4>4, Zenon DEF OfTail
      <4>5. QED  BY <1>1, <2>1, <4>2, <4>3, <4>4, Zenon
    <3>5. QED  BY <3>3, <3>4, Zenon
  <2>5. QED  BY <1>1, <2>1, <2>2, <2>3, <2>4, Zenon
<1>6. QED  BY <1>3, <1>4, <1>5, Zenon DEF QueuesInv

LEMMA HandlingKeeps ==
    ASSUME ReplyInv, HandleMessage
    PROVE  RepliesInv' /\ QueuesInv'
<1> DEFINE m == Head(to_host)
<1>f. /\ LinkInv /\ Elements
      /\ \A i \in 1..Len(to_host) : to_host[i].seq \in Nat /\ to_host[i].of \in Nat
  BY ReplyFacts, Zenon
<1>0. to_host # <<>> /\ to_host' = Tail(to_host)  BY Zenon DEF HandleMessage
<1>1. Taken  BY <1>0, TakenFromWire, Zenon
<1>2. ReplySeq(m) = m.seq /\ ~Unsent(m.seq)
  BY <1>f, <1>0, ReplySeqIsSeq, Zenon
<1>3. Notify(WakeSeq(m, m.seq), IF m.ack THEN <<>> ELSE <<Response(m.of)>>)
  BY <1>2, Zenon DEF HandleMessage
<1>4. \A j \in 1..Len(to_host') :
          FromHandler(to_host'[j]) => WakeSeq(m, m.seq) < to_host'[j].of
  BY <1>1, WokenBeforeReplies, Zenon
<1>5. 1 \in 1..Len(to_host) /\ m = to_host[1]  BY <1>1, Zenon DEF Taken
<1>6. /\ m.seq \in Nat /\ m.of \in Nat /\ m.ack \in BOOLEAN
      /\ FromHandler(m) => m.seq = m.of + 1
      /\ FromHandler(m) => \A i \in 1..Len(receive_queue) :
                               receive_queue[i].notify => receive_queue[i].of < m.of
  <2>1. RepliesNumbered /\ NotifiedEarlier  BY Zenon DEF ReplyInv, RepliesInv, QueuesInv
  <2>2. \A x \in Messages : x.ack \in BOOLEAN  BY Zenon DEF Messages
  <2>3. m \in Messages  BY <1>f, <1>5, Zenon DEF Elements
  <2>4. QED
    BY <1>f, <1>5, <2>1, <2>2, <2>3, Zenon DEF RepliesNumbered, NotifiedEarlier
<1> HIDE DEF m
<1>7. WakeSeq(m, m.seq) \in Int  BY <1>6 DEF WakeSeq
<1>8. QueuesInv'
  <2>1. CASE m.ack
    <3>1. Notify(WakeSeq(m, m.seq), <<>>)  BY <1>3, <2>1, Zenon
    <3>2. <<>> \in Seq(Entries) /\ 1..Len(<<>>) = {}  OBVIOUS
    <3>3. QED  BY <1>1, <1>4, <1>7, <3>1, <3>2, NotifyingKeeps, ZenonT(30)
  <2>2. CASE ~m.ack
    <3> DEFINE tail == <<Response(m.of)>>
    <3>1. Notify(WakeSeq(m, m.seq), tail)  BY <1>3, <2>2, Zenon
    <3>2. /\ Response(m.of) \in Entries /\ ~Response(m.of).notify
          /\ Response(m.of).of = m.of
      BY <1>6, Zenon DEF Response, Entries
    <3>3. /\ tail \in Seq(Entries)
          /\ \A k \in 1..Len(tail) : tail[k] = Response(m.of)
      BY <3>2
    <3> HIDE DEF tail
    <3>4. m.of # NoBlock => WakeSeq(m, m.seq) < m.of
      BY <1>6, <2>2 DEF WakeSeq, FromHandler
    <3>5. \A k \in 1..Len(tail) :
              /\ ~tail[k].notify /\ tail[k].of \in Nat
              /\ tail[k].of # NoBlock =>
                     /\ WakeSeq(m, m.seq) < tail[k].of
                     /\ \A i \in 1..Len(receive_queue) :
                            receive_queue[i].notify => receive_queue[i].of < tail[k].of
      BY <1>6, <2>2, <3>2, <3>3, <3>4, Zenon DEF FromHandler
    <3>6. QED  BY <1>1, <1>4, <1>7, <3>1, <3>3, <3>5, NotifyingKeeps, ZenonT(30)
  <2>3. QED  BY <2>1, <2>2, Zenon
<1>9. QED  BY <1>1, <1>8, TakingKeeps, Zenon

\* A step that leaves the wire to the host and its queues alone.
LEMMA RestingKeeps ==
    ASSUME ReplyInv, to_host' = to_host, receive_queue' = receive_queue,
           notify_queue' = notify_queue
    PROVE  RepliesInv' /\ QueuesInv'
<1>1. /\ RepliesNumbered /\ AcksBeforeReplies /\ NotifiedEarlier
      /\ NotifiesBlocks /\ RepliesBeforeNotification
  BY Zenon DEF ReplyInv, RepliesInv, QueuesInv
<1>2. RepliesNumbered' /\ AcksBeforeReplies' /\ NotifiedEarlier'
  BY <1>1, Zenon DEF RepliesNumbered, AcksBeforeReplies, NotifiedEarlier, FromHandler
<1>3. NotifiesBlocks' /\ RepliesBeforeNotification'
  BY <1>1, Zenon DEF NotifiesBlocks, RepliesBeforeNotification
<1>4. QED  BY <1>2, <1>3, Zenon DEF RepliesInv, QueuesInv

\* A new block that asks to be notified.
LEMMA AskingKeeps ==
    ASSUME ReplyInv, NEW notify \in BOOLEAN, SendBlock(notify)
    PROVE  RepliesInv' /\ QueuesInv'
<1>1. /\ to_host' = to_host /\ receive_queue' = receive_queue
      /\ notify_queue' = notify_queue \/ notify_queue' = Append(notify_queue, send_seq)
  BY Zenon DEF SendBlock
<1>2. CASE notify_queue' = notify_queue  BY <1>1, <1>2, RestingKeeps, Zenon
<1>3. CASE notify_queue' = Append(notify_queue, send_seq)
  <2>1. /\ RepliesNumbered /\ AcksBeforeReplies /\ NotifiedEarlier
        /\ NotifiesBlocks /\ RepliesBeforeNotification
    BY Zenon DEF ReplyInv, RepliesInv, QueuesInv
  <2>2. RepliesNumbered' /\ AcksBeforeReplies' /\ NotifiedEarlier'
    BY <1>1, <2>1, Zenon DEF RepliesNumbered, AcksBeforeReplies, NotifiedEarlier, FromHandler
  <2>3. RepliesBeforeNotification'
    BY <1>1, <2>1, Zenon DEF RepliesBeforeNotification
  <2>4. \A i \in 1..Len(notify_queue') : notify_queue'[i] # NoBlock
    <3>1. LinkInv  BY Zenon DEF ReplyInv
    <3>2. send_seq # NoBlock /\ send_seq \in Nat
      BY <3>1, LinkFacts DEF Numbers, Order, NoBlock
    <3>3. notify_queue \in Seq(Nat)  BY <3>1, Zenon DEF LinkInv, TypeOK
    <3>4. Len(notify_queue) \in Nat  BY <3>3, SeqLength, Zenon
    <3>5. /\ Len(notify_queue') = Len(notify_queue) + 1
          /\ \A i \in 1..Len(notify_queue) : notify_queue'[i] = notify_queue[i]
          /\ notify_queue'[Len(notify_queue) + 1] = send_seq
      BY <1>3, <3>2, <3>3, SeqAppend
    <3>6. \A i \in 1..Len(notify_queue') :
              i \in 1..Len(notify_queue) \/ i = Len(notify_queue) + 1
      BY <3>4, <3>5
    <3>7. QED  BY <2>1, <3>2, <3>5, <3>6, Zenon DEF NotifiesBlocks
  <2>5. NotifiesBlocks'
    BY <1>1, <2>1, <2>4, Zenon DEF NotifiesBlocks, NoBlock
  <2>6. QED  BY <2>2, <2>3, <2>5, Zenon DEF RepliesInv, QueuesInv
<1>4. QED  BY <1>1, <1>2, <1>3, Zenon

\* An ack is no reply of a handler.
LEMMA AckingKeeps ==
    ASSUME ReplyInv, Sendf(Ack(next_sequence)),
           receive_queue' = receive_queue, notify_queue' = notify_queue
    PROVE  RepliesInv' /\ QueuesInv'
<1>1. next_sequence \in Nat  BY LinkFacts, Zenon DEF ReplyInv, Numbers
<1>2. Ack(next_sequence) \in Messages /\ ~FromHandler(Ack(next_sequence))
  BY <1>1, Zenon DEF Ack, Messages, FromHandler, NoBlock
<1>3. QED  BY <1>2, SendingKeeps, Zenon

LEMMA ReplyInvNext == ReplyInv /\ [Next]_vars => ReplyInv'
<1> SUFFICES ASSUME ReplyInv, [Next]_vars PROVE ReplyInv'  BY Zenon
<1>l. LinkInv  BY Zenon DEF ReplyInv
<1>n. next_sequence \in Nat /\ dispatching \in Nat
  BY <1>l, Zenon DEF LinkInv, TypeOK
<1>h. HandlerNumber  BY Zenon DEF ReplyInv
<1>i. LinkInv'  BY <1>l, LinkInvNext, Zenon
<1> DEFINE Good == HandlerNumber' /\ RepliesInv' /\ QueuesInv'
<1> SUFFICES Good  BY <1>i, Zenon DEF ReplyInv
<1>1. ASSUME NEW notify \in BOOLEAN, SendBlock(notify)  PROVE Good
  <2>1. HandlerNumber'  BY <1>h, <1>1, Zenon DEF SendBlock, mcu, HandlerNumber
  <2>2. QED  BY <1>1, <2>1, AskingKeeps, Zenon
<1>2. CASE HandleMessage
  <2>1. HandlerNumber'  BY <1>h, <1>2, Zenon DEF HandleMessage, mcu, HandlerNumber
  <2>2. QED  BY <1>2, <2>1, HandlingKeeps, Zenon
<1>3. CASE \/ RetransmitEvent \/ LoseBlock \/ UNCHANGED vars
  <2>1. /\ to_host' = to_host /\ receive_queue' = receive_queue
        /\ notify_queue' = notify_queue /\ next_sequence' = next_sequence
        /\ dispatching' = dispatching
    BY <1>3, ZenonT(30) DEF RetransmitEvent, LoseBlock, vars, host, mcu
  <2>2. HandlerNumber'  BY <1>h, <2>1, Zenon DEF HandlerNumber
  <2>3. QED  BY <2>1, <2>2, RestingKeeps, Zenon
<1>4. CASE FindBlock
  <2>1. Head(to_mcu) = next_sequence  BY <1>l, <1>4, FoundIsNext, Zenon
  <2>2. /\ to_host' = to_host /\ receive_queue' = receive_queue
        /\ notify_queue' = notify_queue /\ next_sequence' = next_sequence + 1
        /\ dispatching' = Head(to_mcu)
    BY <1>4, Zenon DEF FindBlock, host
  <2>3. HandlerNumber'  BY <2>1, <2>2, Zenon DEF HandlerNumber
  <2>4. QED  BY <2>2, <2>3, RestingKeeps, Zenon
<1>5. CASE NakBlock \/ PopAndAck
  <2>1. /\ Sendf(Ack(next_sequence)) /\ receive_queue' = receive_queue
        /\ notify_queue' = notify_queue /\ next_sequence' = next_sequence
        /\ dispatching' \in {dispatching, NoBlock}
    BY <1>5, Zenon DEF NakBlock, PopAndAck, host
  <2>2. HandlerNumber'  BY <1>h, <2>1, Zenon DEF HandlerNumber
  <2>3. QED  BY <2>1, <2>2, AckingKeeps, Zenon
<1>6. CASE Reply
  <2>1. /\ Sendf(Data(next_sequence, dispatching)) /\ receive_queue' = receive_queue
        /\ notify_queue' = notify_queue /\ next_sequence' = next_sequence
        /\ dispatching' = dispatching /\ dispatching # NoBlock
    BY <1>6, Zenon DEF Reply, host, mcu
  <2>2. HandlerNumber'  BY <1>h, <2>1, Zenon DEF HandlerNumber
  <2>3. Done = dispatching /\ next_sequence = dispatching + 1
    BY <1>h, <1>n, <2>1 DEF Done, HandlerNumber
  <2>4. /\ Data(next_sequence, dispatching) \in Messages
        /\ Data(next_sequence, dispatching).seq = next_sequence
        /\ Data(next_sequence, dispatching).of = dispatching
    BY <1>n, Zenon DEF Data, Messages
  <2>5. QED  BY <2>1, <2>2, <2>3, <2>4, SendingKeeps, Zenon
<1>7. CASE TaskSendf
  <2>1. /\ Sendf(Data(next_sequence, NoBlock)) /\ receive_queue' = receive_queue
        /\ notify_queue' = notify_queue /\ next_sequence' = next_sequence
        /\ dispatching' = dispatching
    BY <1>7, Zenon DEF TaskSendf, host, mcu
  <2>2. HandlerNumber'  BY <1>h, <2>1, Zenon DEF HandlerNumber
  <2>3. /\ Data(next_sequence, NoBlock) \in Messages
        /\ ~FromHandler(Data(next_sequence, NoBlock))
    BY <1>n, Zenon DEF Data, Messages, FromHandler, NoBlock
  <2>4. QED  BY <2>1, <2>2, <2>3, SendingKeeps, Zenon
<1>8. CASE ShutdownInDispatch \/ SkipSync
  <2>1. /\ to_host' = to_host /\ receive_queue' = receive_queue
        /\ notify_queue' = notify_queue /\ next_sequence' = next_sequence
        /\ dispatching' \in {dispatching, NoBlock}
    BY <1>8, Zenon DEF ShutdownInDispatch, SkipSync, host
  <2>2. HandlerNumber'  BY <1>h, <2>1, Zenon DEF HandlerNumber
  <2>3. QED  BY <2>1, <2>2, RestingKeeps, Zenon
<1>9. ASSUME NEW found \in BOOLEAN, NeedSync(found)  PROVE Good
  <2>1. /\ to_host' = to_host \/ Sendf(Ack(next_sequence))
        /\ receive_queue' = receive_queue /\ notify_queue' = notify_queue
        /\ next_sequence' = next_sequence /\ dispatching' = dispatching
    BY <1>9, Zenon DEF NeedSync, host
  <2>2. HandlerNumber'  BY <1>h, <2>1, Zenon DEF HandlerNumber
  <2>3. QED  BY <2>1, <2>2, RestingKeeps, AckingKeeps, Zenon
<1>10. CASE Resync  BY <1>9, <1>10, Zenon DEF Resync
<1>11. ASSUME NEW found \in BOOLEAN, CorruptBlock(found)  PROVE Good
  BY <1>9, <1>11, Zenon DEF CorruptBlock
<1>12. CASE LoseReply
  <2>1. /\ to_host # <<>> /\ to_host' = Tail(to_host)
        /\ receive_queue' = receive_queue /\ notify_queue' = notify_queue
        /\ next_sequence' = next_sequence /\ dispatching' = dispatching
    BY <1>12, Zenon DEF LoseReply, host, mcu
  <2>2. HandlerNumber'  BY <1>h, <2>1, Zenon DEF HandlerNumber
  <2>3. Taken  BY <2>1, TakenFromWire, Zenon
  <2>4. QED  BY <2>1, <2>2, <2>3, LosingKeeps, Zenon
<1>13. QED
  BY <1>1, <1>2, <1>3, <1>4, <1>5, <1>6, <1>7, <1>8, <1>10, <1>11, <1>12, ZenonT(30)
     DEF Next, HostStep, McuStep, Fault

LEMMA ReplyInvInit == Init => ReplyInv
<1> SUFFICES ASSUME Init PROVE ReplyInv  BY Zenon
<1>1. LinkInv  BY LinkInvInit, Zenon
<1>2. dispatching = NoBlock  BY Zenon DEF Init
<1>3. 1..Len(to_host) = {} /\ 1..Len(receive_queue) = {} /\ 1..Len(notify_queue) = {}
  BY DEF Init
<1>4. RepliesInv /\ QueuesInv
  BY <1>3, Zenon DEF RepliesInv, QueuesInv, RepliesNumbered, AcksBeforeReplies,
     NotifiedEarlier, NotifiesBlocks, RepliesBeforeNotification
<1>5. QED  BY <1>1, <1>2, <1>4, Zenon DEF ReplyInv, HandlerNumber

\* Whatever is lost, damaged or retransmitted, the caller handle_message wakes
\* finds every response that reached the host already in receive_queue.
THEOREM RepliesComeFirst == Spec => []RepliesBeforeNotification
<1>1. ReplyInv => RepliesBeforeNotification  BY Zenon DEF ReplyInv, QueuesInv
<1>2. QED  BY <1>1, ReplyInvInit, ReplyInvNext, PTL DEF Spec

-----------------------------------------------------------------------------
(* Refinement of CommandStream *)

LEMMA StreamInit == Init => Stream!Init
<1> SUFFICES ASSUME Init PROVE Stream!Init  BY Zenon
<1>1. first_seq \in Nat /\ 1 <= first_seq  BY LinkAssumption DEF Init
<1>2. QED  BY <1>1 DEF Init, Stream!Init, Larger

\* A step that changes none of these is a stuttering step of the service.
LEMMA StreamStutter ==
    ASSUME first_seq' = first_seq, dispatched' = dispatched,
           send_seq' = send_seq, next_sequence' = next_sequence,
           receive_seq' = receive_seq
    PROVE  UNCHANGED Stream!vars
  BY Zenon DEF Stream!vars, Larger

LEMMA StreamSendBlock ==
    ASSUME LinkInv, NEW notify \in BOOLEAN, SendBlock(notify)
    PROVE  [Stream!Next]_(Stream!vars)
<1>1. send_seq \in Nat /\ next_sequence \in Nat  BY LinkFacts, Zenon DEF Numbers
<1>2. /\ send_seq' = send_seq + 1 /\ next_sequence' = next_sequence
      /\ first_seq' = first_seq /\ dispatched' = dispatched
      /\ receive_seq' = receive_seq
  BY Zenon DEF SendBlock, mcu
<1>3. CASE next_sequence <= send_seq
  <2>1. Larger(send_seq', next_sequence') = Larger(send_seq, next_sequence) + 1
    BY <1>1, <1>2, <1>3 DEF Larger
  <2>2. Larger(receive_seq', first_seq') = Larger(receive_seq, first_seq)
    BY <1>2, Zenon DEF Larger
  <2>3. QED  BY <1>2, <2>1, <2>2, Zenon DEF Stream!Next, Stream!Issue
<1>4. CASE ~(next_sequence <= send_seq)
  <2>1. Larger(send_seq', next_sequence') = Larger(send_seq, next_sequence)
    BY <1>1, <1>2, <1>4 DEF Larger
  <2>2. Larger(receive_seq', first_seq') = Larger(receive_seq, first_seq)
    BY <1>2, Zenon DEF Larger
  <2>3. QED  BY <1>2, <2>1, <2>2, Zenon DEF Stream!vars
<1>5. QED  BY <1>3, <1>4, Zenon

LEMMA StreamFindBlock ==
    ASSUME LinkInv, FindBlock
    PROVE  [Stream!Next]_(Stream!vars)
<1>n. Numbers  BY LinkFacts, Zenon
<1>1. /\ Head(to_mcu) = next_sequence /\ next_sequence < send_seq
  BY FoundIsNext, Zenon
<1>2. /\ send_seq' = send_seq /\ next_sequence' = next_sequence + 1
      /\ first_seq' = first_seq /\ receive_seq' = receive_seq
      /\ dispatched' = Append(dispatched, next_sequence)
  BY <1>1, Zenon DEF FindBlock, host
<1>3. next_sequence = first_seq + Len(dispatched)
  BY Zenon DEF LinkInv, DispatchedInOrder
<1>4. /\ Larger(send_seq, next_sequence) = send_seq
      /\ Larger(send_seq', next_sequence') = send_seq
  BY <1>1, <1>2, <1>n DEF Larger, Numbers
<1>5. Larger(receive_seq', first_seq') = Larger(receive_seq, first_seq)
  BY <1>2, Zenon DEF Larger
<1>6. QED
  BY <1>1, <1>2, <1>3, <1>4, <1>5, Zenon DEF Stream!Next, Stream!Deliver

LEMMA StreamHandleMessage ==
    ASSUME LinkInv, HandleMessage
    PROVE  [Stream!Next]_(Stream!vars)
<1> DEFINE m == Head(to_host)
<1>n. Numbers  BY LinkFacts, Zenon
<1>o. Order  BY LinkFacts, Zenon
<1>1. /\ next_sequence' = next_sequence /\ first_seq' = first_seq
      /\ dispatched' = dispatched /\ to_host # <<>>
  BY Zenon DEF HandleMessage, mcu
<1>2. /\ m.seq \in Nat /\ ReplySeq(m) = m.seq /\ ~Unsent(m.seq)
      /\ receive_seq <= m.seq /\ m.seq <= next_sequence /\ first_seq <= m.seq
  BY <1>1, ReplySeqIsSeq, Zenon
<1>3. UpdateReceiveSeq(m.seq)  BY <1>2, Zenon DEF HandleMessage
<1> HIDE DEF m
<1>4. receive_seq' = m.seq  BY <1>3, Zenon DEF UpdateReceiveSeq
<1>5. send_seq' = send_seq \/ (send_seq' = m.seq /\ send_seq < m.seq)
  <2>1. Len(sent_queue) = send_seq - receive_seq
    BY Zenon DEF LinkInv, HostCounters, SentQueueMatches
  <2>2. QED  BY <1>2, <1>3, <1>n, <2>1 DEF UpdateReceiveSeq, Numbers
<1>6. Larger(send_seq', next_sequence') = Larger(send_seq, next_sequence)
  BY <1>1, <1>2, <1>5, <1>n, <1>o, SMTT(30) DEF Larger, Numbers, Order
<1>7. next_sequence = first_seq + Len(dispatched)
  BY Zenon DEF LinkInv, DispatchedInOrder
<1>8. Larger(receive_seq', first_seq') = m.seq
  BY <1>1, <1>2, <1>4, <1>n, Zenon DEF Larger, Numbers
<1>9. CASE m.seq = Larger(receive_seq, first_seq)
  BY <1>1, <1>6, <1>8, <1>9, Zenon DEF Stream!vars
<1>10. CASE m.seq # Larger(receive_seq, first_seq)
  <2>1. m.seq \in Larger(receive_seq, first_seq) + 1 .. first_seq + Len(dispatched)
    BY <1>2, <1>7, <1>10, <1>n DEF Larger, Numbers
  <2>2. QED  BY <1>1, <1>6, <1>8, <2>1, Zenon DEF Stream!Next, Stream!Confirm
<1>11. QED  BY <1>9, <1>10, ZenonT(30)

LEMMA StreamNext == LinkInv /\ [Next]_vars => [Stream!Next]_(Stream!vars)
<1> SUFFICES ASSUME LinkInv, [Next]_vars PROVE [Stream!Next]_(Stream!vars)
  BY Zenon
<1>1. ASSUME NEW notify \in BOOLEAN, SendBlock(notify)
      PROVE  [Stream!Next]_(Stream!vars)
  BY <1>1, StreamSendBlock, Zenon
<1>2. CASE HandleMessage  BY <1>2, StreamHandleMessage, Zenon
<1>3. CASE FindBlock  BY <1>3, StreamFindBlock, Zenon
<1>4. CASE \/ RetransmitEvent \/ NakBlock \/ Reply \/ TaskSendf \/ PopAndAck
           \/ ShutdownInDispatch \/ SkipSync \/ Resync \/ Fault \/ UNCHANGED vars
  <2>1. /\ first_seq' = first_seq /\ dispatched' = dispatched
        /\ send_seq' = send_seq /\ next_sequence' = next_sequence
        /\ receive_seq' = receive_seq
    BY <1>4, ZenonT(30) DEF RetransmitEvent, NakBlock, Reply, TaskSendf, PopAndAck,
       ShutdownInDispatch, SkipSync, Resync, NeedSync, Fault, CorruptBlock,
       LoseBlock, LoseReply, host, mcu, vars
  <2>2. QED  BY <2>1, StreamStutter, ZenonT(90)
<1>5. QED  BY <1>1, <1>2, <1>3, <1>4, Zenon DEF Next, HostStep, McuStep

\* The link implements the service of CommandStream: every block from
\* first_seq on is delivered once, in order, and confirmed only afterwards.
THEOREM LinkImplementsStream == Spec => ImplementsStream
  BY StreamInit, StreamNext, LinkInvariant, PTL
     DEF Spec, ImplementsStream, Stream!Spec
=============================================================================
