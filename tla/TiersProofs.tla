---------------------------- MODULE TiersProofs ----------------------------
(***************************************************************************)
(* For every size of the queue and any number of entries: what a flush     *)
(* deletes by count is what it wrote, as long as no other flush wrote at   *)
(* the same time, and whatever fails half-way.                             *)
(***************************************************************************)
EXTENDS MemoryTiers, SequenceTheorems, TLAPS

TierSpec == TierInit /\ [][TierNext]_tierVars

FlushState == [at : {"none", "ready", "writing"}, batch : Seq(Nat)]

TierTypeOK ==
    /\ buffer \in Seq(Nat) /\ rows \in Seq(Nat) /\ open \in Seq(Nat) /\ entries \in Nat
    /\ flush \in [Flushers -> FlushState] /\ overlapped \in BOOLEAN /\ torn \in Nat

\* The entries are numbered: the buffer holds the latest, the database all before.
InOrder ==
    /\ Len(buffer) <= entries
    /\ \A i \in 1 .. Len(buffer) : buffer[i] = entries - Len(buffer) + i
    /\ \A e \in 1 .. entries - Len(buffer) : \E i \in 1 .. Len(rows) : rows[i] = e

\* Once each, as long as no failed flush left rows in the transaction.
Once ==
    torn = 0 => /\ open = <<>> /\ Len(rows) + Len(buffer) = entries
                /\ \A i \in 1 .. Len(rows) : rows[i] = i

\* Who writes, writes what the buffer begins with; and nobody else does.
Written ==
    \A w \in Flushers : flush[w].at = "writing" =>
        /\ Len(flush[w].batch) <= Len(buffer)
        /\ \A i \in 1 .. Len(flush[w].batch) : flush[w].batch[i] = buffer[i]
        /\ \A v \in Flushers \ {w} : flush[v].at # "writing"

Scheduled == Len(buffer) >= QueueSize => flush["task"].at # "none"

TierInv == TierTypeOK /\ (~overlapped => InOrder /\ Once /\ Written) /\ Scheduled
-----------------------------------------------------------------------------
\* What is left of a buffer when the first n entries go.
LEMMA LeftFacts ==
    ASSUME NEW b \in Seq(Nat), NEW n \in Nat
    PROVE  /\ SubSeq(b, n + 1, Len(b)) \in Seq(Nat)
           /\ Len(SubSeq(b, n + 1, Len(b))) = IF n <= Len(b) THEN Len(b) - n ELSE 0
           /\ \A i \in 1 .. Len(SubSeq(b, n + 1, Len(b))) :
                 SubSeq(b, n + 1, Len(b))[i] = b[n + i]
OBVIOUS

\* The states a flush can be in.
LEMMA FlushStates ==
    /\ NoFlush \in FlushState /\ NoFlush.at = "none"
    /\ ReadyFlush \in FlushState /\ ReadyFlush.at = "ready"
    /\ \A b \in Seq(Nat) :
          Writing(b) \in FlushState /\ Writing(b).at = "writing" /\ Writing(b).batch = b
BY DEF FlushState, NoFlush, ReadyFlush, Writing

\* The step of a flush that wrote its batch.
LEMMA WritesStep ==
    ASSUME TierInv, NEW w \in Flushers, FlushWrites(w)
    PROVE  TierInv'
<1> DEFINE batch == flush[w].batch
           left  == SubSeq(buffer, Len(batch) + 1, Len(buffer))
<1>a. /\ buffer \in Seq(Nat) /\ rows \in Seq(Nat) /\ entries \in Nat /\ overlapped \in BOOLEAN
      /\ open \in Seq(Nat) /\ torn \in Nat
      /\ flush \in [Flushers -> FlushState] /\ batch \in Seq(Nat) /\ Len(batch) \in Nat
      /\ QueueSize \in Nat \ {0} /\ Len(buffer) \in Nat /\ Len(rows) \in Nat
    BY TiersAssumption DEF TierInv, TierTypeOK, FlushState
<1>1. /\ flush[w].at = "writing" /\ rows' = (rows \o open) \o batch /\ buffer' = left
      /\ open' = <<>>
      /\ flush' = [flush EXCEPT ![w] = IF left = <<>> THEN NoFlush ELSE Writing(left)]
      /\ UNCHANGED <<entries, overlapped, torn>>
    BY DEF FlushWrites
<1>2. /\ left \in Seq(Nat)
      /\ Len(left) = IF Len(batch) <= Len(buffer) THEN Len(buffer) - Len(batch) ELSE 0
      /\ \A i \in 1 .. Len(left) : left[i] = buffer[Len(batch) + i]
    BY <1>a, LeftFacts
<1> HIDE DEF batch, left
<1>3. /\ rows' \in Seq(Nat) /\ Len(rows') = Len(rows) + Len(open) + Len(batch)
      /\ \A i \in 1 .. Len(rows) : rows'[i] = rows[i]
      /\ \A i \in 1 .. Len(batch) : rows'[Len(rows) + Len(open) + i] = batch[i]
  <2>1. /\ rows \o open \in Seq(Nat) /\ Len(rows \o open) = Len(rows) + Len(open)
        /\ Len(open) \in Nat
        /\ \A i \in 1 .. Len(rows) : (rows \o open)[i] = rows[i]
      BY <1>a
  <2> QED
      BY <1>a, <1>1, <2>1
<1>4. /\ flush'[w] = IF left = <<>> THEN NoFlush ELSE Writing(left)
      /\ \A v \in Flushers \ {w} : flush'[v] = flush[v]
    BY <1>a, <1>1
<1>5. TierTypeOK'
    BY <1>a, <1>1, <1>2, <1>3, FlushStates DEF TierTypeOK
<1>6. Scheduled'
  <2>1. Len(left) <= Len(buffer)
      BY <1>a, <1>2
  <2>2. CASE left = <<>>
      BY <2>2, <1>a, <1>1 DEF Scheduled
  <2>3. CASE left # <<>> /\ w = "task"
      BY <2>3, <1>2, <1>4, FlushStates DEF Scheduled
  <2>4. CASE left # <<>> /\ w # "task"
      BY <2>1, <2>4, <1>a, <1>1, <1>2, <1>4 DEF Scheduled, TierInv, Flushers
  <2> QED
      BY <2>2, <2>3, <2>4
<1>7. ASSUME ~overlapped'
      PROVE  InOrder' /\ Once' /\ Written'
  <2>0. Len(open) \in Nat
      BY <1>a
  <2>1. /\ InOrder /\ Once /\ Len(batch) <= Len(buffer)
        /\ \A i \in 1 .. Len(batch) : batch[i] = buffer[i]
        /\ \A v \in Flushers \ {w} : flush[v].at # "writing"
      BY <1>1, <1>7 DEF TierInv, Written, batch
  <2>2. /\ Len(left) = Len(buffer) - Len(batch) /\ Len(buffer') = Len(left)
        /\ entries - Len(left) = entries - Len(buffer) + Len(batch)
      BY <1>a, <1>1, <1>2, <2>1
  <2>3. \A e \in 1 .. entries - Len(left) : \E i \in 1 .. Len(rows') : rows'[i] = e
    <3> SUFFICES ASSUME NEW e \in 1 .. entries - Len(left)
                 PROVE  \E i \in 1 .. Len(rows') : rows'[i] = e
        OBVIOUS
    <3>1. CASE e <= entries - Len(buffer)
      <4>0. e \in 1 .. entries - Len(buffer)
          BY <3>1, <1>a
      <4>1. PICK i \in 1 .. Len(rows) : rows[i] = e
          BY <4>0, <2>1 DEF InOrder
      <4>2. i \in 1 .. Len(rows') /\ rows'[i] = e
          BY <4>1, <1>a, <1>3, <2>0
      <4> QED
          BY <4>2
    <3>2. CASE e > entries - Len(buffer)
      <4> DEFINE b == e - (entries - Len(buffer))
                 i == Len(rows) + Len(open) + b
      <4>1. b \in 1 .. Len(batch) /\ b \in 1 .. Len(buffer) /\ e = entries - Len(buffer) + b
          BY <3>2, <1>a, <2>1, <2>2
      <4>2. batch[b] = e
          BY <4>1, <2>1 DEF InOrder
      <4> HIDE DEF b
      <4>3. rows'[i] = e
          BY <4>1, <4>2, <1>3
      <4>4. i \in 1 .. Len(rows')
        <5>1. Len(rows') = Len(rows) + Len(open) + Len(batch) /\ b \in 1 .. Len(batch)
              /\ Len(rows) \in Nat /\ Len(open) \in Nat /\ Len(batch) \in Nat
            BY <4>1, <1>a, <1>3, <2>0
        <5> QED
            BY <5>1
      <4> QED
          BY <4>3, <4>4
    <3> QED
        BY <3>1, <3>2, <1>a
  <2>4. \A i \in 1 .. Len(left) : left[i] = entries - Len(left) + i
    <3> SUFFICES ASSUME NEW i \in 1 .. Len(left) PROVE left[i] = entries - Len(left) + i
        OBVIOUS
    <3>1. Len(batch) + i \in 1 .. Len(buffer)
        BY <1>a, <2>1, <2>2
    <3> QED
        BY <3>1, <1>a, <1>2, <2>1, <2>2 DEF InOrder
  <2>5. InOrder'
    <3>1. Len(buffer') <= entries' /\ entries' = entries
        BY <1>a, <1>1, <2>1, <2>2 DEF InOrder
    <3>2. \A i \in 1 .. Len(buffer') : buffer'[i] = entries' - Len(buffer') + i
        BY <1>1, <2>4
    <3>3. \A e \in 1 .. entries' - Len(buffer') : \E i \in 1 .. Len(rows') : rows'[i] = e
        BY <1>1, <2>3
    <3> QED
        BY <3>1, <3>2, <3>3 DEF InOrder
  <2>6. Written'
    <3> SUFFICES ASSUME NEW v \in Flushers, flush'[v].at = "writing"
                 PROVE  /\ Len(flush'[v].batch) <= Len(buffer')
                        /\ \A i \in 1 .. Len(flush'[v].batch) :
                              flush'[v].batch[i] = buffer'[i]
                        /\ \A u \in Flushers \ {v} : flush'[u].at # "writing"
        BY DEF Written
    <3>1. v = w
        BY <1>4, <2>1
    <3>2. left # <<>> /\ flush'[v].batch = left
        BY <3>1, <1>2, <1>4, FlushStates
    <3> QED
        BY <3>1, <3>2, <1>a, <1>1, <1>4, <2>1, <2>2
  <2>7. Once'
    <3> SUFFICES ASSUME torn' = 0
                 PROVE  /\ open' = <<>> /\ Len(rows') + Len(buffer') = entries'
                        /\ \A i \in 1 .. Len(rows') : rows'[i] = i
        BY DEF Once
    <3>1. /\ Len(open) = 0 /\ Len(rows) + Len(buffer) = entries /\ open' = <<>>
          /\ \A i \in 1 .. Len(rows) : rows[i] = i
        BY <1>1, <2>1 DEF Once
    <3>2. Len(rows') = Len(rows) + Len(batch) /\ Len(rows') + Len(buffer') = entries'
      <4>1. /\ Len(rows') = Len(rows) + Len(open) + Len(batch) /\ entries' = entries
            /\ Len(buffer') = Len(buffer) - Len(batch)
          BY <1>1, <1>3, <2>2
      <4>2. /\ Len(rows) \in Nat /\ Len(buffer) \in Nat /\ Len(batch) \in Nat
            /\ entries \in Nat
          BY <1>a
      <4> QED
          BY <3>1, <4>1, <4>2
    <3>3. ASSUME NEW i \in 1 .. Len(rows') PROVE rows'[i] = i
      <4>1. CASE i <= Len(rows)
        <5>1. i \in 1 .. Len(rows)
            BY <4>1, <1>a
        <5> QED
            BY <5>1, <1>3, <3>1
      <4>2. CASE i > Len(rows)
        <5> DEFINE b == i - Len(rows)
        <5>1. b \in 1 .. Len(batch) /\ b \in 1 .. Len(buffer) /\ Len(rows) + b = i
              /\ entries - Len(buffer) = Len(rows)
            BY <4>2, <1>a, <3>1, <3>2, <2>1
        <5>2. batch[b] = i
            BY <5>1, <2>1, <1>a DEF InOrder
        <5> HIDE DEF b
        <5>3. Len(rows) + Len(open) + b = i
            BY <5>1, <3>1, <1>a
        <5> QED
            BY <5>1, <5>2, <5>3, <1>3
      <4> QED
          BY <4>1, <4>2, <1>a
    <3> QED
        BY <3>1, <3>2, <3>3
  <2> QED
      BY <2>5, <2>6, <2>7
<1> QED
    BY <1>5, <1>6, <1>7 DEF TierInv

\* An entry that arrives is the next one, also while a flush writes.
LEMMA BufferStep ==
    ASSUME TierInv, Buffer
    PROVE  TierInv'
<1>a. /\ buffer \in Seq(Nat) /\ rows \in Seq(Nat) /\ entries \in Nat /\ overlapped \in BOOLEAN
      /\ open \in Seq(Nat) /\ torn \in Nat
      /\ flush \in [Flushers -> FlushState]
      /\ QueueSize \in Nat \ {0} /\ Len(buffer) \in Nat /\ Len(rows) \in Nat
      /\ "task" \in Flushers
    BY TiersAssumption DEF TierInv, TierTypeOK, Flushers
<1>1. /\ entries' = entries + 1 /\ buffer' = Append(buffer, entries + 1)
      /\ \/ flush' = [flush EXCEPT !["task"] = ReadyFlush] /\ flush["task"].at = "none"
         \/ /\ flush' = flush
            /\ Len(buffer') < QueueSize \/ flush["task"].at # "none"
      /\ UNCHANGED <<rows, open, overlapped, torn>>
    BY <1>a DEF Buffer
<1>2. /\ buffer' \in Seq(Nat) /\ Len(buffer') = Len(buffer) + 1 /\ Len(buffer') \in Nat
      /\ buffer'[Len(buffer) + 1] = entries + 1
      /\ \A i \in 1 .. Len(buffer) : buffer'[i] = buffer[i]
    BY <1>a, <1>1
<1>3. TierTypeOK' /\ Scheduled'
  <2>1. CASE flush' = [flush EXCEPT !["task"] = ReadyFlush] /\ flush["task"].at = "none"
      BY <2>1, <1>a, <1>1, <1>2, FlushStates DEF TierTypeOK, Scheduled
  <2>2. CASE /\ flush' = flush
             /\ Len(buffer') < QueueSize \/ flush["task"].at # "none"
    <3>1. TierTypeOK'
        BY <2>2, <1>a, <1>1, <1>2 DEF TierTypeOK
    <3>2. Scheduled'
        BY <2>2, <1>a, <1>2 DEF Scheduled
    <3> QED
        BY <3>1, <3>2
  <2> QED
      BY <1>1, <2>1, <2>2
<1>4. ASSUME InOrder, Once, Written
      PROVE  InOrder' /\ Once' /\ Written'
  <2>0. entries' - Len(buffer') = entries - Len(buffer)
      BY <1>a, <1>1, <1>2
  <2>1. \A i \in 1 .. Len(buffer) + 1 : buffer'[i] = entries - Len(buffer) + i
    <3> SUFFICES ASSUME NEW i \in 1 .. Len(buffer) + 1
                 PROVE  buffer'[i] = entries - Len(buffer) + i
        OBVIOUS
    <3>1. CASE i = Len(buffer) + 1
        BY <3>1, <1>a, <1>2, <1>4 DEF InOrder
    <3>2. CASE i # Len(buffer) + 1
      <4>1. i \in 1 .. Len(buffer)
          BY <3>2, <1>a
      <4> QED
          BY <4>1, <1>2, <1>4 DEF InOrder
    <3> QED
        BY <3>1, <3>2
  <2>2. InOrder'
    <3>1. Len(buffer') <= entries'
        BY <1>a, <1>1, <1>2, <1>4 DEF InOrder
    <3>2. \A i \in 1 .. Len(buffer') : buffer'[i] = entries' - Len(buffer') + i
        BY <1>2, <2>0, <2>1
    <3>3. \A e \in 1 .. entries' - Len(buffer') : \E i \in 1 .. Len(rows') : rows'[i] = e
        BY <1>1, <1>4, <2>0 DEF InOrder
    <3> QED
        BY <3>1, <3>2, <3>3 DEF InOrder
  <2>3. \A v \in Flushers : flush'[v].at = "writing" =>
            flush'[v] = flush[v] /\ flush[v].at = "writing"
      BY <1>a, <1>1, FlushStates
  <2>4. \A v \in Flushers : flush[v].at # "writing" => flush'[v].at # "writing"
      BY <2>3
  <2>5. Written'
    <3> SUFFICES ASSUME NEW v \in Flushers, flush'[v].at = "writing"
                 PROVE  /\ Len(flush'[v].batch) <= Len(buffer')
                        /\ \A i \in 1 .. Len(flush'[v].batch) :
                              flush'[v].batch[i] = buffer'[i]
                        /\ \A u \in Flushers \ {v} : flush'[u].at # "writing"
        BY DEF Written
    <3>1. flush'[v] = flush[v] /\ flush[v].at = "writing"
        BY <2>3
    <3>2. Len(flush[v].batch) \in Nat
        BY <1>a DEF FlushState
    <3> QED
        BY <1>a, <1>1, <1>2, <1>4, <2>4, <3>1, <3>2 DEF Written
  <2>6. Once'
      BY <1>a, <1>1, <1>2, <1>4 DEF Once
  <2> QED
      BY <2>2, <2>5, <2>6
<1> QED
    BY <1>1, <1>3, <1>4 DEF TierInv

\* A flush that begins takes the whole buffer.
LEMMA BeginsStep ==
    ASSUME TierInv, NEW w \in Flushers, FlushBegins(w)
    PROVE  TierInv'
<1>a. /\ buffer \in Seq(Nat) /\ rows \in Seq(Nat) /\ entries \in Nat /\ overlapped \in BOOLEAN
      /\ open \in Seq(Nat) /\ torn \in Nat
      /\ flush \in [Flushers -> FlushState]
      /\ QueueSize \in Nat \ {0} /\ Len(buffer) \in Nat /\ Len(rows) \in Nat
    BY TiersAssumption DEF TierInv, TierTypeOK
<1>1. /\ flush' = [flush EXCEPT ![w] = IF buffer = <<>> THEN NoFlush ELSE Writing(buffer)]
      /\ overlapped' = (overlapped \/ \E v \in Flushers \ {w} : flush[v].at = "writing")
      /\ UNCHANGED <<buffer, rows, open, entries, torn>>
    BY DEF FlushBegins
<1>2. /\ flush'[w] = IF buffer = <<>> THEN NoFlush ELSE Writing(buffer)
      /\ \A v \in Flushers \ {w} : flush'[v] = flush[v]
    BY <1>a, <1>1
<1>3. TierTypeOK'
    BY <1>a, <1>1, FlushStates DEF TierTypeOK
<1>4. Scheduled'
  <2>1. CASE buffer = <<>>
      BY <2>1, <1>a, <1>1 DEF Scheduled
  <2>2. CASE buffer # <<>> /\ w = "task"
      BY <2>2, <1>a, <1>2, FlushStates DEF Scheduled
  <2>3. CASE w # "task"
      BY <2>3, <1>1, <1>2 DEF Scheduled, TierInv, Flushers
  <2> QED
      BY <2>1, <2>2, <2>3
<1>5. ASSUME ~overlapped'
      PROVE  InOrder' /\ Once' /\ Written'
  <2>1. InOrder /\ Once /\ \A v \in Flushers \ {w} : flush[v].at # "writing"
      BY <1>1, <1>5 DEF TierInv
  <2>2. InOrder' /\ Once'
      BY <1>1, <2>1 DEF InOrder, Once
  <2>3. CASE buffer = <<>>
    <3>1. \A v \in Flushers : flush'[v].at # "writing"
        BY <2>1, <2>3, <1>2, FlushStates
    <3> QED
        BY <2>2, <3>1 DEF Written
  <2>4. CASE buffer # <<>>
    <3>1. flush'[w].batch = buffer
        BY <2>4, <1>a, <1>2, FlushStates
    <3> QED
        BY <3>1, <2>1, <2>2, <1>a, <1>1, <1>2 DEF Written, InOrder
  <2> QED
      BY <2>2, <2>3, <2>4
<1> QED
    BY <1>3, <1>4, <1>5 DEF TierInv

\* A failed flush leaves the buffer as it is, and the rows it inserted in the
\* transaction.
LEMMA FailsStep ==
    ASSUME TierInv, NEW w \in Flushers, FlushFails(w)
    PROVE  TierInv'
<1>a. /\ flush \in [Flushers -> FlushState] /\ "task" \in Flushers
      /\ open \in Seq(Nat) /\ flush[w].batch \in Seq(Nat) /\ torn \in Nat
    BY DEF TierInv, TierTypeOK, Flushers, FlushState
<1>1. /\ UNCHANGED <<buffer, rows, entries, overlapped>>
      /\ flush' = [flush EXCEPT ![w] = Left(w, buffer)]
      /\ Left(w, buffer) \in {NoFlush, ReadyFlush}
      /\ w = "task" /\ Len(buffer) >= QueueSize => Left(w, buffer) = ReadyFlush
    BY DEF FlushFails, Left
<1>2. open' \in Seq(Nat) /\ torn' \in Nat /\ (torn' = 0 /\ open = <<>> => torn = 0 /\ open' = <<>>)
  <2>1. CASE open' = <<>> /\ torn' = torn
      BY <2>1, <1>a
  <2>2. CASE \E n \in Inserted(flush[w].batch) :
               /\ open' = open \o SubSeq(flush[w].batch, 1, n)
               /\ torn' = IF n = 0 THEN torn ELSE torn + 1
    <3>1. PICK n \in 0 .. Len(flush[w].batch) :
               /\ open' = open \o SubSeq(flush[w].batch, 1, n)
               /\ torn' = IF n = 0 THEN torn ELSE torn + 1
        BY <2>2 DEF Inserted
    <3>2. /\ SubSeq(flush[w].batch, 1, n) \in Seq(Nat)
          /\ n = 0 => SubSeq(flush[w].batch, 1, n) = <<>>
        BY <3>1, <1>a, SubSeqProperties
    <3>3. CASE n = 0
        BY <3>1, <3>2, <3>3, <1>a
    <3>4. CASE n # 0
        BY <3>1, <3>2, <3>4, <1>a
    <3> QED
        BY <3>3, <3>4
  <2> QED
      BY <2>1, <2>2 DEF FlushFails
<1>3. flush' \in [Flushers -> FlushState]
    BY <1>1, <1>a, FlushStates
<1>4. Scheduled'
  <2>1. w # "task" => flush'["task"] = flush["task"]
      BY <1>1, <1>a
  <2> QED
      BY <2>1, <1>1, <1>a, FlushStates DEF Scheduled, TierInv
<1>5. \A v \in Flushers : flush'[v] = flush[v] \/ flush'[v].at # "writing"
    BY <1>1, <1>a, FlushStates
<1>6. ASSUME InOrder, Once, Written
      PROVE  InOrder' /\ Once' /\ Written'
  <2>1. InOrder' /\ Written'
      BY <1>1, <1>5, <1>6 DEF InOrder, Written
  <2>2. torn' = 0 => torn = 0
      BY <1>2, <1>a, <1>6 DEF FlushFails, Inserted
  <2>3. Once'
      BY <1>1, <1>2, <1>6, <2>2 DEF Once
  <2> QED
      BY <2>1, <2>3
<1> QED
    BY <1>1, <1>2, <1>3, <1>4, <1>6 DEF TierInv, TierTypeOK

\* Another write commits what failed flushes left; an exit will flush too.
LEMMA OthersStep ==
    ASSUME TierInv, ExitFlush \/ OtherCommits \/ UNCHANGED tierVars
    PROVE  TierInv'
<1>1. CASE ExitFlush
  <2>1. /\ flush \in [Flushers -> FlushState] /\ "task" # "exit"
        /\ flush' = [flush EXCEPT !["exit"] = ReadyFlush]
        /\ UNCHANGED <<buffer, rows, open, entries, overlapped, torn>>
      BY <1>1 DEF ExitFlush, TierInv, TierTypeOK
  <2>2. /\ flush' \in [Flushers -> FlushState] /\ Scheduled'
        /\ \A v \in Flushers : flush'[v] = flush[v] \/ flush'[v].at # "writing"
      BY <2>1, FlushStates DEF Scheduled, TierInv, Flushers
  <2>3. ASSUME InOrder, Once, Written PROVE InOrder' /\ Once' /\ Written'
      BY <2>1, <2>2, <2>3 DEF InOrder, Once, Written
  <2> QED
      BY <2>1, <2>2, <2>3 DEF TierInv, TierTypeOK
<1>2. CASE OtherCommits
  <2>1. /\ open # <<>> /\ open' = <<>> /\ rows' = rows \o open
        /\ rows \in Seq(Nat) /\ open \in Seq(Nat)
        /\ UNCHANGED <<buffer, entries, flush, overlapped, torn>>
      BY <1>2 DEF OtherCommits, TierInv, TierTypeOK
  <2>2. /\ rows' \in Seq(Nat) /\ open' \in Seq(Nat) /\ Len(rows') = Len(rows) + Len(open)
        /\ Len(rows) \in Nat /\ Len(open) \in Nat
        /\ \A i \in 1 .. Len(rows) : rows'[i] = rows[i]
      BY <2>1
  <2>3. ASSUME InOrder, Once, Written PROVE InOrder' /\ Once' /\ Written'
    <3>1. \A e \in 1 .. entries - Len(buffer) : \E i \in 1 .. Len(rows') : rows'[i] = e
      <4> SUFFICES ASSUME NEW e \in 1 .. entries - Len(buffer)
                   PROVE  \E i \in 1 .. Len(rows') : rows'[i] = e
          OBVIOUS
      <4>1. PICK i \in 1 .. Len(rows) : rows[i] = e
          BY <2>3 DEF InOrder
      <4>2. i \in 1 .. Len(rows') /\ rows'[i] = e
          BY <4>1, <2>2
      <4> QED
          BY <4>2
    <3>2. torn # 0
        BY <2>1, <2>3 DEF Once
    <3> QED
        BY <2>1, <2>3, <3>1, <3>2 DEF InOrder, Once, Written
  <2> QED
      BY <2>1, <2>2, <2>3 DEF TierInv, TierTypeOK, Scheduled
<1>3. CASE UNCHANGED tierVars
    BY <1>3 DEF tierVars, TierInv, TierTypeOK, Scheduled, InOrder, Once, Written
<1> QED
    BY <1>1, <1>2, <1>3

\* The inductive invariant of the immediate tier.
LEMMA TierInvariant ==
    ASSUME TierInv, [TierNext]_tierVars
    PROVE  TierInv'
BY WritesStep, BufferStep, BeginsStep, FailsStep, OthersStep DEF TierNext

\* The tier starts in it.
LEMMA TierStarts == TierInit => TierInv
<1> SUFFICES ASSUME TierInit PROVE TierInv
    OBVIOUS
<1>1. /\ buffer = <<>> /\ rows = <<>> /\ open = <<>> /\ entries = 0
      /\ overlapped = FALSE /\ torn = 0
      /\ flush = [w \in Flushers |-> NoFlush] /\ QueueSize \in Nat \ {0}
    BY TiersAssumption DEF TierInit
<1>2. TierTypeOK
  <2>1. /\ buffer \in Seq(Nat) /\ rows \in Seq(Nat) /\ open \in Seq(Nat) /\ entries \in Nat
        /\ overlapped \in BOOLEAN /\ torn \in Nat
    <3>1. <<>> \in Seq(Nat)
        OBVIOUS
    <3> QED
        BY <1>1, <3>1, Zenon
  <2>2. flush \in [Flushers -> FlushState]
      BY <1>1, FlushStates
  <2> QED
      BY <2>1, <2>2 DEF TierTypeOK
<1>3. InOrder /\ Once /\ Scheduled
    BY <1>1 DEF InOrder, Once, Scheduled
<1>4. Written
    BY <1>1, FlushStates DEF Written
<1> QED
    BY <1>2, <1>3, <1>4 DEF TierInv

\* It always holds.
LEMMA TiersInvariant == TierSpec => []TierInv
BY TierStarts, TierInvariant, PTL DEF TierSpec

\* The deletion by count takes what was written, and a full buffer is being flushed,
\* whatever fails half-way and arrives meanwhile (buffer_entry, _schedule_flush,
\* flush_immediate), unless the flush of an exit wrote beside the task.
THEOREM TiersBuffered == TierSpec => []Buffered
<1>1. TierInv => Buffered
  <2> SUFFICES ASSUME TierInv PROVE Buffered
      OBVIOUS
  <2>1. ASSUME ~overlapped, torn = 0
        PROVE  rows = [i \in 1 .. entries - Len(buffer) |-> i]
    <3>1. /\ rows \in Seq(Nat) /\ buffer \in Seq(Nat) /\ entries \in Nat
          /\ Len(rows) + Len(buffer) = entries /\ \A i \in 1 .. Len(rows) : rows[i] = i
        BY <2>1 DEF TierInv, TierTypeOK, Once
    <3>2. entries - Len(buffer) = Len(rows) /\ Len(rows) \in Nat
        BY <3>1
    <3>3. /\ [i \in 1 .. Len(rows) |-> i] \in Seq(Nat)
          /\ Len([i \in 1 .. Len(rows) |-> i]) = Len(rows)
        BY <3>2
    <3> QED
        BY <3>1, <3>2, <3>3, SeqEqual
  <2> QED
      BY <2>1 DEF Buffered, TierInv, Scheduled, InOrder
<1> QED
    BY <1>1, TiersInvariant, PTL
-----------------------------------------------------------------------------
(* What the exceptions of Buffered come from *)

\* The exit flushes only while no task is about to.
ExitAlone == ExitFlush => flush["task"].at = "none"

\* A failed write leaves nothing in the transaction, as with a rollback.
RolledBack == \A w \in Flushers : FlushFails(w) => open' = <<>> /\ torn' = torn

\* Then one of them flushes at a time, and the transaction is empty between flushes.
OneFlushes ==
    /\ flush \in [Flushers -> FlushState] /\ ~overlapped /\ torn = 0
    /\ flush["exit"].at = "none" \/ flush["task"].at = "none"

LEMMA OneFlushesStep ==
    ASSUME TierInv, OneFlushes, [TierNext]_tierVars, ExitAlone, RolledBack
    PROVE  OneFlushes'
<1>a. /\ flush \in [Flushers -> FlushState] /\ ~overlapped /\ torn = 0
      /\ flush["exit"].at = "none" \/ flush["task"].at = "none"
      /\ Flushers = {"task", "exit"} /\ "task" # "exit"
    BY DEF OneFlushes, Flushers
<1>1. CASE Buffer
  <2>1. /\ flush["exit"].at = "none" /\ UNCHANGED <<overlapped, torn>>
        /\ flush' = flush \/ flush' = [flush EXCEPT !["task"] = ReadyFlush]
      BY <1>1 DEF Buffer
  <2> QED
      BY <2>1, <1>a, FlushStates DEF OneFlushes
<1>2. CASE ExitFlush
  <2>1. /\ flush["task"].at = "none" /\ UNCHANGED <<overlapped, torn>>
        /\ flush' = [flush EXCEPT !["exit"] = ReadyFlush]
      BY <1>2 DEF ExitFlush, ExitAlone
  <2> QED
      BY <2>1, <1>a, FlushStates DEF OneFlushes
\* Who flushes goes on or stops, and the other one does nothing.
<1>3. ASSUME NEW w \in Flushers, NEW f \in FlushState,
             flush[w].at # "none", flush' = [flush EXCEPT ![w] = f], ~overlapped', torn' = 0
      PROVE  OneFlushes'
    BY <1>3, <1>a DEF OneFlushes
<1>4. ASSUME NEW w \in Flushers, FlushBegins(w)
      PROVE  OneFlushes'
  <2>1. /\ flush[w].at = "ready" /\ buffer \in Seq(Nat)
        /\ flush' = [flush EXCEPT ![w] = IF buffer = <<>> THEN NoFlush ELSE Writing(buffer)]
        /\ overlapped' = (overlapped \/ \E v \in Flushers \ {w} : flush[v].at = "writing")
      BY <1>4 DEF FlushBegins, TierInv, TierTypeOK
  <2>2. \A v \in Flushers \ {w} : flush[v].at = "none"
      BY <2>1, <1>a
  <2>3. ~overlapped' /\ torn' = 0
      BY <2>1, <2>2, <1>a, <1>4 DEF FlushBegins
  <2> QED
      BY <2>1, <2>3, <1>3, FlushStates
<1>5. ASSUME NEW w \in Flushers, FlushWrites(w) \/ FlushFails(w)
      PROVE  OneFlushes'
  <2>1. flush[w].at = "writing" /\ UNCHANGED <<overlapped, torn>>
      BY <1>5, <1>a DEF FlushWrites, FlushFails, RolledBack
  <2>2. SubSeq(buffer, Len(flush[w].batch) + 1, Len(buffer)) \in Seq(Nat)
    <3>1. buffer \in Seq(Nat) /\ Len(flush[w].batch) \in Nat
        BY <1>a DEF TierInv, TierTypeOK, FlushState
    <3> QED
        BY <3>1, LeftFacts
  <2>3. PICK f \in FlushState : flush' = [flush EXCEPT ![w] = f]
      BY <1>5, <2>2, FlushStates DEF FlushWrites, FlushFails, Left
  <2> QED
      BY <2>1, <2>3, <1>3, <1>a
<1>7. CASE OtherCommits
    BY <1>7, <1>a DEF OtherCommits, OneFlushes
<1>6. CASE UNCHANGED tierVars
    BY <1>6, <1>a DEF tierVars, OneFlushes
<1> QED
    BY <1>1, <1>2, <1>4, <1>5, <1>6, <1>7 DEF TierNext

\* If the exit waited for the task that flushes, and execute_many rolled a failed
\* batch back, every entry would be in the database or in the buffer, once and in
\* order: drain_and_consolidate's own flush_immediate beside the active task, and the
\* open transaction, are the only ways an entry is lost or written twice.
THEOREM TiersFlushAlone ==
    TierInit /\ [][TierNext /\ ExitAlone /\ RolledBack]_tierVars =>
        [](rows \o buffer = [i \in 1 .. entries |-> i])
<1>1. TierInit => OneFlushes
    BY FlushStates DEF TierInit, OneFlushes, Flushers
<1>2. TierInv /\ OneFlushes /\ [TierNext /\ ExitAlone /\ RolledBack]_tierVars => OneFlushes'
  <2>1. OneFlushes /\ UNCHANGED tierVars => OneFlushes'
      BY DEF OneFlushes, tierVars
  <2> QED
      BY <2>1, OneFlushesStep
<1>3. OneFlushes /\ TierInv => rows \o buffer = [i \in 1 .. entries |-> i]
  <2> SUFFICES ASSUME OneFlushes, TierInv
               PROVE  rows \o buffer = [i \in 1 .. entries |-> i]
      OBVIOUS
  <2>1. /\ rows \in Seq(Nat) /\ buffer \in Seq(Nat) /\ Len(rows) + Len(buffer) = entries
        /\ \A i \in 1 .. Len(rows) : rows[i] = i
        /\ \A i \in 1 .. Len(buffer) : buffer[i] = entries - Len(buffer) + i
      BY DEF OneFlushes, TierInv, TierTypeOK, InOrder, Once
  <2>2. Len(rows) \in Nat /\ Len(buffer) \in Nat /\ entries - Len(buffer) = Len(rows)
      BY <2>1
  <2>3. /\ rows \o buffer \in Seq(Nat) /\ Len(rows \o buffer) = entries
        /\ entries \in Nat
        /\ \A i \in 1 .. entries :
              (rows \o buffer)[i] = IF i <= Len(rows) THEN rows[i] ELSE buffer[i - Len(rows)]
      BY <2>1, <2>2, ConcatProperties
  <2>4. \A i \in 1 .. entries : (rows \o buffer)[i] = i
    <3> SUFFICES ASSUME NEW i \in 1 .. entries PROVE (rows \o buffer)[i] = i
        OBVIOUS
    <3>1. CASE i <= Len(rows)
        BY <3>1, <2>1, <2>2, <2>3
    <3>2. CASE ~(i <= Len(rows))
      <4>1. i - Len(rows) \in 1 .. Len(buffer) /\ Len(rows) + (i - Len(rows)) = i
          BY <3>2, <2>1, <2>2
      <4>2. (rows \o buffer)[i] = buffer[i - Len(rows)]
          BY <3>2, <2>3
      <4> QED
          BY <2>1, <2>2, <4>1, <4>2
    <3> QED
        BY <3>1, <3>2
  <2>5. /\ [i \in 1 .. entries |-> i] \in Seq(Nat)
        /\ Len([i \in 1 .. entries |-> i]) = entries
      BY <2>3
  <2> QED
      BY <2>3, <2>4, <2>5, SeqEqual
<1>4. [TierNext /\ ExitAlone /\ RolledBack]_tierVars => [TierNext]_tierVars
    OBVIOUS
<1> QED
    BY <1>1, <1>2, <1>3, <1>4, TiersInvariant, PTL DEF TierSpec
=============================================================================
