---------------------------- MODULE StreamProofs ----------------------------
(***************************************************************************)
(* Byte streams that are cut and joined.  The terminal: what term.read     *)
(* returns, what it reports as dropped and what is still in the ring are   *)
(* everything the child's reader has pushed, in order, for any number of   *)
(* terminals, clients and bytes and any size of ring and buffer, and the   *)
(* numbers of term.output events show what the outbox dropped.  The        *)
(* download of Chromium: what is renamed to the zip and pinned is the      *)
(* whole body, for any body, any number of fetches one after the other and *)
(* any number of deaths of the broker.                                     *)
(***************************************************************************)
EXTENDS Terminal, Fetcher, SequenceTheorems, TLAPS

----------------------------------------------------------------------------
(* Runs of consecutive numbers                                              *)

\* s is a + 1, a + 2, ...
Run(s, a) == \A i \in 1..Len(s) : s[i] = a + i
Rising(s) == \A i, j \in 1..Len(s) : i < j => s[i] < s[j]
UpTo(s, a) == \A i \in 1..Len(s) : s[i] <= a

LEMMA RunAppend ==
    ASSUME NEW s \in Seq(Nat), NEW a \in Nat, Run(s, a)
    PROVE  LET u == Append(s, a + Len(s) + 1)
           IN  u \in Seq(Nat) /\ Len(u) = Len(s) + 1 /\ Run(u, a)
  <1> DEFINE u == Append(s, a + Len(s) + 1)
  <1>1. /\ u \in Seq(Nat) /\ Len(u) = Len(s) + 1 /\ Len(s) \in Nat
        /\ \A i \in 1..Len(s) : u[i] = s[i]
        /\ u[Len(s) + 1] = a + Len(s) + 1
    BY AppendProperties, LenProperties
  <1> HIDE DEF u
  <1>2. ASSUME NEW i \in 1..Len(u)
        PROVE  u[i] = a + i
    <2>1. CASE i \in 1..Len(s)
      BY <1>1, <2>1 DEF Run
    <2>2. CASE i = Len(s) + 1
      BY <1>1, <2>2
    <2> QED
      BY <1>1, <2>1, <2>2
  <1> QED
    BY <1>1, <1>2 DEF u, Run

LEMMA RunConcat ==
    ASSUME NEW s \in Seq(Nat), NEW u \in Seq(Nat), NEW a \in Nat, Run(s, a), Run(u, a + Len(s))
    PROVE  s \o u \in Seq(Nat) /\ Len(s \o u) = Len(s) + Len(u) /\ Run(s \o u, a)
  <1>1. s \o u \in Seq(Nat) /\ Len(s \o u) = Len(s) + Len(u)
    BY ConcatProperties
  <1>2. ASSUME NEW i \in 1..Len(s \o u)
        PROVE  (s \o u)[i] = a + i
    <2>1. (s \o u)[i] = IF i <= Len(s) THEN s[i] ELSE u[i - Len(s)]
      BY <1>1, ConcatProperties
    <2>2. CASE i <= Len(s)
      BY <1>1, <2>1, <2>2, LenProperties DEF Run
    <2>3. CASE ~(i <= Len(s))
      <3>1. i - Len(s) \in 1..Len(u)
        BY <1>1, <2>3, LenProperties
      <3>2. u[i - Len(s)] = a + Len(s) + (i - Len(s))
        BY <3>1 DEF Run
      <3> QED
        BY <1>1, <2>1, <2>3, <3>2, LenProperties
    <2> QED
      BY <2>2, <2>3
  <1> QED
    BY <1>1, <1>2 DEF Run

(* A run cut in two.                                                        *)
LEMMA RunCut ==
    ASSUME NEW s \in Seq(Nat), NEW a \in Nat, NEW n \in 0..Len(s), Run(s, a)
    PROVE  LET u == SubSeq(s, 1, n)
               v == SubSeq(s, n + 1, Len(s))
           IN  /\ u \in Seq(Nat) /\ Len(u) = n /\ Run(u, a)
               /\ v \in Seq(Nat) /\ Len(v) = Len(s) - n /\ Run(v, a + n)
  <1> DEFINE u == SubSeq(s, 1, n)
             v == SubSeq(s, n + 1, Len(s))
  <1>1. Len(s) \in Nat /\ n \in Nat /\ n <= Len(s)
    BY LenProperties
  <1>2. u \in Seq(Nat) /\ Len(u) = n /\ \A i \in 1..n : u[i] = s[i]
    BY <1>1, SubSeqProperties
  <1>3. v \in Seq(Nat) /\ Len(v) = Len(s) - n /\ \A i \in 1..(Len(s) - n) : v[i] = s[n + i]
    BY <1>1, SubSeqProperties
  <1> HIDE DEF u, v
  <1>4. Run(u, a)
    <2> SUFFICES ASSUME NEW i \in 1..Len(u)
                 PROVE  u[i] = a + i
      BY DEF Run
    <2>1. i \in 1..Len(s) /\ u[i] = s[i]
      BY <1>1, <1>2
    <2> QED
      BY <2>1 DEF Run
  <1>5. Run(v, a + n)
    <2> SUFFICES ASSUME NEW i \in 1..Len(v)
                 PROVE  v[i] = a + n + i
      BY DEF Run
    <2>1. n + i \in 1..Len(s) /\ v[i] = s[n + i]
      BY <1>1, <1>3
    <2> QED
      BY <1>1, <2>1 DEF Run
  <1> QED
    BY <1>2, <1>3, <1>4, <1>5 DEF u, v

(* A run after numbers below it.                                            *)
LEMMA RisingConcat ==
    ASSUME NEW s \in Seq(Nat), NEW u \in Seq(Nat), NEW a \in Nat, Rising(s), UpTo(s, a), Run(u, a)
    PROVE  /\ s \o u \in Seq(Nat) /\ Len(s \o u) = Len(s) + Len(u)
           /\ Rising(s \o u) /\ UpTo(s \o u, a + Len(u))
  <1> DEFINE w == s \o u
  <1>1. /\ w \in Seq(Nat) /\ Len(w) = Len(s) + Len(u) /\ Len(s) \in Nat /\ Len(u) \in Nat
        /\ \A i \in 1..Len(w) : w[i] = IF i <= Len(s) THEN s[i] ELSE u[i - Len(s)]
    BY ConcatProperties, LenProperties
  <1> HIDE DEF w
  <1>2. ASSUME NEW i \in 1..Len(w)
        PROVE  IF i <= Len(s) THEN i \in 1..Len(s) /\ w[i] = s[i] /\ w[i] <= a /\ s[i] \in Nat
               ELSE w[i] = a + (i - Len(s))
    <2>1. CASE i <= Len(s)
      <3>1. i \in 1..Len(s) /\ w[i] = s[i]
        BY <1>1, <2>1
      <3> QED
        BY <2>1, <3>1, ElementOfSeq DEF UpTo
    <2>2. CASE ~(i <= Len(s))
      <3>1. i - Len(s) \in 1..Len(u) /\ w[i] = u[i - Len(s)]
        BY <1>1, <2>2
      <3> QED
        BY <2>2, <3>1 DEF Run
    <2> QED
      BY <2>1, <2>2
  <1>3. Rising(w)
    <2> SUFFICES ASSUME NEW i \in 1..Len(w), NEW j \in 1..Len(w), i < j
                 PROVE  w[i] < w[j]
      BY DEF Rising
    <2>1. CASE j <= Len(s)
      <3>1. i <= Len(s)
        BY <1>1, <2>1
      <3> QED
        BY <1>2, <2>1, <3>1 DEF Rising
    <2>2. CASE i <= Len(s) /\ ~(j <= Len(s))
      <3>1. w[i] <= a /\ w[i] \in Nat /\ w[j] = a + (j - Len(s))
        BY <1>2, <2>2
      <3> QED
        BY <1>1, <2>2, <3>1
    <2>3. CASE ~(i <= Len(s)) /\ ~(j <= Len(s))
      <3>1. w[i] = a + (i - Len(s)) /\ w[j] = a + (j - Len(s))
        BY <1>2, <2>3
      <3> QED
        BY <1>1, <3>1
    <2> QED
      BY <1>1, <2>1, <2>2, <2>3
  <1>4. UpTo(w, a + Len(u))
    <2> SUFFICES ASSUME NEW i \in 1..Len(w)
                 PROVE  w[i] <= a + Len(u)
      BY DEF UpTo
    <2>1. CASE i <= Len(s)
      <3>1. w[i] <= a /\ w[i] \in Nat
        BY <1>2, <2>1
      <3> QED
        BY <1>1, <3>1
    <2>2. CASE ~(i <= Len(s))
      <3>1. w[i] = a + (i - Len(s))
        BY <1>2, <2>2
      <3> QED
        BY <1>1, <3>1
    <2> QED
      BY <2>1, <2>2
  <1> QED
    BY <1>1, <1>3, <1>4 DEF w

LEMMA UpToMore ==
    ASSUME NEW s \in Seq(Nat), NEW a \in Nat, NEW b \in Nat, a <= b, UpTo(s, a)
    PROVE  UpTo(s, b)
  <1> SUFFICES ASSUME NEW i \in 1..Len(s)
               PROVE  s[i] <= b
    BY DEF UpTo
  <1>1. s[i] \in Nat /\ s[i] <= a
    BY ElementOfSeq DEF UpTo
  <1> QED
    BY <1>1

----------------------------------------------------------------------------
(* The terminal: inductive invariant                                        *)

streamVars == <<tty, printed, ring, dropped, parsed, reader, chunk, got, told, nextId>>

StreamTypes ==
    /\ tty \in [Terms -> Seq(Nat)] /\ ring \in [Terms -> Seq(Nat)]
    /\ chunk \in [Terms -> Seq(Nat)] /\ got \in [Terms -> Seq(Nat)]
    /\ printed \in [Terms -> Nat] /\ dropped \in [Terms -> Nat]
    /\ parsed \in [Terms -> Nat] /\ told \in [Terms -> Nat]
    /\ reader \in [Terms -> {"none", "read", "push", "parse", "notify", "done"}]
    /\ nextId \in Nat

\* An id that has not been given out has no reader.
Unspawned == \A t \in Terms : nextId <= t => reader[t] = "none"

\* What has left the PTY, the bytes in the reader's hands included.
Read(t) == parsed[t] + (IF reader[t] \in {"push", "parse"} THEN Len(chunk[t]) ELSE 0)
\* What has left the ring, one way or the other.
Gone(t) == Pushed(t) - Len(ring[t])

\* The PTY, the reader and the ring hold runs of the child's output that join up; what
\* was returned is in order and older than what the ring holds; and nothing is missing
\* from the count.
Joined(t) ==
    /\ Run(tty[t], Read(t)) /\ Read(t) + Len(tty[t]) = printed[t]
    /\ reader[t] \in {"push", "parse"} => Run(chunk[t], parsed[t])
    /\ Run(ring[t], Gone(t))
    /\ Len(got[t]) + told[t] + dropped[t] + Len(ring[t]) = Pushed(t)
    /\ Rising(got[t]) /\ UpTo(got[t], Gone(t))

StreamInv == StreamTypes /\ Unspawned /\ \A t \in Terms : Joined(t)

----------------------------------------------------------------------------
(* The terminal: steps                                                      *)

LEMMA Counts ==
    ASSUME StreamTypes, NEW t \in Terms, Joined(t)
    PROVE  /\ Len(tty[t]) \in Nat /\ Len(ring[t]) \in Nat /\ Len(chunk[t]) \in Nat /\ Len(got[t]) \in Nat
           /\ Read(t) \in Nat /\ Pushed(t) \in Nat /\ Gone(t) \in Nat /\ Pushed(t) = Gone(t) + Len(ring[t])
           /\ Gone(t) = Len(got[t]) + told[t] + dropped[t]
  <1>1. /\ tty[t] \in Seq(Nat) /\ ring[t] \in Seq(Nat) /\ chunk[t] \in Seq(Nat) /\ got[t] \in Seq(Nat)
        /\ told[t] \in Nat /\ dropped[t] \in Nat /\ parsed[t] \in Nat
    BY DEF StreamTypes
  <1>2. Len(tty[t]) \in Nat /\ Len(ring[t]) \in Nat /\ Len(chunk[t]) \in Nat /\ Len(got[t]) \in Nat
    BY <1>1, LenProperties
  <1>3. Read(t) \in Nat /\ Pushed(t) \in Nat
    BY <1>1, <1>2 DEF Read, Pushed
  <1>4. Pushed(t) = Len(got[t]) + told[t] + dropped[t] + Len(ring[t])
    BY DEF Joined
  <1>5. told[t] \in Nat /\ dropped[t] \in Nat
    BY <1>1
  <1>6. /\ Gone(t) \in Nat /\ Pushed(t) = Gone(t) + Len(ring[t])
        /\ Gone(t) = Len(got[t]) + told[t] + dropped[t]
    BY <1>2, <1>3, <1>4, <1>5, SMTT(30) DEF Gone
  <1> QED
    BY <1>2, <1>3, <1>6

(* A terminal that a step leaves alone.                                     *)
LEMMA SameTerminal ==
    ASSUME NEW t \in Terms, Joined(t),
           tty'[t] = tty[t], printed'[t] = printed[t], ring'[t] = ring[t], dropped'[t] = dropped[t],
           parsed'[t] = parsed[t], reader'[t] = reader[t], chunk'[t] = chunk[t], got'[t] = got[t],
           told'[t] = told[t]
    PROVE  Joined(t)'
  BY DEF Joined, Read, Gone, Pushed

LEMMA PrintsStep ==
    ASSUME StreamInv, NEW t \in Terms, ChildPrints(t)
    PROVE  StreamInv'
  <1>0. StreamTypes /\ Unspawned /\ \A v \in Terms : Joined(v)
    BY DEF StreamInv
  <1>1. UNCHANGED <<ring, dropped, parsed, reader, chunk, got, told, nextId>>
    BY DEF ChildPrints, mapVars, ringVars, parserVars, readerVars, clientVars
  <1>2. tty[t] \in Seq(Nat) /\ printed[t] \in Nat /\ Read(t) \in Nat /\ Run(tty[t], Read(t))
        /\ Read(t) + Len(tty[t]) = printed[t] /\ Len(tty[t]) \in Nat
    BY <1>0, Counts DEF StreamTypes, Joined
  <1> DEFINE u == Append(tty[t], printed[t] + 1)
  <1>3. u = Append(tty[t], Read(t) + Len(tty[t]) + 1)
    BY <1>2
  <1>4. u \in Seq(Nat) /\ Len(u) = Len(tty[t]) + 1 /\ Run(u, Read(t))
    BY <1>2, <1>3, RunAppend
  <1> HIDE DEF u
  <1>5. /\ tty' = [tty EXCEPT ![t] = u] /\ printed' = [printed EXCEPT ![t] = printed[t] + 1]
    BY DEF ChildPrints, u
  <1>6. StreamTypes'
    <2>1. printed' \in [Terms -> Nat] /\ tty' \in [Terms -> Seq(Nat)]
      BY <1>0, <1>2, <1>4, <1>5 DEF StreamTypes
    <2> QED
      BY <1>0, <1>1, <2>1 DEF StreamTypes
  <1>7. Unspawned'
    BY <1>0, <1>1 DEF Unspawned
  <1>8. tty'[t] = u /\ printed'[t] = printed[t] + 1
    BY <1>0, <1>5 DEF StreamTypes
  <1>9. Joined(t)'
    <2>1. Read(t)' = Read(t) /\ Gone(t)' = Gone(t) /\ Pushed(t)' = Pushed(t)
      BY <1>1 DEF Read, Gone, Pushed
    <2>2. Read(t) + Len(u) = printed[t] + 1
      BY <1>2, <1>4
    <2> QED
      BY <1>0, <1>1, <1>4, <1>8, <2>1, <2>2 DEF Joined
  <1>10. ASSUME NEW v \in Terms, v # t
         PROVE  Joined(v)'
    <2>1. tty'[v] = tty[v] /\ printed'[v] = printed[v]
      BY <1>0, <1>5, <1>10 DEF StreamTypes
    <2> QED
      BY <1>0, <1>1, <2>1, SameTerminal
  <1> QED
    BY <1>6, <1>7, <1>9, <1>10 DEF StreamInv

LEMMA ReadsStep ==
    ASSUME StreamInv, NEW t \in Terms, ReaderReads(t)
    PROVE  StreamInv'
  <1>0. StreamTypes /\ Unspawned /\ \A v \in Terms : Joined(v)
    BY DEF StreamInv
  <1>1. UNCHANGED <<printed, ring, dropped, parsed, got, told, nextId>>
    BY DEF ReaderReads, mapVars, ringVars, parserVars, clientVars
  <1> DEFINE n == IF Len(tty[t]) < ReadBuf THEN Len(tty[t]) ELSE ReadBuf
             u == SubSeq(tty[t], 1, n)
             v == SubSeq(tty[t], n + 1, Len(tty[t]))
  <1>2. tty[t] \in Seq(Nat) /\ printed[t] \in Nat /\ Read(t) \in Nat /\ Run(tty[t], Read(t))
        /\ Read(t) + Len(tty[t]) = printed[t] /\ Len(tty[t]) \in Nat /\ reader[t] = "read"
        /\ Read(t) = parsed[t]
    <2>1. reader[t] = "read"
      BY DEF ReaderReads
    <2>2. parsed[t] \in Nat /\ tty[t] \in Seq(Nat) /\ printed[t] \in Nat
      BY <1>0 DEF StreamTypes
    <2>3. Read(t) = parsed[t]
      BY <2>1, <2>2 DEF Read
    <2>4. Len(tty[t]) \in Nat /\ Read(t) \in Nat
      BY <1>0, Counts
    <2> QED
      BY <1>0, <2>1, <2>2, <2>3, <2>4 DEF Joined
  <1>3. n \in 0..Len(tty[t])
    BY <1>2, TerminalAssumption
  <1>4. /\ chunk' = [chunk EXCEPT ![t] = u] /\ tty' = [tty EXCEPT ![t] = v]
        /\ reader' = [reader EXCEPT ![t] = "push"]
    BY DEF ReaderReads
  <1> HIDE DEF n
  <1>5. /\ u \in Seq(Nat) /\ Len(u) = n /\ Run(u, Read(t))
        /\ v \in Seq(Nat) /\ Len(v) = Len(tty[t]) - n /\ Run(v, Read(t) + n)
    BY <1>2, <1>3, RunCut
  <1> HIDE DEF u, v
  <1>6. StreamTypes'
    BY <1>0, <1>1, <1>4, <1>5 DEF StreamTypes
  <1>7. Unspawned'
    BY <1>0, <1>1, <1>2, <1>4 DEF Unspawned, StreamTypes
  <1>8. chunk'[t] = u /\ tty'[t] = v /\ reader'[t] = "push"
    BY <1>0, <1>4 DEF StreamTypes
  <1>9. Joined(t)'
    <2>1. Read(t)' = Read(t) + n
      BY <1>1, <1>2, <1>5, <1>8 DEF Read
    <2>2. Gone(t)' = Gone(t) /\ Pushed(t)' = Pushed(t)
      BY <1>1, <1>2, <1>8 DEF Gone, Pushed
    <2>3. Read(t) + n + Len(v) = printed[t]
      BY <1>2, <1>3, <1>5
    <2> QED
      BY <1>0, <1>1, <1>2, <1>5, <1>8, <2>1, <2>2, <2>3 DEF Joined
  <1>10. ASSUME NEW w \in Terms, w # t
         PROVE  Joined(w)'
    <2>1. chunk'[w] = chunk[w] /\ tty'[w] = tty[w] /\ reader'[w] = reader[w]
      BY <1>0, <1>4, <1>10 DEF StreamTypes
    <2> QED
      BY <1>0, <1>1, <2>1, SameTerminal
  <1> QED
    BY <1>6, <1>7, <1>9, <1>10 DEF StreamInv

LEMMA PushesStep ==
    ASSUME StreamInv, NEW t \in Terms, ReaderPushes(t)
    PROVE  StreamInv'
  <1>0. StreamTypes /\ Unspawned /\ \A v \in Terms : Joined(v)
    BY DEF StreamInv
  <1>1. UNCHANGED <<tty, printed, parsed, chunk, got, told, nextId>>
    BY DEF ReaderPushes, mapVars, childVars, parserVars, clientVars
  <1> DEFINE all == ring[t] \o chunk[t]
             o == Overflow(all)
             v == SubSeq(all, o + 1, Len(all))
  <1>2. /\ ring[t] \in Seq(Nat) /\ chunk[t] \in Seq(Nat) /\ got[t] \in Seq(Nat)
        /\ Gone(t) \in Nat /\ parsed[t] \in Nat /\ dropped[t] \in Nat /\ told[t] \in Nat
        /\ Len(ring[t]) \in Nat /\ Len(chunk[t]) \in Nat /\ Len(got[t]) \in Nat
        /\ reader[t] = "push" /\ Pushed(t) = parsed[t] /\ Pushed(t) = Gone(t) + Len(ring[t])
        /\ Read(t) = parsed[t] + Len(chunk[t]) /\ Gone(t) = Len(got[t]) + told[t] + dropped[t]
    BY <1>0, Counts DEF StreamTypes, ReaderPushes, Pushed, Read
  <1>3. Run(ring[t], Gone(t)) /\ Run(chunk[t], Gone(t) + Len(ring[t]))
    BY <1>0, <1>2 DEF Joined
  <1>4. all \in Seq(Nat) /\ Len(all) = Len(ring[t]) + Len(chunk[t]) /\ Run(all, Gone(t))
    BY <1>2, <1>3, RunConcat
  <1>5. /\ ring' = [ring EXCEPT ![t] = LastN(all, Len(all) - o)]
        /\ dropped' = [dropped EXCEPT ![t] = dropped[t] + o]
        /\ reader' = [reader EXCEPT ![t] = "parse"]
    BY DEF ReaderPushes, Push
  <1> HIDE DEF all
  <1>6. o \in 0..Len(all)
    <2>1. Len(all) \in Nat /\ RingCap \in Nat
      BY <1>4, LenProperties, TerminalAssumption
    <2> QED
      BY <2>1 DEF Overflow
  <1> HIDE DEF o
  <1>7. LastN(all, Len(all) - o) = v
    <2>1. Len(all) - (Len(all) - o) + 1 = o + 1
      BY <1>2, <1>4, <1>6
    <2> QED
      BY <2>1 DEF LastN
  <1>8. v \in Seq(Nat) /\ Len(v) = Len(all) - o /\ Run(v, Gone(t) + o)
    BY <1>2, <1>4, <1>6, RunCut
  <1> HIDE DEF v
  <1>9. ring'[t] = v /\ dropped'[t] = dropped[t] + o /\ reader'[t] = "parse"
    BY <1>0, <1>5, <1>7 DEF StreamTypes
  <1>10. StreamTypes'
    <2>1. dropped[t] + o \in Nat
      BY <1>2, <1>4, <1>6, SMTT(30)
    <2> QED
      BY <1>0, <1>1, <1>5, <1>7, <1>8, <2>1 DEF StreamTypes
  <1>11. Unspawned'
    BY <1>0, <1>1, <1>2, <1>5 DEF Unspawned, StreamTypes
  <1>12. Joined(t)'
    <2>1. Read(t)' = Read(t)
      BY <1>1, <1>2, <1>9 DEF Read
    <2>2. Pushed(t)' = parsed[t] + Len(chunk[t])
      BY <1>1, <1>9 DEF Pushed
    <2>3. Gone(t)' = Gone(t) + o
      <3>1. Gone(t)' = Pushed(t)' - Len(v)
        BY <1>9 DEF Gone
      <3>2. parsed[t] = Gone(t) + Len(ring[t]) /\ Len(v) = (Len(ring[t]) + Len(chunk[t])) - o
        BY <1>2, <1>4, <1>8
      <3>3. Gone(t) \in Nat /\ Len(ring[t]) \in Nat /\ Len(chunk[t]) \in Nat /\ o \in Nat
        BY <1>2, <1>4, <1>6
      <3> DEFINE a == Gone(t)
                 b == Len(ring[t])
                 c == Len(chunk[t])
      <3>4. a \in Nat /\ b \in Nat /\ c \in Nat /\ o \in Nat
        BY <3>3
      <3> HIDE DEF a, b, c
      <3>5. ((a + b) + c) - ((b + c) - o) = a + o
        BY <3>4
      <3> QED
        BY <2>2, <3>1, <3>2, <3>5 DEF a, b, c
    <2>4. Len(got[t]) + told[t] + (dropped[t] + o) + Len(v) = parsed[t] + Len(chunk[t])
      <3>1. parsed[t] = (Len(got[t]) + told[t] + dropped[t]) + Len(ring[t])
        BY <1>2
      <3>2. Len(v) = (Len(ring[t]) + Len(chunk[t])) - o
        BY <1>4, <1>8
      <3>3. /\ Len(got[t]) \in Nat /\ told[t] \in Nat /\ dropped[t] \in Nat /\ o \in Nat
            /\ Len(ring[t]) \in Nat /\ Len(chunk[t]) \in Nat
        BY <1>2, <1>4, <1>6
      <3> DEFINE a == Len(got[t])
                 b == Len(ring[t])
                 c == Len(chunk[t])
                 d == dropped[t]
                 e == told[t]
      <3>4. a \in Nat /\ b \in Nat /\ c \in Nat /\ d \in Nat /\ e \in Nat /\ o \in Nat
        BY <3>3
      <3> HIDE DEF a, b, c, d, e
      <3>5. a + e + (d + o) + ((b + c) - o) = ((a + e + d) + b) + c
        BY <3>4
      <3> QED
        BY <3>1, <3>2, <3>5 DEF a, b, c, d, e
    <2>5. UpTo(got[t], Gone(t) + o)
      <3>1. UpTo(got[t], Gone(t)) /\ Gone(t) + o \in Nat /\ Gone(t) <= Gone(t) + o
        BY <1>0, <1>2, <1>4, <1>6, SMTT(30) DEF Joined
      <3> QED
        BY <1>2, <3>1, UpToMore
    <2> QED
      BY <1>0, <1>1, <1>2, <1>8, <1>9, <2>1, <2>2, <2>3, <2>4, <2>5 DEF Joined
  <1>13. ASSUME NEW w \in Terms, w # t
         PROVE  Joined(w)'
    <2>1. ring'[w] = ring[w] /\ dropped'[w] = dropped[w] /\ reader'[w] = reader[w]
      BY <1>0, <1>5, <1>13 DEF StreamTypes
    <2> QED
      BY <1>0, <1>1, <2>1, SameTerminal
  <1> QED
    BY <1>10, <1>11, <1>12, <1>13 DEF StreamInv

(* The reader's other steps: the parser, the event, the end of file.        *)
LEMMA ParsesStep ==
    ASSUME StreamInv, NEW t \in Terms, ReaderParses(t)
    PROVE  StreamInv'
  <1>0. StreamTypes /\ Unspawned /\ \A v \in Terms : Joined(v)
    BY DEF StreamInv
  <1>1. UNCHANGED <<tty, printed, ring, dropped, chunk, got, told, nextId>>
    BY DEF ReaderParses, mapVars, childVars, ringVars, clientVars
  <1>2. reader[t] = "parse" /\ parsed[t] \in Nat /\ Len(chunk[t]) \in Nat
    BY <1>0, Counts DEF ReaderParses, StreamTypes
  <1>3. /\ parsed' = [parsed EXCEPT ![t] = parsed[t] + Len(chunk[t])]
        /\ reader' = [reader EXCEPT ![t] = "notify"]
    BY DEF ReaderParses
  <1>4. parsed'[t] = parsed[t] + Len(chunk[t]) /\ reader'[t] = "notify"
    BY <1>0, <1>3 DEF StreamTypes
  <1>5. parsed[t] + Len(chunk[t]) \in Nat
    BY <1>2
  <1>6. StreamTypes'
    BY <1>0, <1>1, <1>3, <1>5 DEF StreamTypes
  <1>7. Unspawned'
    BY <1>0, <1>1, <1>2, <1>3 DEF Unspawned, StreamTypes
  <1>8. Read(t)' = Read(t) /\ Pushed(t)' = Pushed(t)
    BY <1>1, <1>2, <1>4, <1>5 DEF Read, Pushed
  <1>9. Joined(t)'
    BY <1>0, <1>1, <1>4, <1>8 DEF Joined, Gone
  <1>10. ASSUME NEW w \in Terms, w # t
         PROVE  Joined(w)'
    <2>1. parsed'[w] = parsed[w] /\ reader'[w] = reader[w]
      BY <1>0, <1>3, <1>10 DEF StreamTypes
    <2> QED
      BY <1>0, <1>1, <2>1, SameTerminal
  <1> QED
    BY <1>6, <1>7, <1>9, <1>10 DEF StreamInv

(* A step of the reader between chunks, or the start of it.                 *)
LEMMA BetweenChunks ==
    ASSUME StreamInv, StreamTypes', Unspawned', NEW t \in Terms,
           UNCHANGED <<tty, printed, ring, dropped, parsed, got, told>>,
           reader[t] \notin {"push", "parse"}, reader'[t] \notin {"push", "parse"},
           \A v \in Terms \ {t} : reader'[v] = reader[v] /\ chunk'[v] = chunk[v]
    PROVE  StreamInv'
  <1>0. StreamTypes /\ \A v \in Terms : Joined(v)
    BY DEF StreamInv
  <1>1. Read(t)' = Read(t) /\ Pushed(t)' = Pushed(t)
    BY <1>0 DEF Read, Pushed
  <1>2. Joined(t)'
    BY <1>0, <1>1 DEF Joined, Gone
  <1>3. \A v \in Terms \ {t} : Joined(v)'
    BY <1>0, SameTerminal
  <1> QED
    BY <1>2, <1>3 DEF StreamInv

LEMMA NotifiesOrEndsStep ==
    ASSUME StreamInv, NEW t \in Terms, ReaderNotifies(t) \/ ReaderEnds(t)
    PROVE  StreamInv'
  <1>0. StreamTypes /\ Unspawned
    BY DEF StreamInv
  <1>1. UNCHANGED <<tty, printed, ring, dropped, parsed, got, told, nextId>>
    BY DEF ReaderNotifies, ReaderEnds, mapVars, childVars, ringVars, parserVars, clientVars
  <1>2. PICK l \in {"read", "done"} : reader' = [reader EXCEPT ![t] = l]
    BY DEF ReaderNotifies, ReaderEnds
  <1>3. chunk' = chunk \/ chunk' = [chunk EXCEPT ![t] = <<>>]
    BY DEF ReaderNotifies, ReaderEnds
  <1>4. reader[t] \in {"notify", "read"}
    BY DEF ReaderNotifies, ReaderEnds
  <1>5. chunk' \in [Terms -> Seq(Nat)]
    <2>1. <<>> \in Seq(Nat)
      OBVIOUS
    <2> DEFINE e == <<>>
    <2>2. e \in Seq(Nat) /\ (chunk' = chunk \/ chunk' = [chunk EXCEPT ![t] = e])
      BY <1>3, <2>1
    <2> HIDE DEF e
    <2> QED
      BY <1>0, <2>2 DEF StreamTypes
  <1>6. StreamTypes'
    BY <1>0, <1>1, <1>2, <1>5 DEF StreamTypes
  <1>7. Unspawned'
    BY <1>0, <1>1, <1>2, <1>4 DEF Unspawned, StreamTypes
  <1>8. reader'[t] = l /\ \A v \in Terms \ {t} : reader'[v] = reader[v] /\ chunk'[v] = chunk[v]
    BY <1>0, <1>2, <1>3 DEF StreamTypes
  <1> QED
    BY <1>1, <1>4, <1>6, <1>7, <1>8, BetweenChunks

LEMMA SpawnStep ==
    ASSUME StreamInv, NEW c \in Conns, TermSpawn(c)
    PROVE  StreamInv'
  <1>0. StreamTypes /\ Unspawned /\ \A v \in Terms : Joined(v)
    BY DEF StreamInv
  <1>1. UNCHANGED <<tty, printed, ring, dropped, parsed, chunk, got, told>>
    BY DEF TermSpawn, ringVars, parserVars, clientVars
  <1>2. /\ nextId' = nextId + 1 /\ nextId \in Nat /\ nextId <= MaxTerms
        /\ reader' = [reader EXCEPT ![nextId] = "read"]
    BY <1>0 DEF TermSpawn, StreamTypes
  <1>3. StreamTypes'
    <2>1. nextId' \in Nat
      BY <1>2
    <2>2. reader' \in [Terms -> {"none", "read", "push", "parse", "notify", "done"}]
      BY <1>0, <1>2 DEF StreamTypes
    <2> QED
      BY <1>0, <1>1, <2>1, <2>2 DEF StreamTypes
  <1>4. Unspawned'
    <2> SUFFICES ASSUME NEW t \in Terms, nextId' <= t
                 PROVE  reader'[t] = "none"
      BY DEF Unspawned
    <2>1. nextId <= t /\ t # nextId
      BY <1>2 DEF Terms
    <2> QED
      BY <1>0, <1>2, <2>1 DEF Unspawned, StreamTypes
  <1>5. CASE nextId \in Terms
    <2>1. reader[nextId] = "none" /\ reader'[nextId] = "read"
      BY <1>0, <1>2, <1>5 DEF Unspawned, StreamTypes
    <2>2. \A v \in Terms \ {nextId} : reader'[v] = reader[v] /\ chunk'[v] = chunk[v]
      BY <1>0, <1>1, <1>2 DEF StreamTypes
    <2> QED
      BY <1>1, <1>3, <1>4, <1>5, <2>1, <2>2, BetweenChunks
  <1>6. CASE nextId \notin Terms
    <2>1. reader' = reader
      BY <1>0, <1>2, <1>6 DEF StreamTypes
    <2>2. \A v \in Terms : Joined(v)'
      BY <1>0, <1>1, <2>1, SameTerminal
    <2> QED
      BY <1>3, <1>4, <2>2 DEF StreamInv
  <1> QED
    BY <1>5, <1>6

LEMMA TakesStep ==
    ASSUME StreamInv, NEW c \in Callers, ReadTakes(c)
    PROVE  StreamInv'
  <1>0. StreamTypes /\ Unspawned /\ \A v \in Terms : Joined(v)
    BY DEF StreamInv
  <1>1. UNCHANGED <<tty, printed, parsed, reader, chunk, nextId>>
    BY DEF ReadTakes, mapVars, childVars, parserVars, readerVars
  <1>2. PICK t, max : max \in 0..RingCap /\ Take(t, max)
    BY DEF ReadTakes
  <1>3. Unspawned'
    BY <1>0, <1>1 DEF Unspawned
  <1> DEFINE n == IF max < Len(ring[t]) THEN max ELSE Len(ring[t])
             u == SubSeq(ring[t], 1, n)
             v == SubSeq(ring[t], n + 1, Len(ring[t]))
  <1>4. /\ ring' = [ring EXCEPT ![t] = v] /\ dropped' = [dropped EXCEPT ![t] = 0]
        /\ got' = [got EXCEPT ![t] = got[t] \o u] /\ told' = [told EXCEPT ![t] = told[t] + dropped[t]]
    BY <1>2 DEF Take
  <1> HIDE DEF u, v
  <1>5. \A w \in Terms \ {t} : /\ ring'[w] = ring[w] /\ dropped'[w] = dropped[w]
                               /\ got'[w] = got[w] /\ told'[w] = told[w]
    BY <1>0, <1>4 DEF StreamTypes
  <1>6. \A w \in Terms \ {t} : Joined(w)'
    BY <1>0, <1>1, <1>5, SameTerminal
  <1>7. CASE t \notin Terms
    <2>1. ring' = ring /\ dropped' = dropped /\ got' = got /\ told' = told
      BY <1>0, <1>4, <1>7 DEF StreamTypes
    <2>2. StreamTypes'
      BY <1>0, <1>1, <2>1 DEF StreamTypes
    <2> QED
      BY <1>3, <1>6, <1>7, <2>2 DEF StreamInv
  <1>8. CASE t \in Terms
    <2>1. /\ ring[t] \in Seq(Nat) /\ got[t] \in Seq(Nat) /\ dropped[t] \in Nat /\ told[t] \in Nat
          /\ Len(ring[t]) \in Nat /\ Len(got[t]) \in Nat /\ Gone(t) \in Nat
          /\ Pushed(t) = Gone(t) + Len(ring[t])
          /\ Gone(t) = Len(got[t]) + told[t] + dropped[t]
      BY <1>0, <1>8, Counts DEF StreamTypes
    <2>2. Run(ring[t], Gone(t)) /\ Rising(got[t]) /\ UpTo(got[t], Gone(t))
      BY <1>0, <1>8 DEF Joined
    <2>3. n \in 0..Len(ring[t])
      BY <1>2, <2>1, TerminalAssumption
    <2> HIDE DEF n
    <2>4. /\ u \in Seq(Nat) /\ Len(u) = n /\ Run(u, Gone(t))
          /\ v \in Seq(Nat) /\ Len(v) = Len(ring[t]) - n /\ Run(v, Gone(t) + n)
      BY <2>1, <2>2, <2>3, RunCut DEF u, v
    <2>5. /\ got[t] \o u \in Seq(Nat) /\ Len(got[t] \o u) = Len(got[t]) + n
          /\ Rising(got[t] \o u) /\ UpTo(got[t] \o u, Gone(t) + n)
      BY <2>1, <2>2, <2>4, RisingConcat
    <2>6. told[t] + dropped[t] \in Nat
      BY <2>1
    <2>7. StreamTypes'
      BY <1>0, <1>1, <1>4, <2>4, <2>5, <2>6 DEF StreamTypes
    <2>8. /\ ring'[t] = v /\ dropped'[t] = 0 /\ got'[t] = got[t] \o u
          /\ told'[t] = told[t] + dropped[t]
      BY <1>0, <1>4, <1>8 DEF StreamTypes
    <2>9. Read(t)' = Read(t) /\ Pushed(t)' = Pushed(t)
      BY <1>1 DEF Read, Pushed
    <2>10. Gone(t)' = Gone(t) + n
      <3>1. Gone(t)' = (Gone(t) + Len(ring[t])) - (Len(ring[t]) - n)
        BY <2>1, <2>4, <2>8, <2>9 DEF Gone
      <3> DEFINE a == Gone(t)
                 b == Len(ring[t])
      <3>2. a \in Nat /\ b \in Nat /\ n \in Nat
        BY <2>1, <2>3
      <3> HIDE DEF a, b
      <3>3. (a + b) - (b - n) = a + n
        BY <3>2
      <3> QED
        BY <3>1, <3>3 DEF a, b
    <2>11. Len(got[t] \o u) + (told[t] + dropped[t]) + 0 + Len(v) = Pushed(t)
      <3>1. /\ Len(got[t] \o u) = Len(got[t]) + n /\ Len(v) = Len(ring[t]) - n
            /\ Pushed(t) = (Len(got[t]) + told[t] + dropped[t]) + Len(ring[t])
        BY <2>1, <2>4, <2>5
      <3> DEFINE a == Len(got[t])
                 b == Len(ring[t])
                 d == dropped[t]
                 e == told[t]
      <3>2. a \in Nat /\ b \in Nat /\ d \in Nat /\ e \in Nat /\ n \in Nat
        BY <2>1, <2>3
      <3> HIDE DEF a, b, d, e
      <3>3. (a + n) + (e + d) + 0 + (b - n) = (a + e + d) + b
        BY <3>2
      <3> QED
        BY <3>1, <3>3 DEF a, b, d, e
    <2>12. Joined(t)'
      BY <1>0, <1>1, <1>8, <2>4, <2>5, <2>8, <2>9, <2>10, <2>11 DEF Joined
    <2> QED
      BY <1>3, <1>6, <2>7, <2>12 DEF StreamInv
  <1> QED
    BY <1>7, <1>8

(* Everything else leaves the streams alone.                                *)
LEMMA OtherSteps ==
    ASSUME Next
    PROVE  \/ \E t \in Terms : \/ ChildPrints(t) \/ ReaderReads(t) \/ ReaderPushes(t) \/ ReaderParses(t)
                               \/ ReaderNotifies(t) \/ ReaderEnds(t)
           \/ \E c \in Conns : TermSpawn(c)
           \/ \E c \in Callers : ReadTakes(c)
           \/ UNCHANGED streamVars
  <1> USE DEF streamVars, mapVars, childVars, ringVars, parserVars, readerVars, clientVars, sharedVars
  <1>1. ASSUME NEW t \in Terms, ChildExits(t) \/ Watcher(t)
        PROVE  UNCHANGED streamVars
    BY <1>1 DEF ChildExits, Watcher, WatcherMarks, WatcherNotifies
  <1>2. ASSUME NEW c \in Conns, WriteEnds(c)
        PROVE  UNCHANGED streamVars
    BY <1>2 DEF WriteEnds
  <1>3. ASSUME NEW c \in Conns, NEW t \in Terms,
               TermRead(c, t) \/ TermWrite(c, t) \/ TermResize(c, t) \/ TermClose(c, t)
        PROVE  UNCHANGED streamVars
    BY <1>3 DEF TermRead, TermWrite, TermResize, TermClose
  <1>4. ASSUME NEW c \in Callers, SpawnInserts(c) \/ ResizesScreen(c) \/ CloseStep(c)
        PROVE  UNCHANGED streamVars
    <2>1. CASE SpawnInserts(c) \/ ResizesScreen(c)
      BY <2>1 DEF SpawnInserts, ResizesScreen
    <2>2. CASE DropsWriter(c) \/ CloseSeesExit(c)
      BY <2>2 DEF DropsWriter, CloseSeesExit
    <2>3. CASE CloseSignals(c) \/ CloseGivesUp(c)
      BY <2>3 DEF CloseSignals, CloseGivesUp
    <2> QED
      BY <1>4, <2>1, <2>2, <2>3 DEF CloseStep
  <1>5. ASSUME ShutdownAll \/ ShutdownNext \/ ShutdownEnds \/ WriterSends
        PROVE  UNCHANGED streamVars
    BY <1>5 DEF ShutdownAll, ShutdownNext, ShutdownEnds, WriterSends
  <1> HIDE DEF streamVars
  <1> QED
    BY <1>1, <1>2, <1>3, <1>4, <1>5 DEF Next, Request, Handler, Reader

(* The inductive invariant of the terminals: the PTY, the reader's chunk    *)
(* and the ring hold runs of the child's output that join up.               *)
THEOREM StreamInvariance == Spec => []StreamInv
  <1>1. Init => StreamInv
    <2> SUFFICES ASSUME Init PROVE StreamInv
      OBVIOUS
    <2> DEFINE e == <<>>
    <2>0. e \in Seq(Nat) /\ Len(e) = 0
      OBVIOUS
    <2>1. /\ tty = [t \in Terms |-> e] /\ ring = [t \in Terms |-> e] /\ chunk = [t \in Terms |-> e]
          /\ got = [t \in Terms |-> e]
      BY DEF Init
    <2> HIDE DEF e
    <2>2. StreamTypes
      BY <2>0, <2>1 DEF Init, StreamTypes
    <2>3. Unspawned
      BY DEF Init, Unspawned
    <2>4. ASSUME NEW t \in Terms
          PROVE  Joined(t)
      <3>1. tty[t] = e /\ ring[t] = e /\ chunk[t] = e /\ got[t] = e
        BY <2>1
      <3>2. parsed[t] = 0 /\ told[t] = 0 /\ dropped[t] = 0 /\ printed[t] = 0 /\ reader[t] = "none"
        BY DEF Init
      <3>3. Read(t) = 0 /\ Pushed(t) = 0
        BY <3>2 DEF Read, Pushed
      <3>4. Gone(t) = 0
        <4>1. Len(ring[t]) = 0
          BY <2>0, <3>1
        <4>2. Gone(t) = 0 - 0
          BY <3>3, <4>1 DEF Gone
        <4> QED
          BY <4>2
      <3> QED
        BY <2>0, <3>1, <3>2, <3>3, <3>4 DEF Joined, Run, Rising, UpTo
    <2> QED
      BY <2>2, <2>3, <2>4 DEF StreamInv
  <1>2. StreamInv /\ [Next]_vars => StreamInv'
    <2> SUFFICES ASSUME StreamInv, [Next]_vars
                 PROVE  StreamInv'
      OBVIOUS
    <2>1. CASE UNCHANGED streamVars
      <3>1. \A t \in Terms : Joined(t)'
        BY <2>1, SameTerminal DEF StreamInv, streamVars
      <3> QED
        BY <2>1, <3>1 DEF StreamInv, streamVars, StreamTypes, Unspawned
    <2>2. UNCHANGED vars => UNCHANGED streamVars
      BY DEF vars, streamVars, mapVars, childVars, ringVars, parserVars, readerVars, clientVars
    <2> QED
      BY <2>1, <2>2, OtherSteps, PrintsStep, ReadsStep, PushesStep, ParsesStep, NotifiesOrEndsStep,
         SpawnStep, TakesStep
  <1> QED
    BY <1>1, <1>2, PTL DEF Spec

(* ByteRing loses nothing it does not report (terminal-control: ByteRing's  *)
(* push and take, process_output, term.read): what was returned, reported   *)
(* as dropped and kept adds up to what was pushed, in order and up to the   *)
(* newest byte.                                                             *)
THEOREM ReadsSafety == Spec => []ReadsAccountForEveryByte
  <1>1. StreamInv => ReadsAccountForEveryByte
    <2> SUFFICES ASSUME StreamInv, NEW t \in Terms
                 PROVE  /\ Len(got[t]) + told[t] + dropped[t] + Len(ring[t]) = Pushed(t)
                        /\ \A i, j \in 1..Len(got[t] \o ring[t]) :
                             i < j => (got[t] \o ring[t])[i] < (got[t] \o ring[t])[j]
                        /\ ring[t] # <<>> => Last(ring[t]) = Pushed(t)
      BY DEF ReadsAccountForEveryByte
    <2>1. StreamTypes /\ Joined(t)
      BY DEF StreamInv
    <2>2. /\ ring[t] \in Seq(Nat) /\ got[t] \in Seq(Nat) /\ Len(ring[t]) \in Nat /\ Gone(t) \in Nat
          /\ Pushed(t) = Gone(t) + Len(ring[t])
      BY <2>1, Counts DEF StreamTypes
    <2>3. Rising(got[t] \o ring[t])
      BY <2>1, <2>2, RisingConcat DEF Joined
    <2>4. ASSUME ring[t] # <<>>
          PROVE  Last(ring[t]) = Pushed(t)
      <3>1. Len(ring[t]) \in 1..Len(ring[t])
        BY <2>2, <2>4, EmptySeq
      <3>2. Last(ring[t]) = ring[t][Len(ring[t])]
        BY DEF Last
      <3> QED
        BY <2>1, <2>2, <3>1, <3>2 DEF Joined, Run
    <2>5. Len(got[t]) + told[t] + dropped[t] + Len(ring[t]) = Pushed(t)
      BY <2>1 DEF Joined
    <2> QED
      BY <2>3, <2>4, <2>5 DEF Rising
  <1> QED
    BY <1>1, StreamInvariance, PTL

----------------------------------------------------------------------------
(* The events of a terminal: inductive invariant                            *)

\* The bytes that term.output events have been made of.
Noted(t) == IF reader[t] = "notify" THEN parsed[t] - Len(chunk[t]) ELSE parsed[t]
\* The reader holds the bytes that come next, and never none.
Chunked(t) ==
    /\ Noted(t) \in Nat
    /\ reader[t] \in {"push", "parse", "notify"} => Len(chunk[t]) > 0 /\ Run(chunk[t], Noted(t))

\* An event ends where the last one did if it has the last number, and before it
\* if it has an older one.
Events == [term : Terms, kind : {"output", "exit"}, seq : Nat, data : Seq(Nat)]
Placed(e) ==
    e.kind = "output" =>
        /\ e.seq <= outputSeq[e.term] /\ Last(e.data) \in Nat /\ Last(e.data) <= Noted(e.term)
        /\ e.seq = outputSeq[e.term] <=> Last(e.data) = Noted(e.term)

\* The client receives a terminal's events in the order of the outbox.
FeedTypes == outbox \in Seq(Events) /\ feed \in [Terms -> Seq(Events)] /\ outputSeq \in [Terms -> Nat]
OutboxOrdered ==
    /\ \A i \in 1..Len(outbox) : Placed(outbox[i])
    /\ \A i, j \in 1..Len(outbox) :
          i < j /\ outbox[i].term = outbox[j].term => Follows(outbox[i], outbox[j])
FeedOrdered(t) ==
    /\ \A i \in 1..Len(feed[t]) : feed[t][i].term = t /\ Placed(feed[t][i])
    /\ \A i, j \in 1..Len(feed[t]) : i < j => Follows(feed[t][i], feed[t][j])
    /\ \A i \in 1..Len(feed[t]), j \in 1..Len(outbox) :
          outbox[j].term = t => Follows(feed[t][i], outbox[j])

FeedInv == FeedTypes /\ OutboxOrdered /\ \A t \in Terms : Chunked(t) /\ FeedOrdered(t)

(* An event goes to the outbox, or is dropped because it is full.           *)
LEMMA NotifyStep ==
    ASSUME FeedInv, NEW e \in Events, outbox' = Append(outbox, e) \/ outbox' = outbox, feed' = feed,
           outputSeq' \in [Terms -> Nat], \A t \in Terms : Chunked(t)',
           \A x \in Events : Placed(x) => Placed(x)',
           \A x \in Events : Placed(x) /\ x.term = e.term => Follows(x, e), Placed(e)'
    PROVE  FeedInv'
  <1>1. FeedTypes /\ OutboxOrdered /\ \A t \in Terms : FeedOrdered(t)
    BY DEF FeedInv
  <1>2. Len(outbox) \in Nat /\ \A i \in 1..Len(outbox) : outbox[i] \in Events
    BY <1>1, LenProperties, ElementOfSeq DEF FeedTypes
  <1>3. \A t \in Terms : \A i \in 1..Len(feed[t]) : feed[t][i] \in Events
    BY <1>1, ElementOfSeq DEF FeedTypes
  <1>4. CASE outbox' = outbox
    <2>1. OutboxOrdered'
      BY <1>1, <1>2, <1>4 DEF OutboxOrdered
    <2>2. \A t \in Terms : FeedOrdered(t)'
      BY <1>1, <1>3, <1>4 DEF FeedOrdered
    <2> QED
      BY <1>1, <1>4, <2>1, <2>2 DEF FeedInv, FeedTypes
  <1>5. CASE outbox' = Append(outbox, e)
    <2>1. /\ outbox' \in Seq(Events) /\ Len(outbox') = Len(outbox) + 1
          /\ \A i \in 1..Len(outbox) : outbox'[i] = outbox[i]
          /\ outbox'[Len(outbox) + 1] = e
      BY <1>1, <1>5, AppendProperties DEF FeedTypes
    <2>2. \A i \in 1..Len(outbox') : i \in 1..Len(outbox) \/ i = Len(outbox) + 1
      BY <1>2, <2>1
    <2>3. OutboxOrdered'
      <3>1. \A i \in 1..Len(outbox') : Placed(outbox[i])'
        <4>1. ASSUME NEW i \in 1..Len(outbox'), NEW x, x = outbox'[i]
              PROVE  x \in Events /\ Placed(x)'
          BY <1>1, <1>2, <2>1, <2>2, <4>1 DEF OutboxOrdered
        <4> QED
          BY <4>1
      <3>2. ASSUME NEW i \in 1..Len(outbox'), NEW j \in 1..Len(outbox'), i < j,
                   outbox'[i].term = outbox'[j].term
            PROVE  Follows(outbox'[i], outbox'[j])
        <4>1. i \in 1..Len(outbox)
          BY <1>2, <2>1, <3>2
        <4>2. CASE j \in 1..Len(outbox)
          BY <1>1, <2>1, <3>2, <4>1, <4>2 DEF OutboxOrdered
        <4>3. CASE j = Len(outbox) + 1
          BY <1>1, <1>2, <2>1, <3>2, <4>1, <4>3 DEF OutboxOrdered
        <4> QED
          BY <2>2, <4>2, <4>3
      <3> QED
        BY <3>1, <3>2 DEF OutboxOrdered
    <2>4. ASSUME NEW t \in Terms
          PROVE  FeedOrdered(t)'
      <3>1. \A i \in 1..Len(feed[t]) : feed[t][i].term = t /\ Placed(feed[t][i]) /\ feed[t][i] \in Events
        BY <1>1, <1>3 DEF FeedOrdered
      <3>2. \A i \in 1..Len(feed[t]) : Placed(feed[t][i])'
        BY <3>1
      <3>3. ASSUME NEW i \in 1..Len(feed[t]), NEW j \in 1..Len(outbox'), outbox'[j].term = t
            PROVE  Follows(feed[t][i], outbox'[j])
        <4>1. CASE j \in 1..Len(outbox)
          BY <1>1, <2>1, <3>3, <4>1 DEF FeedOrdered
        <4>2. CASE j = Len(outbox) + 1
          BY <2>1, <3>1, <3>3, <4>2
        <4> QED
          BY <2>2, <4>1, <4>2
      <3> QED
        BY <1>1, <3>1, <3>2, <3>3 DEF FeedOrdered
    <2> QED
      BY <1>1, <2>1, <2>3, <2>4 DEF FeedInv, FeedTypes
  <1> QED
    BY <1>4, <1>5

(* The writer task hands the client the first event of the outbox.          *)
LEMMA SendsStep ==
    ASSUME FeedInv, StreamTypes, WriterSends
    PROVE  FeedInv'
  <1>1. FeedTypes /\ OutboxOrdered /\ \A t \in Terms : Chunked(t) /\ FeedOrdered(t)
    BY DEF FeedInv
  <1>2. UNCHANGED <<reader, chunk, parsed, outputSeq>> /\ outbox # <<>> /\ outbox' = Tail(outbox)
    BY DEF WriterSends, readerVars, parserVars
  <1>3. \A t \in Terms : Chunked(t)'
    BY <1>1, <1>2 DEF Chunked, Noted
  <1>4. \A x : Placed(x) => Placed(x)'
    BY <1>2 DEF Placed, Noted
  <1>5. /\ outbox' \in Seq(Events) /\ Len(outbox) \in Nat /\ Len(outbox') = Len(outbox) - 1
        /\ Len(outbox) > 0 /\ \A i \in 1..Len(outbox') : outbox'[i] = outbox[i + 1]
    BY <1>1, <1>2, HeadTailProperties, LenProperties, EmptySeq DEF FeedTypes
  <1>6. PICK e \in Events : e = Head(outbox) /\ e = outbox[1]
    BY <1>1, <1>2, HeadTailProperties, ElementOfSeq DEF FeedTypes
  <1>7. PICK t \in Terms : t = e.term
    BY DEF Events
  <1>8. feed' = [feed EXCEPT ![t] = Append(@, e)] /\ feed[t] \in Seq(Events)
    BY <1>1, <1>6, <1>7 DEF WriterSends, FeedTypes
  <1>9. /\ feed'[t] \in Seq(Events) /\ Len(feed'[t]) = Len(feed[t]) + 1 /\ Len(feed[t]) \in Nat
        /\ (\A i \in 1..Len(feed[t]) : feed'[t][i] = feed[t][i]) /\ feed'[t][Len(feed[t]) + 1] = e
        /\ \A u \in Terms \ {t} : feed'[u] = feed[u]
    <2>1. feed'[t] = Append(feed[t], e) /\ \A u \in Terms \ {t} : feed'[u] = feed[u]
      BY <1>1, <1>8 DEF FeedTypes
    <2> QED
      BY <1>8, <2>1, AppendProperties, LenProperties
  <1>10. FeedTypes'
    <2>1. feed' \in [Terms -> Seq(Events)]
      BY <1>1, <1>8, <1>9 DEF FeedTypes
    <2> QED
      BY <1>1, <1>2, <1>5, <2>1 DEF FeedTypes
  <1>11. \A i \in 1..Len(outbox') : i + 1 \in 1..Len(outbox) /\ 1 < i + 1 /\ 1 \in 1..Len(outbox)
    BY <1>5
  <1>12. OutboxOrdered'
    <2>1. \A i \in 1..Len(outbox') : Placed(outbox[i])'
      <3>1. ASSUME NEW i \in 1..Len(outbox'), NEW x, x = outbox'[i]
            PROVE  Placed(x)'
        BY <1>1, <1>4, <1>5, <1>11, <3>1 DEF OutboxOrdered
      <3> QED
        BY <3>1
    <2>2. ASSUME NEW i \in 1..Len(outbox'), NEW j \in 1..Len(outbox'), i < j,
                 outbox'[i].term = outbox'[j].term
          PROVE  Follows(outbox'[i], outbox'[j])
      <3>1. i + 1 < j + 1 /\ outbox'[i] = outbox[i + 1] /\ outbox'[j] = outbox[j + 1]
        BY <1>5, <2>2
      <3> QED
        BY <1>1, <1>11, <2>2, <3>1 DEF OutboxOrdered
    <2> QED
      BY <2>1, <2>2 DEF OutboxOrdered
  <1>13. \A u \in Terms : \A i \in 1..Len(feed[u]), j \in 1..Len(outbox') :
            outbox'[j].term = u => Follows(feed[u][i], outbox'[j])
    BY <1>1, <1>5, <1>11 DEF FeedOrdered
  <1>14. ASSUME NEW u \in Terms \ {t}
         PROVE  FeedOrdered(u)'
    BY <1>1, <1>4, <1>9, <1>13 DEF FeedOrdered
  <1>15. FeedOrdered(t)'
    <2>1. \A i \in 1..Len(feed'[t]) : i \in 1..Len(feed[t]) \/ i = Len(feed[t]) + 1
      BY <1>9
    <2>2. 1 \in 1..Len(outbox) /\ Placed(e)
      BY <1>1, <1>5, <1>6 DEF OutboxOrdered
    <2>3. \A i \in 1..Len(feed'[t]) : feed'[t][i].term = t /\ Placed(feed[t][i])'
      <3>1. ASSUME NEW i \in 1..Len(feed'[t]), NEW x, x = feed'[t][i]
            PROVE  x.term = t /\ Placed(x)'
        <4>1. CASE i \in 1..Len(feed[t])
          <5>1. x = feed[t][i] /\ x.term = t /\ Placed(x)
            BY <1>1, <1>9, <3>1, <4>1 DEF FeedOrdered
          <5> QED
            BY <1>4, <5>1
        <4>2. CASE i = Len(feed[t]) + 1
          BY <1>4, <1>7, <1>9, <2>2, <3>1, <4>2
        <4> QED
          BY <2>1, <4>1, <4>2
      <3> QED
        BY <3>1
    <2>4. ASSUME NEW i \in 1..Len(feed'[t]), NEW j \in 1..Len(feed'[t]), i < j
          PROVE  Follows(feed'[t][i], feed'[t][j])
      <3>1. i \in 1..Len(feed[t])
        BY <1>9, <2>4
      <3>2. CASE j \in 1..Len(feed[t])
        BY <1>1, <1>9, <2>4, <3>1, <3>2 DEF FeedOrdered
      <3>3. CASE j = Len(feed[t]) + 1
        BY <1>1, <1>6, <1>7, <1>9, <2>2, <3>1, <3>3 DEF FeedOrdered
      <3> QED
        BY <2>1, <3>2, <3>3
    <2>5. ASSUME NEW i \in 1..Len(feed'[t]), NEW j \in 1..Len(outbox'), outbox'[j].term = t
          PROVE  Follows(feed'[t][i], outbox'[j])
      <3>1. CASE i \in 1..Len(feed[t])
        BY <1>9, <1>13, <2>5, <3>1
      <3>2. CASE i = Len(feed[t]) + 1
        BY <1>1, <1>5, <1>6, <1>7, <1>9, <1>11, <2>5, <3>2 DEF OutboxOrdered
      <3> QED
        BY <2>1, <3>1, <3>2
    <2> QED
      BY <2>3, <2>4, <2>5 DEF FeedOrdered
  <1> QED
    BY <1>3, <1>10, <1>12, <1>14, <1>15 DEF FeedInv

(* No event is made or sent, and the reader still holds what comes next.    *)
LEMMA NoEventStep ==
    ASSUME FeedInv, UNCHANGED <<outbox, feed, outputSeq>>,
           \A t \in Terms : Chunked(t)' /\ Noted(t)' = Noted(t)
    PROVE  FeedInv'
  <1>1. FeedTypes /\ OutboxOrdered /\ \A t \in Terms : FeedOrdered(t)
    BY DEF FeedInv
  <1>2. ASSUME NEW x \in Events, Placed(x)
        PROVE  Placed(x)'
    <2>1. x.term \in Terms
      BY DEF Events
    <2>2. PICK n : n = Noted(x.term) /\ n = Noted(x.term)'
      BY <2>1
    <2> QED
      BY <1>2, <2>2 DEF Placed
  <1>3. OutboxOrdered'
    BY <1>1, <1>2, ElementOfSeq DEF OutboxOrdered, FeedTypes
  <1>4. \A t \in Terms : FeedOrdered(t)'
    BY <1>1, <1>2, ElementOfSeq DEF FeedOrdered, FeedTypes
  <1> QED
    BY <1>1, <1>3, <1>4 DEF FeedInv, FeedTypes

(* A terminal whose reader does not move.                                   *)
LEMMA SameReader ==
    ASSUME NEW t \in Terms, Chunked(t), reader'[t] = reader[t], chunk'[t] = chunk[t], parsed'[t] = parsed[t]
    PROVE  Chunked(t)' /\ Noted(t)' = Noted(t)
  BY DEF Chunked, Noted

(* The reader goes round its loop, up to the notification.                  *)
LEMMA ReaderStep ==
    ASSUME StreamInv, FeedInv, NEW t \in Terms,
           ReaderReads(t) \/ ReaderPushes(t) \/ ReaderParses(t) \/ ReaderEnds(t)
    PROVE  FeedInv'
  <1>1. StreamTypes /\ Joined(t) /\ Chunked(t) /\ \A u \in Terms : Chunked(u)
    BY DEF StreamInv, FeedInv
  <1>2. /\ UNCHANGED <<outbox, feed, outputSeq>> /\ parsed[t] \in Nat /\ Len(chunk[t]) \in Nat
        /\ tty[t] \in Seq(Nat)
    BY <1>1, Counts DEF ReaderReads, ReaderPushes, ReaderParses, ReaderEnds, eventVars, StreamTypes
  <1>3. \A u \in Terms \ {t} : reader'[u] = reader[u] /\ chunk'[u] = chunk[u] /\ parsed'[u] = parsed[u]
    BY <1>1 DEF ReaderReads, ReaderPushes, ReaderParses, ReaderEnds, parserVars, StreamTypes
  <1>4. Chunked(t)' /\ Noted(t)' = Noted(t)
    <2>1. CASE ReaderReads(t)
      <3>1. PICK n \in 0..Len(tty[t]) : n > 0 /\ chunk' = [chunk EXCEPT ![t] = SubSeq(tty[t], 1, n)]
        <4>1. Len(tty[t]) \in Nat /\ ReadBuf \in Nat
          BY <1>1, Counts, TerminalAssumption
        <4> DEFINE m == IF Len(tty[t]) < ReadBuf THEN Len(tty[t]) ELSE ReadBuf
        <4>2. m \in 0..Len(tty[t])
          BY <4>1
        <4>3. m > 0 /\ chunk' = [chunk EXCEPT ![t] = SubSeq(tty[t], 1, m)]
          BY <2>1 DEF ReaderReads
        <4> QED
          BY <4>2, <4>3
      <3>2. reader[t] = "read" /\ reader'[t] = "push" /\ parsed'[t] = parsed[t] /\ chunk'[t] = SubSeq(tty[t], 1, n)
        BY <1>1, <2>1, <3>1 DEF ReaderReads, parserVars, StreamTypes
      <3>3. Run(tty[t], parsed[t])
        <4>1. Read(t) = parsed[t]
          BY <1>2, <3>2 DEF Read
        <4> QED
          BY <1>1, <4>1 DEF Joined
      <3>4. Len(chunk'[t]) = n /\ Run(chunk'[t], parsed[t])
        BY <1>2, <3>1, <3>2, <3>3, RunCut
      <3> QED
        BY <1>2, <3>1, <3>2, <3>4 DEF Chunked, Noted
    <2>2. CASE ReaderPushes(t)
      <3>1. reader[t] = "push" /\ reader'[t] = "parse" /\ parsed'[t] = parsed[t] /\ chunk'[t] = chunk[t]
        BY <1>1, <2>2 DEF ReaderPushes, parserVars, StreamTypes
      <3> QED
        BY <1>1, <3>1 DEF Chunked, Noted
    <2>3. CASE ReaderParses(t)
      <3>1. /\ reader[t] = "parse" /\ reader'[t] = "notify" /\ parsed'[t] = parsed[t] + Len(chunk[t])
            /\ chunk'[t] = chunk[t]
        BY <1>1, <2>3 DEF ReaderParses, StreamTypes
      <3>2. Noted(t) = parsed[t] /\ Noted(t)' = (parsed[t] + Len(chunk[t])) - Len(chunk[t])
        BY <3>1 DEF Noted
      <3>3. Noted(t)' = Noted(t)
        BY <1>2, <3>2
      <3> QED
        BY <1>1, <3>1, <3>3 DEF Chunked
    <2>4. CASE ReaderEnds(t)
      <3>1. reader[t] = "read" /\ reader'[t] = "done" /\ parsed'[t] = parsed[t] /\ chunk'[t] = chunk[t]
        BY <1>1, <2>4 DEF ReaderEnds, parserVars, StreamTypes
      <3> QED
        BY <1>1, <3>1 DEF Chunked, Noted
    <2> QED
      BY <2>1, <2>2, <2>3, <2>4
  <1> QED
    BY <1>1, <1>2, <1>3, <1>4, SameReader, NoEventStep

LEMMA SpawnsReader ==
    ASSUME StreamInv, FeedInv, NEW c, TermSpawn(c)
    PROVE  FeedInv'
  <1>1. StreamTypes /\ Unspawned /\ \A u \in Terms : Chunked(u)
    BY DEF StreamInv, FeedInv
  <1>2. UNCHANGED <<outbox, feed, outputSeq, chunk, parsed>> /\ reader' = [reader EXCEPT ![nextId] = "read"]
    BY DEF TermSpawn, eventVars, parserVars
  <1>3. ASSUME NEW u \in Terms
        PROVE  Chunked(u)' /\ Noted(u)' = Noted(u)
    <2>1. CASE u = nextId
      <3>1. nextId <= u
        BY <2>1 DEF Terms
      <3>2. reader[u] = "none" /\ reader'[u] = "read"
        BY <1>1, <1>2, <2>1, <3>1 DEF Unspawned, StreamTypes
      <3> QED
        BY <1>1, <1>2, <3>2 DEF Chunked, Noted
    <2>2. CASE u # nextId
      <3>1. reader'[u] = reader[u]
        BY <1>1, <1>2, <2>2 DEF StreamTypes
      <3> QED
        BY <1>1, <1>2, <3>1, SameReader
    <2> QED
      BY <2>1, <2>2
  <1> QED
    BY <1>2, <1>3, NoEventStep

(* The next event of terminal t: its number and its bytes come next.        *)
LEMMA OutputStep ==
    ASSUME StreamInv, FeedInv, NEW t \in Terms, ReaderNotifies(t)
    PROVE  FeedInv'
  <1>1. StreamTypes /\ FeedTypes /\ Chunked(t) /\ \A u \in Terms : Chunked(u)
    BY DEF StreamInv, FeedInv
  <1>2. /\ reader[t] = "notify" /\ reader' = [reader EXCEPT ![t] = "read"] /\ chunk' = [chunk EXCEPT ![t] = <<>>]
        /\ outputSeq' = [outputSeq EXCEPT ![t] = outputSeq[t] + 1] /\ UNCHANGED <<parsed, feed>>
        /\ outbox' = Append(outbox, OutputEvent(t)) \/ outbox' = outbox
    BY DEF ReaderNotifies, Notify, parserVars
  <1>3. PICK k \in Nat : k = outputSeq[t]
    BY <1>1 DEF FeedTypes
  <1>4. PICK d \in Seq(Nat) : d = chunk[t]
    BY <1>1 DEF StreamTypes
  <1>5. PICK n \in Nat : n = Noted(t) /\ Len(d) > 0 /\ Run(d, n)
    BY <1>1, <1>2, <1>4 DEF Chunked
  <1>6. Len(d) \in Nat /\ Head(d) = n + 1 /\ Last(d) = n + Len(d)
    <2>1. Len(d) \in Nat /\ 1 \in 1..Len(d) /\ Len(d) \in 1..Len(d)
      BY <1>5, LenProperties
    <2>2. Head(d) = d[1] /\ Last(d) = d[Len(d)]
      BY DEF Last
    <2> QED
      BY <1>5, <2>1, <2>2 DEF Run
  <1>7. PICK e \in Events : e = OutputEvent(t) /\ e.term = t /\ e.kind = "output" /\ e.seq = k + 1 /\ e.data = d
    <2>1. OutputEvent(t) = [term |-> t, kind |-> "output", seq |-> k + 1, data |-> d]
      BY <1>3, <1>4 DEF OutputEvent
    <2>2. [term |-> t, kind |-> "output", seq |-> k + 1, data |-> d] \in Events
      BY DEF Events
    <2> QED
      BY <2>1, <2>2
  <1>8. /\ reader'[t] = "read" /\ outputSeq'[t] = k + 1
        /\ \A u \in Terms \ {t} : reader'[u] = reader[u] /\ chunk'[u] = chunk[u] /\ outputSeq'[u] = outputSeq[u]
    BY <1>1, <1>2, <1>3 DEF StreamTypes, FeedTypes
  <1>9. Noted(t)' = n + Len(d) /\ \A u \in Terms \ {t} : Chunked(u)' /\ Noted(u)' = Noted(u)
    <2>1. n = parsed[t] - Len(d) /\ parsed[t] \in Nat /\ Noted(t)' = parsed[t]
      BY <1>1, <1>2, <1>4, <1>5, <1>8 DEF Noted, StreamTypes
    <2>2. Noted(t)' = n + Len(d)
      BY <1>6, <2>1
    <2> QED
      BY <1>1, <1>2, <1>8, <2>2, SameReader
  <1>10. Chunked(t)'
    BY <1>6, <1>8, <1>9 DEF Chunked
  <1>11. ASSUME NEW x \in Events, Placed(x)
         PROVE  Placed(x)' /\ (x.term = e.term => Follows(x, e))
    <2>1. x.term \in Terms /\ x.seq \in Nat
      BY DEF Events
    <2>2. CASE x.term # t
      <3>1. PICK m : m = Noted(x.term) /\ m = Noted(x.term)'
        BY <1>9, <2>1, <2>2
      <3>2. outputSeq'[x.term] = outputSeq[x.term]
        BY <1>8, <2>1, <2>2
      <3> QED
        BY <1>7, <1>11, <2>2, <3>1, <3>2 DEF Placed
    <2>3. CASE x.term = t
      <3>1. CASE x.kind = "output"
        <4>1. x.seq <= k /\ Last(x.data) \in Nat /\ Last(x.data) <= n /\ (x.seq = k <=> Last(x.data) = n)
          BY <1>3, <1>5, <1>11, <2>3, <3>1 DEF Placed
        <4>2. PICK l \in Nat : l = Last(x.data)
          BY <4>1
        <4>3. x.seq < k + 1 /\ l < n + Len(d) /\ l <= n /\ (x.seq = k <=> l = n)
          BY <1>5, <1>6, <2>1, <4>1, <4>2
        <4>4. Placed(x)'
          BY <1>6, <1>8, <1>9, <2>1, <2>3, <4>2, <4>3 DEF Placed
        <4>5. e.seq = x.seq + 1 <=> Head(e.data) = l + 1
          BY <1>6, <1>7, <2>1, <4>3
        <4> QED
          BY <1>7, <4>2, <4>3, <4>4, <4>5 DEF Follows
      <3>2. CASE x.kind # "output"
        BY <3>2 DEF Placed, Follows
      <3> QED
        BY <3>1, <3>2
    <2> QED
      BY <2>2, <2>3
  <1>12. Placed(e)'
    <2>1. Last(e.data) = n + Len(d) /\ n + Len(d) \in Nat
      BY <1>6, <1>7
    <2> QED
      BY <1>7, <1>8, <1>9, <2>1 DEF Placed
  <1>13. outputSeq' \in [Terms -> Nat]
    BY <1>1, <1>2, <1>3 DEF FeedTypes
  <1> QED
    BY <1>2, <1>7, <1>9, <1>10, <1>11, <1>12, <1>13, NotifyStep

LEMMA ExitStep ==
    ASSUME FeedInv, NEW t \in Terms, WatcherNotifies(t)
    PROVE  FeedInv'
  <1>1. /\ UNCHANGED <<feed, outputSeq, reader, chunk, parsed>>
        /\ outbox' = Append(outbox, ExitEvent(t)) \/ outbox' = outbox
    BY DEF WatcherNotifies, Notify, readerVars, parserVars
  <1>2. PICK e \in Events : e = ExitEvent(t) /\ e.kind = "exit"
    <2>1. [term |-> t, kind |-> "exit", seq |-> 0, data |-> <<>>] \in Events
      BY DEF Events
    <2> QED
      BY <2>1 DEF ExitEvent
  <1>3. /\ \A u \in Terms : Chunked(u)'
        /\ \A x : Placed(x) => Placed(x)'
    BY <1>1 DEF FeedInv, Chunked, Placed, Noted
  <1>4. (\A x : Follows(x, e)) /\ Placed(e)' /\ outputSeq' \in [Terms -> Nat]
    BY <1>1, <1>2 DEF FeedInv, FeedTypes, Follows, Placed
  <1> QED
    BY <1>1, <1>2, <1>3, <1>4, NotifyStep

(* Everything else leaves the reader and the events alone.                  *)
feedVars == <<reader, chunk, parsed, outbox, feed, outputSeq>>
LEMMA QuietSteps ==
    ASSUME Next
    PROVE  \/ \E t \in Terms : \/ ReaderReads(t) \/ ReaderPushes(t) \/ ReaderParses(t) \/ ReaderEnds(t)
                               \/ ReaderNotifies(t) \/ WatcherNotifies(t)
           \/ \E c \in Conns : TermSpawn(c)
           \/ WriterSends
           \/ UNCHANGED feedVars
  <1> USE DEF feedVars, parserVars, readerVars, eventVars
  <1>1. ASSUME NEW t \in Terms, ChildPrints(t) \/ ChildExits(t) \/ WatcherMarks(t)
        PROVE  UNCHANGED feedVars
    BY <1>1 DEF ChildPrints, ChildExits, WatcherMarks
  <1>2. ASSUME NEW c \in Conns, WriteEnds(c)
        PROVE  UNCHANGED feedVars
    BY <1>2 DEF WriteEnds
  <1>3. ASSUME NEW c \in Conns, NEW t \in Terms,
               TermRead(c, t) \/ TermWrite(c, t) \/ TermResize(c, t) \/ TermClose(c, t)
        PROVE  UNCHANGED feedVars
    BY <1>3 DEF TermRead, TermWrite, TermResize, TermClose
  <1>4. ASSUME NEW c \in Callers, Handler(c)
        PROVE  UNCHANGED feedVars
    <2>1. CASE SpawnInserts(c) \/ ResizesScreen(c) \/ ReadTakes(c)
      BY <2>1 DEF SpawnInserts, ResizesScreen, ReadTakes
    <2>2. CASE DropsWriter(c) \/ CloseSeesExit(c)
      BY <2>2 DEF DropsWriter, CloseSeesExit
    <2>3. CASE CloseSignals(c) \/ CloseGivesUp(c)
      BY <2>3 DEF CloseSignals, CloseGivesUp
    <2> QED
      BY <1>4, <2>1, <2>2, <2>3 DEF Handler, CloseStep
  <1>5. ASSUME ShutdownAll \/ ShutdownNext \/ ShutdownEnds
        PROVE  UNCHANGED feedVars
    BY <1>5 DEF ShutdownAll, ShutdownNext, ShutdownEnds
  <1> HIDE DEF feedVars
  <1> QED
    BY <1>1, <1>2, <1>3, <1>4, <1>5 DEF Next, Request, Reader, Watcher

(* The inductive invariant of a terminal's events: the reader always holds  *)
(* the bytes after those it has announced (process_output, then notify),    *)
(* and the last number goes with the last byte announced, whether or not    *)
(* the outbox had room for the event.                                       *)
THEOREM FeedInvariance == Spec => []FeedInv
  <1>1. Init => FeedInv
    <2> SUFFICES ASSUME Init PROVE FeedInv
      OBVIOUS
    <2> DEFINE none == <<>>
    <2>1. none \in Seq(Events) /\ Len(none) = 0
      OBVIOUS
    <2>2. outbox = none /\ feed = [t \in Terms |-> none]
      BY DEF Init
    <2> HIDE DEF none
    <2>3. FeedTypes
      BY <2>1, <2>2 DEF Init, FeedTypes
    <2>4. OutboxOrdered
      BY <2>1, <2>2 DEF OutboxOrdered
    <2>5. ASSUME NEW t \in Terms
          PROVE  Chunked(t) /\ FeedOrdered(t)
      <3>1. reader[t] = "none" /\ parsed[t] = 0 /\ feed[t] = none
        BY <2>2 DEF Init
      <3> QED
        BY <2>1, <3>1 DEF Chunked, Noted, FeedOrdered
    <2> QED
      BY <2>3, <2>4, <2>5 DEF FeedInv
  <1>2. StreamInv /\ FeedInv /\ [Next]_vars => FeedInv'
    <2> SUFFICES ASSUME StreamInv, FeedInv, [Next]_vars
                 PROVE  FeedInv'
      OBVIOUS
    <2>1. CASE UNCHANGED feedVars
      <3>1. UNCHANGED <<reader, chunk, parsed, outbox, feed, outputSeq>>
        BY <2>1 DEF feedVars
      <3>2. \A t \in Terms : Chunked(t)' /\ Noted(t)' = Noted(t)
        BY <3>1, SameReader DEF FeedInv
      <3> QED
        BY <3>1, <3>2, NoEventStep
    <2>2. UNCHANGED vars => UNCHANGED feedVars
      BY DEF vars, feedVars, parserVars, readerVars, eventVars
    <2>3. WriterSends => FeedInv'
      BY SendsStep DEF StreamInv
    <2> QED
      BY <2>1, <2>2, <2>3, QuietSteps, ReaderStep, SpawnsReader, OutputStep, ExitStep
  <1> QED
    BY <1>1, <1>2, StreamInvariance, PTL DEF Spec

(* A client that follows term.output (BrokerTerminalSink.notify, try_push)  *)
(* can tell from the numbers alone whether it missed bytes, whatever the    *)
(* full outbound queue drops, for any number of terminals and bytes and any *)
(* capacity of the queue.                                                   *)
THEOREM FeedGapsShowSafety == Spec => []FeedGapsShow
  <1>1. FeedInv => FeedGapsShow
    BY DEF FeedInv, FeedOrdered, FeedGapsShow
  <1> QED
    BY <1>1, FeedInvariance, PTL

----------------------------------------------------------------------------
(* The download: inductive invariant                                        *)

Dirs == [zip : Seq(Nat), tmp : Seq(Nat), pin : Seq(Nat), marker : BOOLEAN, tree : SUBSET Nat]
FetchStates ==
    [attempt : Nat, at : Nat, handle : {"none", "tmp", "zip"}, wiped : BOOLEAN, sha : Nat, entry : Nat]
FetchPcs ==
    Ended \union {"download", "attempt", "get", "body", "finalize", "rename", "verify", "extract", "open",
                  "copy", "cleanup"}
FetchTypes ==
    /\ disk \in Dirs /\ fpc \in [Fetchers -> FetchPcs] /\ task \in [Fetchers -> FetchStates]
    /\ contended \in BOOLEAN

\* Fetches that never ran at the same time: one is under way at most.
OneFetch == \A f, g \in Fetchers : fpc[f] \notin Ended /\ fpc[g] \notin Ended => f = g
\* The tmp file is a prefix of the body, and no longer than it.
TmpIsPrefix == disk.tmp = NoFile \/ (Len(disk.tmp) <= Total /\ Run(disk.tmp, 0))
WholeOrNone == {disk.zip, disk.pin} \subseteq {Body, NoFile}
\* The fetch under way asks for what is missing, appends where the file ends, and
\* renames a file it found to be whole.
InPlace(f) ==
    /\ fpc[f] = "get" => task[f].at = Size(disk.tmp)
    /\ fpc[f] = "body" => disk.tmp # NoFile /\ task[f].handle = "tmp" /\ task[f].at = Len(disk.tmp)
    /\ fpc[f] = "rename" => disk.tmp # NoFile /\ Len(disk.tmp) = Total
FetchInv ==
    /\ FetchTypes
    /\ ~contended => OneFetch /\ TmpIsPrefix /\ WholeOrNone /\ \A f \in Fetchers : InPlace(f)

----------------------------------------------------------------------------
(* The download: steps                                                      *)

LEMMA FetchStateTypes ==
    /\ NoFetch \in FetchStates
    /\ [NoFetch EXCEPT !.sha = 1] \in FetchStates /\ [NoFetch EXCEPT !.entry = 1] \in FetchStates
    /\ \A r \in FetchStates :
          /\ \A n \in Nat : /\ [r EXCEPT !.attempt = n] \in FetchStates /\ [r EXCEPT !.at = n] \in FetchStates
                            /\ [r EXCEPT !.entry = n] \in FetchStates
          /\ \A h \in {"none", "tmp", "zip"} : [r EXCEPT !.handle = h] \in FetchStates
          /\ [r EXCEPT !.wiped = TRUE] \in FetchStates
          /\ r.attempt + 1 \in Nat /\ r.at + 1 \in Nat /\ r.entry + 1 \in Nat
  <1>1. NoFetch \in FetchStates /\ [NoFetch EXCEPT !.sha = 1] \in FetchStates
        /\ [NoFetch EXCEPT !.entry = 1] \in FetchStates
    BY DEF NoFetch, FetchStates
  <1>2. ASSUME NEW r \in FetchStates
        PROVE  /\ \A n \in Nat : /\ [r EXCEPT !.attempt = n] \in FetchStates
                                 /\ [r EXCEPT !.at = n] \in FetchStates
                                 /\ [r EXCEPT !.entry = n] \in FetchStates
               /\ \A h \in {"none", "tmp", "zip"} : [r EXCEPT !.handle = h] \in FetchStates
               /\ [r EXCEPT !.wiped = TRUE] \in FetchStates
    BY DEF FetchStates
  <1>3. ASSUME NEW r \in FetchStates
        PROVE  r.attempt + 1 \in Nat /\ r.at + 1 \in Nat /\ r.entry + 1 \in Nat
    <2>1. r.attempt \in Nat /\ r.at \in Nat /\ r.entry \in Nat
      BY DEF FetchStates
    <2> QED
      BY <2>1
  <1> QED
    BY <1>1, <1>2, <1>3

(* A fetch ends with, or restarts from, no state of its own.                *)
LEMMA FinishTypes ==
    ASSUME FetchTypes, NEW f \in Fetchers, NEW l \in FetchPcs, Finish(f, l)
    PROVE  /\ fpc' = [fpc EXCEPT ![f] = l] /\ fpc' \in [Fetchers -> FetchPcs] /\ fpc'[f] = l
           /\ task' \in [Fetchers -> FetchStates]
  BY FetchStateTypes DEF FetchTypes, Finish, Goto

(* The files the provers meet, and the paths of the program counter.        *)
LEMMA FileTypes ==
    /\ NoFile \in Seq(Nat) /\ <<>> \in Seq(Nat) /\ Len(<<>>) = 0 /\ <<>> # NoFile
    /\ Run(<<>>, 0) /\ EmptyDir \in Dirs /\ Total \in Nat /\ Total > 0
  <1>1. NoFile \in Seq(Nat) /\ <<>> \in Seq(Nat) /\ Len(<<>>) = 0 /\ <<>> # NoFile
    BY DEF NoFile
  <1>2. Run(<<>>, 0)
    BY DEF Run
  <1>3. EmptyDir \in Dirs
    BY <1>1 DEF EmptyDir, Dirs
  <1>4. Total \in Nat /\ Total > 0
    BY TotalAssumption
  <1> QED
    BY <1>1, <1>2, <1>3, <1>4

(* A prefix of the body as long as the body is the body.                    *)
LEMMA WholePrefix ==
    ASSUME NEW s \in Seq(Nat), Run(s, 0), Len(s) = Total
    PROVE  s = Body
  <1>1. s = [i \in 1..Total |-> s[i]]
    BY LenProperties
  <1>2. \A i \in 1..Total : s[i] = i
    BY TotalAssumption DEF Run
  <1> QED
    BY <1>1, <1>2 DEF Body

(* A step of the only fetch under way.                                      *)
LEMMA OnlyFetchMoves ==
    ASSUME FetchTypes, NEW f \in Fetchers, NEW l \in FetchPcs, fpc' = [fpc EXCEPT ![f] = l],
           \A g \in Fetchers \ {f} : fpc[g] \in Ended
    PROVE  /\ OneFetch' /\ fpc'[f] = l
           /\ \A g \in Fetchers \ {f} : InPlace(g)'
  <1>1. fpc'[f] = l /\ \A g \in Fetchers \ {f} : fpc'[g] \in Ended
    BY DEF FetchTypes
  <1>2. OneFetch'
    BY <1>1 DEF OneFetch
  <1>3. \A g \in Fetchers \ {f} : InPlace(g)'
    BY <1>1 DEF InPlace, Ended
  <1> QED
    BY <1>1, <1>2, <1>3

(* What Again and is_reqwest_error_retryable do.                            *)
LEMMA AgainTypes ==
    ASSUME FetchTypes, NEW f \in Fetchers, is_reqwest_error_retryable(f) \/ Again(f)
    PROVE  /\ task' \in [Fetchers -> FetchStates]
           /\ \E l \in {"failed", "attempt"} : fpc' = [fpc EXCEPT ![f] = l]
  <1>1. CASE Finish(f, "failed")
    BY <1>1, FinishTypes DEF FetchPcs, Ended
  <1>2. CASE ~Finish(f, "failed")
    <2> DEFINE r == [task[f] EXCEPT !.attempt = @ + 1]
               q == [r EXCEPT !.at = 0]
               p == [q EXCEPT !.handle = "none"]
    <2>1. /\ fpc' = [fpc EXCEPT ![f] = "attempt"]
          /\ task' = [task EXCEPT ![f].attempt = @ + 1, ![f].at = 0, ![f].handle = "none"]
      BY <1>2 DEF is_reqwest_error_retryable, Again, Goto
    <2>2. task' = [task EXCEPT ![f] = p]
      BY <2>1 DEF FetchTypes
    <2>3. task[f] \in FetchStates
      BY DEF FetchTypes
    <2>4. p \in FetchStates
      BY <2>3, FetchStateTypes
    <2> HIDE DEF p
    <2> QED
      BY <2>1, <2>2, <2>4 DEF FetchTypes
  <1> QED
    BY <1>1, <1>2

LEMMA UnlinkTypes ==
    ASSUME FetchTypes, NEW names
    PROVE  Unlink(names) \in [Fetchers -> FetchStates]
  <1>1. ASSUME NEW g \in Fetchers
        PROVE  [task[g] EXCEPT !.handle = IF @ \in names THEN "none" ELSE @] \in FetchStates
    BY DEF FetchTypes, FetchStates
  <1> QED
    BY <1>1 DEF Unlink

LEMMA WipeTypes ==
    ASSUME FetchTypes, NEW f \in Fetchers, WipeAndRetry(f)
    PROVE  /\ task' \in [Fetchers -> FetchStates]
           /\ \E l \in {"failed", "download"} : fpc' = [fpc EXCEPT ![f] = l]
           /\ disk' = disk \/ disk' = [disk EXCEPT !.zip = NoFile, !.tmp = NoFile]
  <1>1. CASE task[f].sha = 1
    BY <1>1, FinishTypes DEF WipeAndRetry, FetchPcs, Ended
  <1>2. CASE task[f].sha # 1
    <2>1. Unlink({"zip", "tmp"}) \in [Fetchers -> FetchStates]
      BY UnlinkTypes
    <2> QED
      BY <1>2, <2>1, FetchStateTypes DEF WipeAndRetry, Goto, FetchTypes
  <1> QED
    BY <1>1, <1>2

LEMMA FetchTypesStep ==
    ASSUME FetchTypes, [FetchNext]_fetchVars
    PROVE  FetchTypes'
  <1> USE DEF Stay
  <1>0. /\ disk \in Dirs /\ contended \in BOOLEAN /\ fpc \in [Fetchers -> FetchPcs]
        /\ task \in [Fetchers -> FetchStates] /\ disk.tmp \in Seq(Nat) /\ disk.zip \in Seq(Nat)
    BY DEF FetchTypes, Dirs
  <1>1. CASE UNCHANGED fetchVars
    BY <1>1 DEF fetchVars, FetchTypes
  <1>2. CASE fetch_dies
    BY <1>2, FetchStateTypes DEF fetch_dies, FetchTypes, FetchPcs, Ended
  <1>3. ASSUME NEW f \in Fetchers, fetch_again(f)
        PROVE  FetchTypes'
    BY <1>3 DEF fetch_again, Goto, FetchTypes, FetchPcs, Ended
  <1>4. ASSUME NEW f \in Fetchers, FetchStep(f)
        PROVE  FetchTypes'
    <2>0. task[f] \in FetchStates
      BY <1>0
    <2>1. CASE fetch(f)
      <3>1. PICK l \in {"failed", "ok", "download"} : Finish(f, l)
        BY <2>1 DEF fetch
      <3> QED
        BY <2>1, <3>1, FinishTypes DEF fetch, FetchTypes, FetchPcs, Ended
    <2>2. CASE download_zip(f)
      <3>1. [task[f] EXCEPT !.attempt = 1] \in FetchStates
        BY <2>0, FetchStateTypes
      <3> QED
        BY <2>2, <3>1, FinishTypes DEF download_zip, Goto, FetchTypes, FetchPcs, Ended
    <2>3. CASE loop_head(f)
      <3> DEFINE n == Size(disk.tmp)
      <3>1. n \in Nat
        BY <1>0, LenProperties DEF Size
      <3>2. disk' \in Dirs
        BY <1>0, <2>3, FileTypes DEF loop_head, Dirs
      <3> HIDE DEF n
      <3>3. [task[f] EXCEPT !.at = n] \in FetchStates
        BY <2>0, <3>1, FetchStateTypes
      <3>4. \/ Goto(f, "finalize") /\ UNCHANGED task
            \/ Goto(f, "get") /\ task' = [task EXCEPT ![f].at = n]
            \/ Finish(f, "failed")
        BY <2>3 DEF loop_head, n
      <3>5. fpc' \in [Fetchers -> FetchPcs] /\ task' \in [Fetchers -> FetchStates]
        BY <1>0, <3>3, <3>4, FinishTypes DEF Goto, FetchPcs, Ended
      <3> QED
        BY <1>0, <2>3, <3>2, <3>5 DEF loop_head, FetchTypes
    <2>4. CASE get_refused(f) \/ body_breaks(f)
      BY <1>0, <2>4, AgainTypes DEF get_refused, body_breaks, FetchTypes, FetchPcs, Ended
    <2>5. CASE get_416(f)
      <3>1. disk' \in Dirs
        BY <1>0, <2>5, FileTypes DEF get_416, Dirs
      <3> DEFINE r == [task[f] EXCEPT !.wiped = TRUE]
                 q == [r EXCEPT !.attempt = @ + 1]
                 p == [q EXCEPT !.at = 0]
      <3>2. p \in FetchStates
        BY <2>0, FetchStateTypes
      <3>3. \/ Finish(f, "failed")
            \/ Goto(f, "attempt") /\ task' = [task EXCEPT ![f] = p]
        <4>1. \/ Finish(f, "failed")
              \/ /\ Goto(f, "attempt")
                 /\ task' = [task EXCEPT ![f].wiped = TRUE, ![f].attempt = @ + 1, ![f].at = 0]
          BY <2>5 DEF get_416
        <4>2. [task EXCEPT ![f].wiped = TRUE, ![f].attempt = @ + 1, ![f].at = 0] = [task EXCEPT ![f] = p]
          BY <1>0
        <4> QED
          BY <4>1, <4>2
      <3> HIDE DEF p
      <3>4. fpc' \in [Fetchers -> FetchPcs] /\ task' \in [Fetchers -> FetchStates]
        BY <1>0, <3>2, <3>3, FinishTypes DEF Goto, FetchPcs, Ended
      <3> QED
        BY <1>0, <2>5, <3>1, <3>4 DEF get_416, FetchTypes
    <2>6. CASE get_206(f)
      <3>1. disk' \in Dirs
        BY <1>0, <2>6, FileTypes DEF get_206, Opened, Dirs
      <3>2. [task[f] EXCEPT !.handle = "tmp"] \in FetchStates
        BY <2>0, FetchStateTypes
      <3> QED
        BY <1>0, <2>6, <3>1, <3>2 DEF get_206, Goto, FetchTypes, FetchPcs
    <2>7. CASE get_200(f)
      <3>1. disk' \in Dirs
        BY <1>0, <2>7, FileTypes DEF get_200, Opened, Dirs
      <3> DEFINE r == [task[f] EXCEPT !.at = 0]
                 p == [r EXCEPT !.handle = "tmp"]
      <3>2. p \in FetchStates
        BY <2>0, FetchStateTypes
      <3>3. task' = [task EXCEPT ![f] = p]
        BY <1>0, <2>7 DEF get_200
      <3> HIDE DEF p
      <3> QED
        BY <1>0, <2>7, <3>1, <3>2, <3>3 DEF get_200, Goto, FetchTypes, FetchPcs
    <2>8. CASE body_bytes(f)
      <3>1. task[f].at + 1 \in Nat /\ [task[f] EXCEPT !.at = task[f].at + 1] \in FetchStates
        BY <2>0, FetchStateTypes
      <3>2. Append(disk.tmp, task[f].at + 1) \in Seq(Nat) /\ Append(disk.zip, task[f].at + 1) \in Seq(Nat)
        BY <1>0, <3>1, AppendProperties
      <3>3. /\ [disk EXCEPT !.tmp = Append(disk.tmp, task[f].at + 1)] \in Dirs
            /\ [disk EXCEPT !.zip = Append(disk.zip, task[f].at + 1)] \in Dirs
        BY <1>0, <3>2 DEF Dirs
      <3>4. disk' \in Dirs
        BY <1>0, <2>8, <3>3 DEF body_bytes, Appended
      <3> QED
        BY <1>0, <2>8, <3>1, <3>4 DEF body_bytes, FetchTypes
    <2>9. CASE body_eof(f)
      <3> DEFINE r == [task[f] EXCEPT !.at = 0]
                 p == [r EXCEPT !.handle = "none"]
      <3>1. p \in FetchStates
        BY <2>0, FetchStateTypes
      <3>2. (Goto(f, "finalize") /\ task' = [task EXCEPT ![f] = p]) \/ Again(f)
        BY <1>0, <2>9 DEF body_eof
      <3> HIDE DEF p
      <3>3. fpc' \in [Fetchers -> FetchPcs] /\ task' \in [Fetchers -> FetchStates]
        BY <1>0, <3>1, <3>2, AgainTypes DEF Goto, FetchPcs, Ended
      <3> QED
        BY <1>0, <2>9, <3>3 DEF body_eof, FetchTypes
    <2>10. CASE finalize_stat(f)
      BY <1>0, <2>10, FinishTypes DEF finalize_stat, Goto, FetchTypes, FetchPcs, Ended
    <2>11. CASE finalize_rename(f)
      <3>1. CASE disk.tmp = NoFile
        BY <1>0, <2>11, <3>1, FinishTypes DEF finalize_rename, FetchTypes, FetchPcs, Ended
      <3>2. CASE disk.tmp # NoFile
        <4>1. disk' \in Dirs
          BY <1>0, <2>11, <3>2, FileTypes DEF finalize_rename, Dirs
        <4>2. ASSUME NEW g \in Fetchers
              PROVE  [task[g] EXCEPT !.handle = CASE @ = "tmp" -> "zip" [] @ = "zip" -> "none" [] OTHER -> @]
                         \in FetchStates
          BY <1>0 DEF FetchStates
        <4>3. task' \in [Fetchers -> FetchStates]
          BY <2>11, <3>2, <4>2 DEF finalize_rename
        <4> QED
          BY <1>0, <2>11, <3>2, <4>1, <4>3 DEF finalize_rename, Goto, FetchTypes, FetchPcs
      <3> QED
        BY <3>1, <3>2
    <2>12. CASE verify_against(f) \/ sha256_hex(f)
      <3>1. CASE WipeAndRetry(f)
        <4>1. disk' \in Dirs
          BY <1>0, <3>1, WipeTypes, FileTypes DEF Dirs
        <4> QED
          BY <1>0, <2>12, <3>1, <4>1, WipeTypes DEF verify_against, sha256_hex, FetchTypes, FetchPcs, Ended
      <3>2. CASE ~WipeAndRetry(f)
        <4>1. disk' \in Dirs
          BY <1>0, <2>12, <3>2 DEF verify_against, sha256_hex, Dirs
        <4> QED
          BY <1>0, <2>12, <3>2, <4>1 DEF verify_against, sha256_hex, Goto, FetchTypes, FetchPcs
      <3> QED
        BY <3>1, <3>2
    <2>13. CASE extract(f)
      <3>1. Unlink({"zip", "tmp"}) \in [Fetchers -> FetchStates]
        BY UnlinkTypes
      <3> QED
        BY <1>0, <2>13, <3>1, FileTypes DEF extract, Goto, FetchTypes, FetchPcs
    <2>14. CASE extract_open(f)
      BY <1>0, <2>14, FinishTypes, FetchStateTypes DEF extract_open, Goto, FetchTypes, FetchPcs, Ended
    <2>15. CASE extract_entry(f)
      <3>1. task[f].entry + 1 \in Nat /\ [task[f] EXCEPT !.entry = task[f].entry + 1] \in FetchStates
        BY <2>0, FetchStateTypes
      <3>2. task[f].entry \in Nat
        BY <2>0 DEF FetchStates
      <3>3. disk' \in Dirs
        BY <1>0, <2>15, <3>2 DEF extract_entry, Dirs
      <3> QED
        BY <1>0, <2>15, <3>1, <3>3 DEF extract_entry, FetchTypes
    <2>16. CASE mark_complete(f)
      <3>1. disk' \in Dirs
        BY <1>0, <2>16 DEF mark_complete, Dirs
      <3> QED
        BY <1>0, <2>16, <3>1 DEF mark_complete, Goto, FetchTypes, FetchPcs
    <2>17. CASE cleanup(f)
      <3>1. disk' \in Dirs
        BY <1>0, <2>17, FileTypes DEF cleanup, Dirs
      <3>2. Unlink({"zip"}) \in [Fetchers -> FetchStates]
        BY UnlinkTypes
      <3>3. task' \in [Fetchers -> FetchStates]
        BY <2>17, <3>2, FetchStateTypes DEF cleanup
      <3> QED
        BY <1>0, <2>17, <3>1, <3>3 DEF cleanup, Goto, FetchTypes, FetchPcs, Ended
    <2> QED
      BY <1>4, <2>1, <2>2, <2>3, <2>4, <2>5, <2>6, <2>7, <2>8, <2>9, <2>10, <2>11, <2>12, <2>13, <2>14,
         <2>15, <2>16, <2>17 DEF FetchStep
  <1> QED
    BY <1>1, <1>2, <1>3, <1>4 DEF FetchNext

\* What holds of the directory and of the fetch under way.
Exact == TmpIsPrefix /\ WholeOrNone /\ \A f \in Fetchers : InPlace(f)

(* A step of the only fetch under way that leaves the files alone, and does *)
(* not go where something is asked of them.                                 *)
LEMMA SameFiles ==
    ASSUME FetchTypes, Exact, NEW f \in Fetchers, disk' = disk,
           \E l \in FetchPcs \ {"get", "body", "rename"} : fpc' = [fpc EXCEPT ![f] = l],
           \A g \in Fetchers \ {f} : fpc[g] \in Ended
    PROVE  OneFetch' /\ Exact'
  <1>1. PICK l \in FetchPcs \ {"get", "body", "rename"} : fpc' = [fpc EXCEPT ![f] = l]
    OBVIOUS
  <1>2. OneFetch' /\ fpc'[f] = l /\ \A g \in Fetchers \ {f} : InPlace(g)'
    BY <1>1, OnlyFetchMoves
  <1>3. InPlace(f)'
    BY <1>2 DEF InPlace
  <1>4. TmpIsPrefix' /\ WholeOrNone'
    BY DEF Exact, TmpIsPrefix, WholeOrNone
  <1> QED
    BY <1>2, <1>3, <1>4 DEF Exact

(* The same, with a tmp file that is gone or empty.                         *)
LEMMA FilesWiped ==
    ASSUME FetchTypes, Exact, NEW f \in Fetchers,
           disk'.tmp \in {NoFile, <<>>}, disk'.zip \in {disk.zip, NoFile}, disk'.pin \in {disk.pin, NoFile},
           \E l \in FetchPcs \ {"get", "body", "rename"} : fpc' = [fpc EXCEPT ![f] = l],
           \A g \in Fetchers \ {f} : fpc[g] \in Ended
    PROVE  OneFetch' /\ Exact'
  <1>1. PICK l \in FetchPcs \ {"get", "body", "rename"} : fpc' = [fpc EXCEPT ![f] = l]
    OBVIOUS
  <1>2. OneFetch' /\ fpc'[f] = l /\ \A g \in Fetchers \ {f} : InPlace(g)'
    BY <1>1, OnlyFetchMoves
  <1>3. InPlace(f)'
    BY <1>2 DEF InPlace
  <1>4. TmpIsPrefix'
    <2>1. CASE disk'.tmp = <<>>
      <3>1. Len(disk'.tmp) <= Total /\ Run(disk'.tmp, 0)
        BY <2>1, FileTypes
      <3> QED
        BY <3>1 DEF TmpIsPrefix
    <2> QED
      BY <2>1 DEF TmpIsPrefix
  <1>5. WholeOrNone'
    BY DEF Exact, WholeOrNone
  <1> QED
    BY <1>2, <1>3, <1>4, <1>5 DEF Exact

(* Every step of the only fetch under way.                                  *)
LEMMA ExactStep ==
    ASSUME FetchTypes, FetchTypes', Exact, NEW f \in Fetchers, FetchStep(f),
           \A g \in Fetchers \ {f} : fpc[g] \in Ended
    PROVE  OneFetch' /\ Exact'
  <1>0. /\ disk \in Dirs /\ disk.tmp \in Seq(Nat) /\ Len(disk.tmp) \in Nat /\ task[f] \in FetchStates
        /\ task[f].at \in Nat /\ fpc \in [Fetchers -> FetchPcs] /\ task \in [Fetchers -> FetchStates]
    BY LenProperties DEF FetchTypes, Dirs, FetchStates
  <1>1. TmpIsPrefix /\ WholeOrNone /\ InPlace(f)
    BY DEF Exact
  <1> USE DEF FetchPcs, Ended
  \* Steps that leave the files alone.
  <1>2. CASE fetch(f)
    <2>1. PICK l \in {"failed", "ok", "download"} : Finish(f, l)
      BY <1>2 DEF fetch
    <2> QED
      BY <1>2, <2>1, SameFiles DEF fetch, Finish, Goto
  <1>3. CASE download_zip(f)
    BY <1>3, SameFiles DEF download_zip, Finish, Goto
  <1>4. CASE get_refused(f) \/ body_breaks(f)
    <2>1. PICK l \in {"failed", "attempt"} : fpc' = [fpc EXCEPT ![f] = l]
      BY <1>4, AgainTypes DEF get_refused, body_breaks
    <2> QED
      BY <1>4, <2>1, SameFiles DEF get_refused, body_breaks
  <1>5. CASE body_eof(f)
    <2>1. PICK l \in {"failed", "attempt", "finalize"} : fpc' = [fpc EXCEPT ![f] = l]
      BY <1>5, AgainTypes DEF body_eof, Goto
    <2> QED
      BY <1>5, <2>1, SameFiles DEF body_eof
  <1>6. CASE extract_open(f)
    BY <1>6, SameFiles DEF extract_open, Finish, Goto
  \* The offset asked for is the size of the tmp file, which is not too long.
  <1>7. CASE loop_head(f)
    <2>1. Size(disk.tmp) \in Nat /\ Size(disk.tmp) <= Total
      BY <1>0, <1>1, FileTypes DEF Size, TmpIsPrefix
    <2>2. disk' = disk
      BY <1>7, <2>1, FileTypes DEF loop_head
    <2>3. CASE Goto(f, "get") /\ task' = [task EXCEPT ![f].at = Size(disk.tmp)]
      <3>1. /\ OneFetch' /\ fpc'[f] = "get" /\ \A g \in Fetchers \ {f} : InPlace(g)'
        BY <2>3, OnlyFetchMoves DEF Goto
      <3>2. task'[f].at = Size(disk.tmp)
        BY <1>0, <2>3 DEF FetchStates
      <3>3. InPlace(f)'
        BY <2>2, <3>1, <3>2 DEF InPlace
      <3> QED
        BY <1>1, <2>2, <3>1, <3>3 DEF Exact, TmpIsPrefix, WholeOrNone
    <2>4. CASE Goto(f, "finalize") \/ Finish(f, "failed")
      BY <2>2, <2>4, SameFiles DEF Finish, Goto
    <2> QED
      BY <1>7, <2>3, <2>4 DEF loop_head
  <1>8. CASE get_416(f)
    <2>1. PICK l \in {"failed", "attempt"} : fpc' = [fpc EXCEPT ![f] = l]
      BY <1>8 DEF get_416, Finish, Goto
    <2>2. CASE task[f].wiped
      BY <1>8, <2>1, <2>2, SameFiles DEF get_416
    <2>3. CASE ~task[f].wiped
      <3>1. disk'.tmp = <<>> /\ disk'.zip = disk.zip /\ disk'.pin = disk.pin
        BY <1>0, <1>8, <2>3 DEF get_416, Dirs
      <3> QED
        BY <2>1, <3>1, FilesWiped
    <2> QED
      BY <2>2, <2>3
  \* The body begins where the tmp file ends.
  <1>9. CASE get_206(f) \/ get_200(f)
    <2>1. /\ OneFetch' /\ fpc'[f] = "body" /\ \A g \in Fetchers \ {f} : InPlace(g)'
      BY <1>9, OnlyFetchMoves DEF get_206, get_200, Goto
    <2>2. disk'.zip = disk.zip /\ disk'.pin = disk.pin
      BY <1>0, <1>9 DEF get_206, get_200, Dirs
    <2>3. task[f].at = Size(disk.tmp)
      BY <1>1, <1>9 DEF InPlace, get_206, get_200
    <2>4. CASE get_206(f)
      <3>1. disk.tmp # NoFile /\ task[f].at = Len(disk.tmp)
        BY <2>3, <2>4 DEF get_206, Size
      <3>2. disk'.tmp = disk.tmp /\ task'[f].at = task[f].at /\ task'[f].handle = "tmp"
        BY <1>0, <2>4, <3>1 DEF get_206, Opened, Dirs, FetchStates
      <3>3. InPlace(f)'
        BY <2>1, <3>1, <3>2 DEF InPlace
      <3>4. TmpIsPrefix' /\ WholeOrNone'
        BY <1>1, <2>2, <3>2 DEF TmpIsPrefix, WholeOrNone
      <3> QED
        BY <2>1, <3>3, <3>4 DEF Exact
    <2>5. CASE get_200(f)
      <3>1. disk'.tmp = <<>>
        <4>1. disk'.tmp = IF task[f].at > 0 THEN <<>> ELSE Opened(disk.tmp)
          BY <1>0, <2>5 DEF get_200, Dirs
        <4>2. ASSUME ~(task[f].at > 0)
              PROVE  Opened(disk.tmp) = <<>>
          <5>1. task[f].at = 0
            BY <1>0, <4>2
          <5>2. CASE disk.tmp = NoFile
            BY <5>2 DEF Opened
          <5>3. CASE disk.tmp # NoFile
            <6>1. Len(disk.tmp) = 0
              BY <2>3, <5>1, <5>3 DEF Size
            <6>2. disk.tmp = <<>>
              BY <1>0, <6>1, EmptySeq
            <6> QED
              BY <5>3, <6>2 DEF Opened
          <5> QED
            BY <5>2, <5>3
        <4> QED
          BY <4>1, <4>2
      <3>2. task'[f].at = 0 /\ task'[f].handle = "tmp"
        BY <1>0, <2>5 DEF get_200, FetchStates
      <3>3. disk'.tmp # NoFile /\ Len(disk'.tmp) = 0 /\ Len(disk'.tmp) <= Total /\ Run(disk'.tmp, 0)
        BY <3>1, FileTypes
      <3>4. InPlace(f)'
        BY <2>1, <3>2, <3>3 DEF InPlace
      <3>5. TmpIsPrefix' /\ WholeOrNone'
        BY <1>1, <2>2, <3>3 DEF TmpIsPrefix, WholeOrNone
      <3> QED
        BY <2>1, <3>4, <3>5 DEF Exact
    <2> QED
      BY <1>9, <2>4, <2>5
  \* The next piece goes to the end of the tmp file.
  <1>10. CASE body_bytes(f)
    <2>1. /\ disk.tmp # NoFile /\ task[f].handle = "tmp" /\ task[f].at = Len(disk.tmp)
          /\ task[f].at < Total /\ fpc[f] = "body"
      BY <1>1, <1>10 DEF InPlace, body_bytes
    <2>2. Run(disk.tmp, 0)
      BY <1>1, <2>1 DEF TmpIsPrefix
    <2> DEFINE u == Append(disk.tmp, 0 + Len(disk.tmp) + 1)
    <2>3. u = Append(disk.tmp, task[f].at + 1)
      BY <1>0, <2>1
    <2>4. u \in Seq(Nat) /\ Len(u) = Len(disk.tmp) + 1 /\ Run(u, 0)
      BY <1>0, <2>2, RunAppend
    <2>5. u # NoFile
      <3>1. 1 \in 1..Len(u)
        BY <1>0, <2>4
      <3>2. u[1] = 1
        BY <2>4, <3>1 DEF Run
      <3>3. NoFile[1] = 0
        BY DEF NoFile
      <3> HIDE DEF u
      <3> QED
        BY <3>2, <3>3
    <2>6. disk' = [disk EXCEPT !.tmp = u]
      BY <1>10, <2>1, <2>3 DEF body_bytes, Appended
    <2> HIDE DEF u
    <2>7. disk'.tmp = u /\ disk'.zip = disk.zip /\ disk'.pin = disk.pin
      BY <1>0, <2>6 DEF Dirs
    <2>8. fpc' = fpc /\ task'[f].handle = "tmp" /\ task'[f].at = Len(u)
      BY <1>0, <1>10, <2>1, <2>4 DEF body_bytes, FetchStates
    <2>9. fpc' = [fpc EXCEPT ![f] = "body"]
      BY <1>0, <2>1, <2>8
    <2>10. OneFetch' /\ fpc'[f] = "body" /\ \A g \in Fetchers \ {f} : InPlace(g)'
      BY <2>9, OnlyFetchMoves
    <2>11. InPlace(f)'
      BY <2>5, <2>7, <2>8, <2>10 DEF InPlace
    <2>12. Len(u) <= Total
      BY <1>0, <2>1, <2>4, FileTypes
    <2>13. TmpIsPrefix' /\ WholeOrNone'
      BY <1>1, <2>4, <2>7, <2>12 DEF TmpIsPrefix, WholeOrNone
    <2> QED
      BY <2>10, <2>11, <2>13 DEF Exact
  \* Only a whole file is renamed.
  <1>11. CASE finalize_stat(f)
    <2>1. disk' = disk
      BY <1>11 DEF finalize_stat
    <2>2. CASE disk.tmp # NoFile /\ Len(disk.tmp) = Total /\ Goto(f, "rename")
      <3>1. OneFetch' /\ fpc'[f] = "rename" /\ \A g \in Fetchers \ {f} : InPlace(g)'
        BY <2>2, OnlyFetchMoves DEF Goto
      <3>2. InPlace(f)'
        BY <2>1, <2>2, <3>1 DEF InPlace
      <3> QED
        BY <1>1, <2>1, <3>1, <3>2 DEF Exact, TmpIsPrefix, WholeOrNone
    <2>3. CASE Finish(f, "failed")
      BY <2>1, <2>3, SameFiles DEF Finish, Goto
    <2> QED
      BY <1>11, <2>2, <2>3 DEF finalize_stat
  <1>12. CASE finalize_rename(f)
    <2>1. disk.tmp # NoFile /\ Len(disk.tmp) = Total /\ Run(disk.tmp, 0)
      BY <1>1, <1>12 DEF InPlace, TmpIsPrefix, finalize_rename
    <2>2. disk.tmp = Body
      BY <1>0, <2>1, WholePrefix
    <2>3. disk'.zip = Body /\ disk'.tmp = NoFile /\ disk'.pin = disk.pin /\ fpc' = [fpc EXCEPT ![f] = "verify"]
      BY <1>0, <1>12, <2>1, <2>2 DEF finalize_rename, Dirs, Goto
    <2>4. OneFetch' /\ fpc'[f] = "verify" /\ \A g \in Fetchers \ {f} : InPlace(g)'
      BY <2>3, OnlyFetchMoves
    <2>5. InPlace(f)'
      BY <2>4 DEF InPlace
    <2> QED
      BY <1>1, <2>3, <2>4, <2>5 DEF Exact, TmpIsPrefix, WholeOrNone
  \* Only a whole file is pinned.
  <1>13. CASE verify_against(f) \/ sha256_hex(f)
    <2>1. CASE WipeAndRetry(f)
      <3>1. PICK l \in {"failed", "download"} : fpc' = [fpc EXCEPT ![f] = l]
        BY <2>1, WipeTypes
      <3>2. CASE disk' = disk
        BY <3>1, <3>2, SameFiles
      <3>3. CASE disk' = [disk EXCEPT !.zip = NoFile, !.tmp = NoFile]
        <4>1. disk'.zip = NoFile /\ disk'.tmp = NoFile /\ disk'.pin = disk.pin
          BY <1>0, <3>3 DEF Dirs
        <4> QED
          BY <3>1, <4>1, FilesWiped
      <3> QED
        BY <2>1, <3>2, <3>3, WipeTypes
    <2>2. CASE Goto(f, "extract") /\ (disk' = disk \/ disk' = [disk EXCEPT !.pin = disk.zip])
      <3>1. OneFetch' /\ fpc'[f] = "extract" /\ \A g \in Fetchers \ {f} : InPlace(g)'
        BY <2>2, OnlyFetchMoves DEF Goto
      <3>2. InPlace(f)'
        BY <3>1 DEF InPlace
      <3>3. disk'.zip = disk.zip /\ disk'.tmp = disk.tmp /\ disk'.pin \in {disk.pin, disk.zip}
        BY <1>0, <2>2 DEF Dirs
      <3> QED
        BY <1>1, <3>1, <3>2, <3>3 DEF Exact, TmpIsPrefix, WholeOrNone
    <2> QED
      BY <1>13, <2>1, <2>2 DEF verify_against, sha256_hex
  <1>14. CASE extract(f)
    <2>1. CASE is_complete
      BY <1>14, <2>1, SameFiles DEF extract, Goto
    <2>2. CASE ~is_complete
      <3>1. disk'.zip = NoFile /\ disk'.tmp = NoFile /\ disk'.pin = NoFile
        BY <1>14, <2>2 DEF extract, EmptyDir
      <3> QED
        BY <1>14, <2>2, <3>1, FilesWiped DEF extract, Goto
    <2> QED
      BY <2>1, <2>2
  \* What is extracted, and the end.
  <1>15. CASE extract_entry(f) \/ mark_complete(f) \/ cleanup(f)
    <2>1. PICK l \in {"copy", "cleanup", "ok", "failed"} : fpc' = [fpc EXCEPT ![f] = l]
      BY <1>0, <1>15 DEF extract_entry, mark_complete, cleanup, Goto
    <2>2. disk'.tmp = disk.tmp /\ disk'.pin = disk.pin /\ disk'.zip \in {disk.zip, NoFile}
      BY <1>0, <1>15 DEF extract_entry, mark_complete, cleanup, Dirs
    <2>3. OneFetch' /\ fpc'[f] = l /\ \A g \in Fetchers \ {f} : InPlace(g)'
      BY <2>1, OnlyFetchMoves
    <2>4. InPlace(f)'
      BY <2>3 DEF InPlace
    <2> QED
      BY <1>1, <2>2, <2>3, <2>4 DEF Exact, TmpIsPrefix, WholeOrNone
  <1> QED
    BY <1>2, <1>3, <1>4, <1>5, <1>6, <1>7, <1>8, <1>9, <1>10, <1>11, <1>12, <1>13, <1>14, <1>15 DEF FetchStep

(* The inductive invariant of the download: while fetches come one after    *)
(* the other, the tmp file is a prefix of the body, the fetch under way     *)
(* asks for and appends what comes next, and zip and pin are whole.         *)
THEOREM FetchInvariance == FetchSpec => []FetchInv
  <1>1. FetchInit => FetchInv
    <2> SUFFICES ASSUME FetchInit PROVE FetchInv
      OBVIOUS
    <2>1. FetchTypes
      BY FileTypes, FetchStateTypes DEF FetchInit, FetchTypes, FetchPcs, Ended
    <2>2. disk.tmp = NoFile /\ disk.zip = NoFile /\ disk.pin = NoFile
      BY DEF FetchInit, EmptyDir
    <2>3. \A f \in Fetchers : fpc[f] = "idle"
      BY DEF FetchInit
    <2> QED
      BY <2>1, <2>2, <2>3 DEF FetchInv, OneFetch, TmpIsPrefix, WholeOrNone, InPlace, Ended
  <1>2. FetchInv /\ [FetchNext]_fetchVars => FetchInv'
    <2> SUFFICES ASSUME FetchInv, [FetchNext]_fetchVars
                 PROVE  FetchInv'
      OBVIOUS
    <2>0. FetchTypes /\ FetchTypes'
      BY FetchTypesStep DEF FetchInv
    <2> SUFFICES ASSUME ~contended'
                 PROVE  OneFetch' /\ Exact'
      BY <2>0 DEF FetchInv, Exact
    <2>1. ASSUME ~contended
          PROVE  OneFetch /\ Exact
      BY <2>1 DEF FetchInv, Exact
    <2>2. CASE UNCHANGED fetchVars
      BY <2>1, <2>2 DEF fetchVars, OneFetch, Exact, TmpIsPrefix, WholeOrNone, InPlace
    <2>3. CASE fetch_dies
      <3>1. disk' = disk /\ contended' = contended /\ \A f \in Fetchers : fpc'[f] = "idle"
        BY <2>3 DEF fetch_dies
      <3> QED
        BY <2>1, <3>1 DEF OneFetch, Exact, TmpIsPrefix, WholeOrNone, InPlace, Ended
    <2>4. ASSUME NEW f \in Fetchers, fetch_again(f)
          PROVE  OneFetch' /\ Exact'
      <3>1. /\ disk' = disk /\ task' = task /\ contended' = contended
            /\ fpc'[f] = "idle" /\ \A g \in Fetchers \ {f} : fpc'[g] = fpc[g]
        BY <2>0, <2>4 DEF fetch_again, Goto, FetchTypes
      <3> QED
        BY <2>1, <3>1 DEF OneFetch, Exact, TmpIsPrefix, WholeOrNone, InPlace, Ended
    <2>5. ASSUME NEW f \in Fetchers, FetchStep(f)
          PROVE  OneFetch' /\ Exact'
      <3>1. CASE fetch(f)
        <4>1. ~contended /\ \A g \in Fetchers \ {f} : fpc[g] \in Ended
          BY <2>0, <3>1 DEF fetch, FetchTypes
        <4> QED
          BY <2>0, <2>1, <2>5, <4>1, ExactStep
      <3>2. CASE ~fetch(f)
        <4>1. contended' = contended /\ fpc[f] \notin Ended
          BY <2>5, <3>2 DEF FetchStep, download_zip, loop_head, get_refused, get_416, get_206, get_200,
             body_bytes, body_breaks, body_eof, finalize_stat, finalize_rename, verify_against, sha256_hex,
             extract, extract_open, extract_entry, mark_complete, cleanup, Stay, Ended
        <4>2. \A g \in Fetchers \ {f} : fpc[g] \in Ended
          BY <2>1, <4>1 DEF OneFetch
        <4> QED
          BY <2>0, <2>1, <2>5, <4>1, <4>2, ExactStep
      <3> QED
        BY <3>1, <3>2
    <2> QED
      BY <2>2, <2>3, <2>4, <2>5 DEF FetchNext
  <1> QED
    BY <1>1, <1>2, PTL DEF FetchSpec

(* Resuming is exact (chromium-fetcher: single_stream_to_tmp,               *)
(* stream_attempt, finalize, verify): whatever was cut, refused, answered   *)
(* in full or interrupted by a death of the broker, the zip and the pin are *)
(* those of the whole body, while no two fetches ran at the same time.      *)
THEOREM OnlyWholeZipsSafety == FetchSpec => []OnlyWholeZips
  <1>1. FetchInv => OnlyWholeZips
    BY DEF FetchInv, WholeOrNone, OnlyWholeZips
  <1> QED
    BY <1>1, FetchInvariance, PTL

============================================================================
