----------------------------- MODULE DriveProofs -----------------------------
(***************************************************************************)
(* For any number of jobs, any length of the assets, and any number of     *)
(* failed or lying transfers, pulled plugs and deaths of the app: what a   *)
(* job reports as done is on the medium, an update writes its boot sector  *)
(* last, and a job told to stop in time stops, alone.                      *)
(*                                                                         *)
(* The argument has three layers.  First the plans: each is cut into       *)
(* sections that never write a second area before they look at the stop    *)
(* flag, and never leave an area half written (PlanFacts).  Then the       *)
(* actions, seen from a job: it does the next step of its plan, it ends    *)
(* there, or something else happens that leaves its place alone (Event).   *)
(* Last the invariant, for each job by its place in its plan: who is       *)
(* registered, whom a stop has reached, what the limit of a stop is, how   *)
(* far it is to the next look, and what the drive holds of the job.        *)
(***************************************************************************)
EXTENDS DriveJobs, SequenceTheorems, WellFoundedInduction, FiniteSetTheorems, TLAPS

-----------------------------------------------------------------------------
(* The plans                                                               *)

\* What the steps of a plan are made of.
OpNames == {"enter", "show", "open", "look", "detect", "commit", "write", "sync", "poll", "read"}
Steps == {x \in [op : OpNames, area : Areas \cup {"none"}, n : Nat] :
             x.op \in {"write", "read"} => x.area \in Areas}

\* A place where a job that may still be stopped looks at its flag.
IsLook(x) == x.op = "poll" \/ (x.op = "show" /\ x.n < 97)
Writes(x, a) == x.op = "write" /\ x.area = a

\* Until it looks next, a job writes no other area than the one it is at.
TidyAt(s, i) ==
    \E m \in i + 1 .. Len(s) :
        /\ IsLook(s[m])
        /\ \A j \in i .. m - 1 : s[j].op = "write" => s[j].area = s[i].area
Tidy(s) == \A i \in 1 .. Len(s) : s[i].op = "write" => TidyAt(s, i)

\* An area that is not written to its end will be written again.
Closed(s) ==
    \A i \in 1 .. Len(s) : s[i].op = "write" /\ s[i].n # 1 =>
        \E j \in i + 1 .. Len(s) : Writes(s[j], s[i].area)

Section(s) == s \in Seq(Steps) /\ Tidy(s) /\ Closed(s)

LEMMA Concat ==
    ASSUME NEW s \in Seq(Steps), NEW t \in Seq(Steps)
    PROVE  /\ s \o t \in Seq(Steps) /\ Len(s \o t) = Len(s) + Len(t)
           /\ Len(s) \in Nat /\ Len(t) \in Nat
           /\ \A i \in 1 .. Len(s) : (s \o t)[i] = s[i]
           /\ \A i \in 1 .. Len(t) : (s \o t)[Len(s) + i] = t[i]
           /\ \A i \in Len(s) + 1 .. Len(s) + Len(t) : (s \o t)[i] = t[i - Len(s)]
  <1>1. Len(s) \in Nat /\ Len(t) \in Nat
    BY LenProperties
  <1> QED BY <1>1, ConcatProperties

LEMMA Regroup ==
    ASSUME NEW s \in Seq(Steps), NEW t \in Seq(Steps), NEW u \in Seq(Steps)
    PROVE  (s \o t) \o u = s \o (t \o u)
  BY ConcatAssociative

LEMMA RegroupAll ==
    ASSUME NEW s \in Seq(Steps), NEW t \in Seq(Steps), NEW u \in Seq(Steps), NEW v \in Seq(Steps)
    PROVE  ((s \o t) \o u) \o v = s \o (t \o (u \o v))
  <1> DEFINE x == t \o u
             y == u \o v
  <1>1. x \in Seq(Steps) /\ y \in Seq(Steps)
    BY ConcatProperties
  <1>2. (s \o t) \o u = s \o x
    BY Regroup
  <1>3. x \o v = t \o y
    BY Regroup
  <1> HIDE DEF x, y
  <1>4. (s \o x) \o v = s \o (x \o v)
    BY <1>1, Regroup
  <1> QED BY <1>2, <1>3, <1>4, Zenon DEF y

LEMMA Joined ==
    ASSUME NEW s \in Seq(Steps), NEW t \in Seq(Steps), NEW u \in Seq(Steps),
           Len(u) = Len(s) + Len(t),
           \A i \in 1 .. Len(s) : u[i] = s[i],
           \A i \in 1 .. Len(t) : u[Len(s) + i] = t[i]
    PROVE  s \o t = u
  <1> DEFINE n == Len(s)
             m == Len(t)
             v == s \o t
  <1>1. /\ n \in Nat /\ m \in Nat /\ v \in Seq(Steps) /\ Len(v) = n + m
        /\ \A i \in 1 .. n : v[i] = s[i]
        /\ \A i \in n + 1 .. n + m : v[i] = t[i - n]
    BY Concat
  <1>2. Len(u) = n + m /\ (\A i \in 1 .. n : u[i] = s[i]) /\ \A i \in 1 .. m : u[n + i] = t[i]
    OBVIOUS
  <1> HIDE DEF n, m, v
  <1>3. ASSUME NEW i \in 1 .. Len(v)
        PROVE  v[i] = u[i]
    <2>1. CASE i <= n
      BY <2>1, <1>1, <1>2
    <2>2. CASE i > n
      <3>1. i - n \in 1 .. m /\ i \in n + 1 .. n + m /\ n + (i - n) = i
        BY <1>1, <1>3, <2>2
      <3> QED BY <3>1, <1>1, <1>2
    <2> QED BY <2>1, <2>2, <1>1, <1>3
  <1>4. v = u
    BY <1>1, <1>2, <1>3, SeqEqual, Zenon
  <1> QED BY <1>4 DEF v

LEMMA TidyBoth ==
    ASSUME NEW s, NEW t, Section(s), Section(t)
    PROVE  Section(s \o t)
  <1> DEFINE u == s \o t
             n == Len(s)
             m == Len(t)
  <1>1. /\ u \in Seq(Steps) /\ Len(u) = n + m /\ n \in Nat /\ m \in Nat
        /\ \A i \in 1 .. n : u[i] = s[i]
        /\ \A i \in 1 .. m : u[n + i] = t[i]
    BY Concat DEF Section
  <1> HIDE DEF u, n, m
  <1>2. ASSUME NEW i \in 1 .. n + m, u[i].op = "write"
        PROVE  TidyAt(u, i) /\ (u[i].n # 1 => \E j \in i + 1 .. n + m : Writes(u[j], u[i].area))
    <2>1. CASE i <= n
      <3>1. i \in 1 .. n /\ u[i] = s[i]
        BY <1>1, <2>1
      <3>2. PICK k \in i + 1 .. n :
              /\ IsLook(s[k])
              /\ \A j \in i .. k - 1 : s[j].op = "write" => s[j].area = s[i].area
        BY <1>2, <3>1 DEF Section, Tidy, TidyAt, n
      <3>3. TidyAt(u, i)
        <4>1. k \in i + 1 .. n + m /\ \A j \in i .. k : j \in 1 .. n
          BY <3>1, <3>2, <1>1
        <4> QED BY <4>1, <1>1, <3>1, <3>2 DEF TidyAt
      <3>4. ASSUME u[i].n # 1
            PROVE  \E j \in i + 1 .. n + m : Writes(u[j], u[i].area)
        <4>1. PICK j \in i + 1 .. n : Writes(s[j], s[i].area)
          BY <1>2, <3>1, <3>4 DEF Section, Closed, n
        <4>2. j \in i + 1 .. n + m /\ u[j] = s[j]
          BY <4>1, <1>1, <3>1
        <4> QED BY <4>1, <4>2, <3>1
      <3> QED BY <3>3, <3>4
    <2>2. CASE i > n
      <3>1. PICK q \in 1 .. m : i = n + q /\ u[i] = t[q]
        <4>1. i - n \in 1 .. m /\ i = n + (i - n)
          BY <1>1, <2>2
        <4> QED BY <4>1, <1>1
      <3>2. PICK k \in q + 1 .. m :
              /\ IsLook(t[k])
              /\ \A j \in q .. k - 1 : t[j].op = "write" => t[j].area = t[q].area
        BY <1>2, <3>1 DEF Section, Tidy, TidyAt, m
      <3>3. TidyAt(u, i)
        <4>1. n + k \in i + 1 .. n + m /\ u[n + k] = t[k]
          BY <3>1, <3>2, <1>1
        <4>2. ASSUME NEW j \in i .. (n + k) - 1, u[j].op = "write"
              PROVE  u[j].area = u[i].area
          <5>1. j - n \in q .. k - 1 /\ j - n \in 1 .. m /\ j = n + (j - n)
            BY <3>1, <3>2, <1>1
          <5>2. u[j] = t[j - n]
            BY <5>1, <1>1
          <5> QED BY <5>1, <5>2, <4>2, <3>1, <3>2
        <4> QED BY <4>1, <4>2, <3>2, <1>1 DEF TidyAt
      <3>4. ASSUME u[i].n # 1
            PROVE  \E j \in i + 1 .. n + m : Writes(u[j], u[i].area)
        <4>1. PICK j \in q + 1 .. m : Writes(t[j], t[q].area)
          BY <1>2, <3>1, <3>4 DEF Section, Closed, m
        <4>2. n + j \in i + 1 .. n + m /\ u[n + j] = t[j]
          BY <4>1, <1>1, <3>1
        <4> QED BY <4>1, <4>2, <3>1
      <3> QED BY <3>3, <3>4
    <2> QED BY <1>1, <2>1, <2>2
  <1> QED BY <1>1, <1>2 DEF Section, Tidy, Closed, u

LEMMA Percent ==
    ASSUME NEW from \in Nat, NEW to \in Nat, from <= to, NEW k \in 0 .. Chunks
    PROVE  /\ from + ((to - from) * k) \div Chunks \in from .. to
  <1>1. Chunks \in Nat \ {0}
    BY ChunksAssumption
  <1> DEFINE d == to - from
  <1>2. d \in Nat /\ k \in Nat /\ to = from + d
    OBVIOUS
  <1> HIDE DEF d
  <1>3. d * k \in Nat /\ d * k <= d * Chunks
    BY <1>1, <1>2
  <1>4. (d * k) \div Chunks \in Nat /\ (d * k) \div Chunks <= d
    BY <1>1, <1>2, <1>3
  <1> QED BY <1>2, <1>4 DEF d

\* What the steps of an asset are.
LEMMA AssetSteps ==
    ASSUME NEW area \in Areas, NEW from \in Nat, NEW to \in Nat, from <= to
    PROVE  LET s == Asset(area, from, to) IN
           /\ s \in Seq(Steps) /\ Len(s) = 2 * Chunks + 1
           /\ \A k \in 1 .. Chunks :
                /\ s[2 * k - 1] = IF k = Chunks THEN Put(area) ELSE Part(area)
                /\ \E n \in from .. to : s[2 * k] = Show(n)
           /\ s[2 * Chunks + 1] = Look
           /\ \A i \in 1 .. Len(s) : /\ s[i].op \in {"show", "look", "write"}
                                     /\ s[i].op = "write" => s[i].area = area
  <1> DEFINE s == Asset(area, from, to)
             m == 2 * Chunks + 1
  <1>1. Chunks \in Nat \ {0} /\ m \in Nat
    BY ChunksAssumption
  <1>2. s = [i \in 1 .. m |->
        IF i = 2 * Chunks + 1 THEN Look
        ELSE IF i % 2 = 0 THEN Show(from + ((to - from) * (i \div 2)) \div Chunks)
        ELSE IF i = 2 * Chunks - 1 THEN Put(area) ELSE Part(area)]
    BY DEF Asset
  <1>3. ASSUME NEW i \in 1 .. m
        PROVE  s[i] = IF i = 2 * Chunks + 1 THEN Look
                      ELSE IF i % 2 = 0 THEN Show(from + ((to - from) * (i \div 2)) \div Chunks)
                      ELSE IF i = 2 * Chunks - 1 THEN Put(area) ELSE Part(area)
    BY <1>2
  <1> HIDE DEF s, m
  <1>4. s[2 * Chunks + 1] = Look
    BY <1>1, <1>3 DEF m
  <1>5. ASSUME NEW k \in 1 .. Chunks
        PROVE  /\ s[2 * k - 1] = IF k = Chunks THEN Put(area) ELSE Part(area)
               /\ s[2 * k] = Show(from + ((to - from) * k) \div Chunks)
    <2>1. 2 * k - 1 \in 1 .. m /\ 2 * k \in 1 .. m /\ k \in Int
      BY <1>1 DEF m
    <2>2. (2 * k - 1) % 2 # 0 /\ (2 * k) % 2 = 0 /\ (2 * k) \div 2 = k
      BY <2>1
    <2>3. 2 * k - 1 # 2 * Chunks + 1 /\ 2 * k # 2 * Chunks + 1
          /\ (2 * k - 1 = 2 * Chunks - 1 <=> k = Chunks)
      BY <1>1
    <2> QED BY <2>1, <2>2, <2>3, <1>3
  <1>6. ASSUME NEW k \in 1 .. Chunks
        PROVE  \E n \in from .. to : s[2 * k] = Show(n)
    <2>1. k \in 0 .. Chunks
      BY <1>1
    <2> QED BY <1>5, <2>1, Percent
  <1>7. ASSUME NEW i \in 1 .. m
        PROVE  /\ s[i] \in Steps /\ s[i].op \in {"show", "look", "write"}
               /\ s[i].op = "write" => s[i].area = area
    <2>1. i = 2 * Chunks + 1 \/ \E k \in 1 .. Chunks : i = 2 * k - 1 \/ i = 2 * k
      <3>1. i % 2 \in {0, 1} /\ i = 2 * (i \div 2) + (i % 2) /\ i \div 2 \in Nat
        BY <1>1 DEF m
      <3>2. CASE i % 2 = 0
        <4>1. i = 2 * (i \div 2) /\ i \div 2 \in 1 .. Chunks
          BY <3>1, <3>2, <1>1 DEF m
        <4> QED BY <4>1
      <3>3. CASE i % 2 = 1
        <4>1. i = 2 * (i \div 2 + 1) - 1
          BY <3>1, <3>3
        <4>2. i = 2 * Chunks + 1 \/ i \div 2 + 1 \in 1 .. Chunks
          BY <3>1, <3>3, <1>1 DEF m
        <4> QED BY <4>1, <4>2
      <3> QED BY <3>1, <3>2, <3>3
    <2>2. \A n \in from .. to : Show(n) \in Steps /\ Show(n).op = "show"
      BY DEF Show, Step, Steps, OpNames
    <2>3. /\ Look \in Steps /\ Put(area) \in Steps /\ Part(area) \in Steps
          /\ Look.op = "look" /\ Put(area).op = "write" /\ Part(area).op = "write"
          /\ Put(area).area = area /\ Part(area).area = area
      BY DEF Look, Put, Part, Step, Steps, OpNames
    <2> HIDE DEF m
    <2> QED BY <2>1, <2>2, <2>3, <1>4, <1>5, <1>6
  <1>8. s \in Seq(Steps) /\ Len(s) = m
    <2>1. s = [i \in 1 .. m |-> s[i]]
      BY <1>2, Zenon
    <2> QED BY <2>1, <1>7, <1>1
  <1> QED BY <1>4, <1>5, <1>6, <1>7, <1>8 DEF s, m

LEMMA AssetSection ==
    ASSUME NEW area \in Areas, NEW from \in Nat, NEW to \in Nat, from <= to, to < 97
    PROVE  Section(Asset(area, from, to))
  <1> DEFINE s == Asset(area, from, to)
  <1>1. /\ s \in Seq(Steps) /\ Len(s) = 2 * Chunks + 1 /\ Chunks \in Nat \ {0}
        /\ \A k \in 1 .. Chunks :
             /\ s[2 * k - 1] = IF k = Chunks THEN Put(area) ELSE Part(area)
             /\ \E n \in from .. to : s[2 * k] = Show(n)
        /\ s[2 * Chunks + 1] = Look
    BY AssetSteps, ChunksAssumption
  <1> HIDE DEF s
  <1>2. ASSUME NEW i \in 1 .. Len(s), s[i].op = "write"
        PROVE  \E k \in 1 .. Chunks : i = 2 * k - 1
    <2>1. i % 2 \in {0, 1} /\ i = 2 * (i \div 2) + (i % 2) /\ i \div 2 \in Nat
      BY <1>1
    <2>2. i # 2 * Chunks + 1
      BY <1>1, <1>2 DEF Look, Step
    <2>3. CASE i % 2 = 0
      <3>1. i \div 2 \in 1 .. Chunks /\ i = 2 * (i \div 2)
        BY <2>1, <2>3, <1>1
      <3>2. PICK n \in from .. to : s[i] = Show(n)
        BY <3>1, <1>1
      <3> QED BY <3>2, <1>2 DEF Show, Step
    <2>4. CASE i % 2 = 1
      <3>1. i \div 2 + 1 \in 1 .. Chunks /\ i = 2 * (i \div 2 + 1) - 1
        BY <2>1, <2>2, <2>4, <1>1
      <3> QED BY <3>1
    <2> QED BY <2>1, <2>3, <2>4
  <1>3. ASSUME NEW k \in 1 .. Chunks, NEW i \in 1 .. Len(s), i = 2 * k - 1
        PROVE  /\ TidyAt(s, i)
               /\ s[i].n # 1 => \E j \in i + 1 .. Len(s) : Writes(s[j], s[i].area)
    <2>1. PICK n \in from .. to : s[2 * k] = Show(n)
      BY <1>1
    <2>2. IsLook(s[2 * k])
      BY <2>1 DEF IsLook, Show, Step
    <2>3. 2 * k \in i + 1 .. Len(s) /\ i .. (2 * k) - 1 = {i}
      BY <1>1, <1>3
    <2>4. TidyAt(s, i)
      BY <2>2, <2>3 DEF TidyAt
    <2>5. s[i] = IF k = Chunks THEN Put(area) ELSE Part(area)
      BY <1>1, <1>3
    <2>6. ASSUME s[i].n # 1
          PROVE  \E j \in i + 1 .. Len(s) : Writes(s[j], s[i].area)
      <3>1. k # Chunks /\ s[i] = Part(area)
        BY <2>5, <2>6 DEF Put, Step
      <3>2. Chunks \in 1 .. Chunks /\ 2 * Chunks - 1 \in i + 1 .. Len(s)
        BY <3>1, <1>1, <1>3
      <3>3. s[2 * Chunks - 1] = Put(area)
        BY <3>2, <1>1
      <3> QED BY <3>1, <3>2, <3>3 DEF Writes, Put, Part, Step
    <2> QED BY <2>4, <2>6
  <1> QED BY <1>1, <1>2, <1>3 DEF Section, Tidy, Closed, s

Head0 == <<Enter(97), Show(2), Open, Look, Show(5), Look, Show(10), Put("table"), Show(18)>>
Formatted == Format \o <<Show(40)>>
Tail0(style) == <<Put("trail")>> \o
                ((IF style = "gpt" THEN <<Show(96), Put("backup")>> ELSE <<>>)
                 \o <<Show(97), Sync, Show(100)>>)

LEMMA HeadSection == Section(Head0)
  BY DEF Head0, Section, Tidy, TidyAt, IsLook, Closed, Show, Step, Steps, OpNames, Areas, Enter, Open, Look, Put
LEMMA FormatIs == Formatted = <<Part("data"), Put("data"), Sync, Show(40)>>
  <1> DEFINE s == <<Part("data"), Put("data"), Sync>>
             t == <<Show(40)>>
             u == <<Part("data"), Put("data"), Sync, Show(40)>>
  <1>1. s \in Seq(Steps) /\ t \in Seq(Steps) /\ u \in Seq(Steps)
    BY DEF Part, Put, Sync, Show, Step, Steps, OpNames, Areas
  <1>2. Len(s) = 3 /\ Len(t) = 1 /\ Len(u) = 4
    OBVIOUS
  <1>3. /\ s \o t \in Seq(Steps) /\ Len(s \o t) = 4
        /\ \A i \in 1 .. 3 : (s \o t)[i] = s[i]
        /\ (s \o t)[4] = t[1]
    BY <1>1, <1>2, Concat
  <1>4. /\ \A i \in 1 .. 3 : u[i] = s[i]
        /\ u[4] = t[1]
    OBVIOUS
  <1>5. Formatted = s \o t
    BY DEF Formatted, Format
  <1> HIDE DEF s, t, u
  <1>6. \A i \in 1 .. Len(s \o t) : (s \o t)[i] = u[i]
    BY <1>3, <1>4
  <1>7. s \o t = u
    BY <1>1, <1>2, <1>3, <1>6, SeqEqual, Zenon
  <1> QED BY <1>5, <1>7 DEF u
LEMMA FormatSection == Section(Formatted)
  BY FormatIs DEF Section, Tidy, TidyAt, IsLook, Closed, Show, Step, Steps, OpNames, Areas, Sync, Part, Put, Writes
LEMMA TailIs ==
    ASSUME NEW style \in Installs
    PROVE  Tail0(style) = IF style = "gpt"
               THEN <<Put("trail"), Show(96), Put("backup"), Show(97), Sync, Show(100)>>
               ELSE <<Put("trail"), Show(97), Sync, Show(100)>>
  <1> DEFINE s == <<Put("trail")>>
             t == <<Show(97), Sync, Show(100)>>
             b == <<Show(96), Put("backup")>>
             mbr == <<Put("trail"), Show(97), Sync, Show(100)>>
             bt == <<Show(96), Put("backup"), Show(97), Sync, Show(100)>>
             gpt == <<Put("trail"), Show(96), Put("backup"), Show(97), Sync, Show(100)>>
  <1>1. /\ s \in Seq(Steps) /\ t \in Seq(Steps) /\ b \in Seq(Steps)
        /\ mbr \in Seq(Steps) /\ bt \in Seq(Steps) /\ gpt \in Seq(Steps)
    BY DEF Put, Sync, Show, Step, Steps, OpNames, Areas
  <1>2. /\ Len(s) = 1 /\ Len(t) = 3 /\ Len(b) = 2 /\ Len(mbr) = 4 /\ Len(bt) = 5 /\ Len(gpt) = 6
    OBVIOUS
  <1>3. /\ mbr[1] = s[1] /\ \A i \in 1 .. 3 : mbr[1 + i] = t[i]
        /\ bt[1] = b[1] /\ bt[2] = b[2] /\ \A i \in 1 .. 3 : bt[2 + i] = t[i]
        /\ gpt[1] = s[1] /\ \A i \in 1 .. 5 : gpt[1 + i] = bt[i]
    OBVIOUS
  <1>4. style # "gpt" => Tail0(style) = s \o (<<>> \o t)
    BY DEF Tail0
  <1>5. style = "gpt" => Tail0(style) = s \o (b \o t)
    BY DEF Tail0
  <1> HIDE DEF s, t, b, mbr, bt, gpt
  <1>6. <<>> \o t = t
    BY <1>1, ConcatEmptySeq, Zenon
  <1>7. s \o t = mbr
    <2>1. Len(mbr) = Len(s) + Len(t) /\ \A i \in 1 .. Len(s) : mbr[i] = s[i]
      BY <1>2, <1>3
    <2>2. \A i \in 1 .. Len(t) : mbr[Len(s) + i] = t[i]
      BY <1>2, <1>3
    <2> QED BY <1>1, <2>1, <2>2, Joined, Zenon
  <1>8. b \o t = bt
    <2>1. Len(bt) = Len(b) + Len(t) /\ \A i \in 1 .. Len(b) : bt[i] = b[i]
      BY <1>2, <1>3
    <2>2. \A i \in 1 .. Len(t) : bt[Len(b) + i] = t[i]
      BY <1>2, <1>3
    <2> QED BY <1>1, <2>1, <2>2, Joined, Zenon
  <1>9. s \o bt = gpt
    <2>1. Len(gpt) = Len(s) + Len(bt) /\ \A i \in 1 .. Len(s) : gpt[i] = s[i]
      BY <1>2, <1>3
    <2>2. \A i \in 1 .. Len(bt) : gpt[Len(s) + i] = bt[i]
      BY <1>2, <1>3
    <2> QED BY <1>1, <2>1, <2>2, Joined, Zenon
  <1> QED BY <1>4, <1>5, <1>6, <1>7, <1>8, <1>9 DEF mbr, gpt
LEMMA StageSection ==
    ASSUME NEW style \in Installs
    PROVE  Section(Stage1(style))
  <1>1. Section(<<Look, Put("core"), Show(55)>>)
    BY DEF Section, Tidy, TidyAt, IsLook, Closed, Show, Step, Steps, OpNames, Areas, Look, Put
  <1>2. Section(Asset("core", 40, 55))
    BY AssetSection DEF Areas
  <1> QED BY <1>1, <1>2 DEF Stage1

\* The end of a plan: where the last write of the job may not be followed by a
\* look, and the drive is flushed once more.
TidyEnd(s) == \A i \in 1 .. Len(s) : s[i].op = "write" =>
                  TidyAt(s, i) \/ \A m \in i + 1 .. Len(s) : ~IsLook(s[m])
Final(s, j) == s[j].op = "sync" /\ \A m \in j .. Len(s) : s[m].op # "write"
Ending(s) == /\ s \in Seq(Steps) /\ TidyEnd(s) /\ Closed(s)
             /\ \E j \in 1 .. Len(s) : Final(s, j)

LEMMA TidyToTheEnd ==
    ASSUME NEW s, NEW t, Section(s), Ending(t)
    PROVE  Ending(s \o t)
  <1> DEFINE u == s \o t
             n == Len(s)
             m == Len(t)
  <1>1. /\ u \in Seq(Steps) /\ Len(u) = n + m /\ n \in Nat /\ m \in Nat
        /\ \A i \in 1 .. n : u[i] = s[i]
        /\ \A i \in 1 .. m : u[n + i] = t[i]
    BY Concat DEF Section, Ending
  <1> HIDE DEF u, n, m
  <1>2. ASSUME NEW i \in 1 .. n + m, u[i].op = "write"
        PROVE  /\ TidyAt(u, i) \/ \A k \in i + 1 .. n + m : ~IsLook(u[k])
               /\ u[i].n # 1 => \E j \in i + 1 .. n + m : Writes(u[j], u[i].area)
    <2>1. CASE i <= n
      <3>1. i \in 1 .. n /\ u[i] = s[i]
        BY <1>1, <2>1
      <3>2. PICK k \in i + 1 .. n :
              /\ IsLook(s[k])
              /\ \A j \in i .. k - 1 : s[j].op = "write" => s[j].area = s[i].area
        BY <1>2, <3>1 DEF Section, Tidy, TidyAt, n
      <3>3. TidyAt(u, i)
        <4>1. k \in i + 1 .. n + m /\ \A j \in i .. k : j \in 1 .. n
          BY <3>1, <3>2, <1>1
        <4> QED BY <4>1, <1>1, <3>1, <3>2 DEF TidyAt
      <3>4. ASSUME u[i].n # 1
            PROVE  \E j \in i + 1 .. n + m : Writes(u[j], u[i].area)
        <4>1. PICK j \in i + 1 .. n : Writes(s[j], s[i].area)
          BY <1>2, <3>1, <3>4 DEF Section, Closed, n
        <4>2. j \in i + 1 .. n + m /\ u[j] = s[j]
          BY <4>1, <1>1, <3>1
        <4> QED BY <4>1, <4>2, <3>1
      <3> QED BY <3>3, <3>4, Zenon
    <2>2. CASE i > n
      <3>1. PICK q \in 1 .. m : i = n + q /\ u[i] = t[q]
        <4>1. i - n \in 1 .. m /\ i = n + (i - n)
          BY <1>1, <2>2
        <4> QED BY <4>1, <1>1
      <3>2. ASSUME TidyAt(t, q)
            PROVE  TidyAt(u, i)
        <4>0. PICK k \in q + 1 .. m :
                /\ IsLook(t[k])
                /\ \A j \in q .. k - 1 : t[j].op = "write" => t[j].area = t[q].area
          BY <3>2 DEF TidyAt, m
        <4>1. n + k \in i + 1 .. n + m /\ u[n + k] = t[k]
          BY <3>1, <4>0, <1>1
        <4>2. ASSUME NEW j \in i .. (n + k) - 1, u[j].op = "write"
              PROVE  u[j].area = u[i].area
          <5>1. j - n \in q .. k - 1 /\ j - n \in 1 .. m /\ j = n + (j - n)
            BY <3>1, <4>0, <1>1
          <5>2. u[j] = t[j - n]
            BY <5>1, <1>1
          <5> QED BY <5>1, <5>2, <4>2, <3>1, <4>0
        <4> QED BY <4>1, <4>2, <4>0, <1>1 DEF TidyAt
      <3>3. ASSUME \A k \in q + 1 .. m : ~IsLook(t[k])
            PROVE  \A k \in i + 1 .. n + m : ~IsLook(u[k])
        <4>1. ASSUME NEW k \in i + 1 .. n + m
              PROVE  ~IsLook(u[k])
          <5>1. k - n \in q + 1 .. m /\ k - n \in 1 .. m /\ k = n + (k - n)
            BY <3>1, <1>1
          <5> QED BY <5>1, <3>3, <1>1
        <4> QED BY <4>1
      <3>4. ASSUME u[i].n # 1
            PROVE  \E j \in i + 1 .. n + m : Writes(u[j], u[i].area)
        <4>1. PICK j \in q + 1 .. m : Writes(t[j], t[q].area)
          BY <1>2, <3>1, <3>4 DEF Ending, Closed, m
        <4>2. n + j \in i + 1 .. n + m /\ u[n + j] = t[j]
          BY <4>1, <1>1, <3>1
        <4> QED BY <4>1, <4>2, <3>1
      <3>5. TidyAt(t, q) \/ \A k \in q + 1 .. m : ~IsLook(t[k])
        BY <1>2, <3>1 DEF Ending, TidyEnd, m
      <3> QED BY <3>2, <3>3, <3>4, <3>5, Zenon
    <2>3. i <= n \/ i > n
      BY <1>1
    <2> QED BY <2>1, <2>2, <2>3, Zenon
  <1>3. \E j \in 1 .. Len(u) : Final(u, j)
    <2>1. PICK j \in 1 .. m : Final(t, j)
      BY DEF Ending, m
    <2>2. n + j \in 1 .. n + m /\ u[n + j] = t[j]
      BY <1>1, <2>1
    <2>3. ASSUME NEW k \in n + j .. n + m
          PROVE  u[k].op # "write"
      <3>1. k - n \in j .. m /\ k - n \in 1 .. m /\ k = n + (k - n)
        BY <1>1, <2>1
      <3> QED BY <3>1, <1>1, <2>1 DEF Final, m
    <2> QED BY <2>1, <2>2, <2>3, <1>1 DEF Final
  <1> QED BY <1>1, <1>2, <1>3 DEF Ending, TidyEnd, Closed, u

\* After a plan's first steps come those that show, write, flush or look for
\* something; what is before the first write opens the drive.
Plain(s) == \A i \in 1 .. Len(s) : s[i].op \in {"show", "look", "write", "sync"}
Front(s, top) ==
    /\ Len(s) >= 3 /\ s[1] = Enter(top) /\ s[2].op = "show" /\ s[3] = Open
    /\ \A i \in 4 .. Len(s) : s[i].op \in {"show", "look", "write", "sync"}

LEMMA AssetPlain ==
    ASSUME NEW area \in Areas, NEW from \in Nat, NEW to \in Nat, from <= to
    PROVE  Plain(Asset(area, from, to))
  <1> DEFINE s == Asset(area, from, to)
  <1>1. \A i \in 1 .. Len(s) : s[i].op \in {"show", "look", "write"}
    BY AssetSteps
  <1> HIDE DEF s
  <1>2. Plain(s)
    BY <1>1 DEF Plain
  <1> QED BY <1>2 DEF s

LEMMA PlainOn ==
    ASSUME NEW s \in Seq(Steps), NEW t \in Seq(Steps), NEW top, Front(s, top), Plain(t)
    PROVE  Front(s \o t, top)
  <1> DEFINE u == s \o t
             n == Len(s)
             m == Len(t)
  <1>1. /\ Len(u) = n + m /\ n \in Nat /\ m \in Nat
        /\ \A i \in 1 .. n : u[i] = s[i]
        /\ \A i \in n + 1 .. n + m : u[i] = t[i - n]
    BY Concat
  <1> HIDE DEF u, n, m
  <1>2. n >= 3 /\ Len(s) = n /\ Len(t) = m
    BY DEF Front, n, m
  <1>3. ASSUME NEW i \in 4 .. n + m
        PROVE  u[i].op \in {"show", "look", "write", "sync"}
    <2>1. CASE i <= n
      BY <2>1, <1>1, <1>2 DEF Front
    <2>2. CASE i > n
      BY <2>2, <1>1, <1>2 DEF Plain
    <2> QED BY <2>1, <2>2, <1>1
  <1>4. 1 \in 1 .. n /\ 2 \in 1 .. n /\ 3 \in 1 .. n
    BY <1>1, <1>2
  <1> QED BY <1>1, <1>2, <1>3, <1>4 DEF Front, u

Body(style) == (((Head0 \o Formatted) \o Stage1(style)) \o <<Show(56)>>) \o Asset("efi", 56, 96)

LEMMA InstallIs ==
    ASSUME NEW k \in Installs
    PROVE  Plan[k] = Body(k) \o Tail0(k)
  <1> DEFINE o == <<Show(40)>>
             x == Stage1(k)
             w == <<Show(56)>>
             y == Asset("efi", 56, 96)
             t == <<Put("trail")>>
             c == IF k = "gpt" THEN <<Show(96), Put("backup")>> ELSE <<>>
             e == <<Show(97), Sync, Show(100)>>
  <1>1. /\ o \in Seq(Steps) /\ w \in Seq(Steps) /\ t \in Seq(Steps) /\ c \in Seq(Steps)
        /\ e \in Seq(Steps) /\ Head0 \in Seq(Steps) /\ Format \in Seq(Steps)
    <2>1. Head0 \in Seq(Steps)
      BY HeadSection DEF Section
    <2>2. \A n \in Nat : Show(n) \in Steps
      BY DEF Show, Step, Steps, OpNames
    <2>3. \A a \in Areas : Put(a) \in Steps /\ Part(a) \in Steps
      BY DEF Put, Part, Step, Steps, OpNames
    <2>4. Sync \in Steps /\ {"data", "trail", "backup"} \subseteq Areas
      BY DEF Sync, Step, Steps, OpNames, Areas
    <2>5. o \in Seq(Steps) /\ w \in Seq(Steps) /\ t \in Seq(Steps) /\ e \in Seq(Steps)
      BY <2>2, <2>3, <2>4
    <2>6. c \in Seq(Steps)
      <3>1. <<Show(96), Put("backup")>> \in Seq(Steps) /\ <<>> \in Seq(Steps)
        BY <2>2, <2>3, <2>4
      <3> QED BY <3>1
    <2>7. Format \in Seq(Steps)
      BY <2>3, <2>4 DEF Format
    <2> QED BY <2>1, <2>5, <2>6, <2>7
  <1>2. x \in Seq(Steps) /\ y \in Seq(Steps)
    <2>1. x \in Seq(Steps)
      BY StageSection DEF Section
    <2>2. "efi" \in Areas /\ 56 \in Nat /\ 96 \in Nat /\ 56 <= 96
      BY DEF Areas
    <2> QED BY <2>1, <2>2, AssetSteps
  <1>3. Plan[k] = (((((((Head0 \o Format) \o o) \o x) \o w) \o y) \o t) \o c) \o e
    BY DEF Plan, Installs, VentoyKinds, Kinds, InstallPlan, Head0
  <1>4. Body(k) = (((Head0 \o (Format \o o)) \o x) \o w) \o y
    BY DEF Body, Formatted
  <1>5. Tail0(k) = t \o (c \o e)
    BY DEF Tail0
  <1> HIDE DEF o, x, w, y, t, c, e
  <1>6. (Head0 \o Format) \o o = Head0 \o (Format \o o)
    BY <1>1, Regroup
  <1>7. Body(k) \in Seq(Steps)
    <2>1. Format \o o \in Seq(Steps)
      BY <1>1, ConcatProperties, Zenon
    <2>2. Head0 \o (Format \o o) \in Seq(Steps)
      BY <2>1, <1>1, ConcatProperties, Zenon
    <2>3. (Head0 \o (Format \o o)) \o x \in Seq(Steps)
      BY <2>2, <1>2, ConcatProperties, Zenon
    <2>4. ((Head0 \o (Format \o o)) \o x) \o w \in Seq(Steps)
      BY <2>3, <1>1, ConcatProperties, Zenon
    <2> QED BY <2>4, <1>2, <1>4, ConcatProperties, Zenon
  <1>8. Plan[k] = ((Body(k) \o t) \o c) \o e
    BY <1>3, <1>4, <1>6, Zenon
  <1>9. ((Body(k) \o t) \o c) \o e = Body(k) \o (t \o (c \o e))
    <2> DEFINE b == Body(k)
    <2>1. b \in Seq(Steps) /\ t \in Seq(Steps) /\ c \in Seq(Steps) /\ e \in Seq(Steps)
      BY <1>1, <1>7
    <2> HIDE DEF b
    <2> DEFINE Regroups(p, q, r, s) == ((p \o q) \o r) \o s = p \o (q \o (r \o s))
    <2>2. \A p, q, r, s \in Seq(Steps) : Regroups(p, q, r, s)
      BY RegroupAll, Zenon
    <2> HIDE DEF Regroups
    <2>3. Regroups(b, t, c, e)
      BY ONLY <2>1, <2>2, Zenon
    <2> QED BY <2>3 DEF Regroups, b
  <1> QED BY <1>5, <1>8, <1>9, Zenon

LEMMA TailEnding ==
    ASSUME NEW k \in Installs
    PROVE  Ending(Tail0(k)) /\ Plain(Tail0(k))
  <1>1. CASE k = "gpt"
    <2> DEFINE s == <<Put("trail"), Show(96), Put("backup"), Show(97), Sync, Show(100)>>
    <2>1. Tail0(k) = s
      BY <1>1, TailIs
    <2>2. /\ Len(s) = 6 /\ s \in Seq(Steps) /\ Plain(s) /\ Closed(s)
          /\ Final(s, 5) /\ 5 \in 1 .. Len(s)
      BY DEF Plain, Closed, Final, Show, Put, Sync, Step, Steps, OpNames, Areas
    <2>3. TidyEnd(s)
      <3>1. /\ s[1].op = "write" /\ IsLook(s[2]) /\ s[2].op = "show" /\ s[4].op # "write"
            /\ s[5].op # "write" /\ s[6].op # "write" /\ Len(s) = 6
            /\ ~IsLook(s[4]) /\ ~IsLook(s[5]) /\ ~IsLook(s[6])
        BY DEF IsLook, Show, Put, Sync, Step
      <3> HIDE DEF s
      <3>2. TidyAt(s, 1)
        BY <3>1 DEF TidyAt
      <3>3. \A m \in 4 .. 6 : ~IsLook(s[m])
        BY <3>1
      <3> QED BY <3>1, <3>2, <3>3 DEF TidyEnd
    <2> QED BY <2>1, <2>2, <2>3 DEF Ending
  <1>2. CASE k # "gpt"
    <2> DEFINE s == <<Put("trail"), Show(97), Sync, Show(100)>>
    <2>1. Tail0(k) = s
      BY <1>2, TailIs
    <2>2. /\ Len(s) = 4 /\ s \in Seq(Steps) /\ Plain(s) /\ Closed(s)
          /\ Final(s, 3) /\ 3 \in 1 .. Len(s)
      BY DEF Plain, Closed, Final, Show, Put, Sync, Step, Steps, OpNames, Areas
    <2>3. TidyEnd(s)
      BY DEF TidyEnd, IsLook, Show, Put, Sync, Step
    <2> QED BY <2>1, <2>2, <2>3 DEF Ending
  <1> QED BY <1>1, <1>2

OpenFirst(s) == \A i \in 1 .. Len(s) : s[i].op \in {"write", "sync", "read"} =>
                    \E j \in 1 .. i - 1 : s[j].op = "open"
FlushedReads(s) == \A i \in 1 .. Len(s) : s[i].op = "read" => \E j \in 1 .. i - 1 : Final(s, j)
Sound(s) == /\ s \in Seq(Steps) /\ Closed(s) /\ OpenFirst(s) /\ FlushedReads(s)
            /\ \E j \in 1 .. Len(s) : Final(s, j)
InstallFits(s) ==
    /\ TidyEnd(s) /\ Len(s) >= 1 /\ s[1].op = "enter" /\ s[1].n = 97
    /\ \A i \in 1 .. Len(s) : /\ s[i].op \notin {"poll", "commit"}
                              /\ s[i].op = "enter" => i = 1
IsoFits(s) == TidyEnd(s) /\ \A i \in 1 .. Len(s) : s[i].op \notin {"enter", "show", "commit"}
\* Stage 1 and VTOYEFI are written when the table is.
TableLast(s) ==
    \A i \in 1 .. Len(s) : Writes(s[i], "table") =>
        \A a \in {"core", "efi"} : /\ \E j \in 1 .. i - 1 : Writes(s[j], a)
                                   /\ \A j \in i .. Len(s) : ~Writes(s[j], a)
UpdateFits(s) ==
    /\ TableLast(s) /\ Len(s) >= 10
    /\ s[1].op = "enter" /\ s[1].n = 11 /\ s[10].op = "commit"
    /\ \A i \in 1 .. Len(s) : /\ s[i].op # "poll"
                              /\ s[i].op = "enter" => i = 1
                              /\ i < 10 => s[i].op \notin {"write", "commit"}

LEMMA HeadFront == Front(Head0, 97)
  BY DEF Head0, Front, Show, Step, Enter, Open, Look, Put

LEMMA BodyRight ==
    ASSUME NEW k \in Installs
    PROVE  Section(Body(k)) /\ Front(Body(k), 97)
  <1> DEFINE x == Stage1(k)
             w == <<Show(56)>>
             y == Asset("efi", 56, 96)
             a == Head0 \o Formatted
             b == a \o x
             c == b \o w
  <1>1. Section(w) /\ Plain(w)
    BY DEF Section, Tidy, TidyAt, Closed, Plain, Show, Step, Steps, OpNames
  <1>2. Section(y) /\ Plain(y)
    <2>1. "efi" \in Areas
      BY DEF Areas
    <2>2. Section(y)
      BY <2>1, AssetSection
    <2> QED BY <2>1, <2>2, AssetPlain
  <1>3. Section(x) /\ Plain(x)
    <2>1. Section(x)
      BY StageSection
    <2>2. CASE k = "gpt"
      <3>1. x = <<Look, Put("core"), Show(55)>>
        BY <2>2 DEF Stage1
      <3> HIDE DEF x
      <3>2. Plain(x)
        BY <3>1 DEF Plain, Look, Put, Show, Step
      <3> QED BY <2>1, <3>2 DEF x
    <2>3. CASE k # "gpt"
      <3>1. x = Asset("core", 40, 55)
        BY <2>3 DEF Stage1
      <3>2. \A i \in 1 .. Len(x) : x[i].op \in {"show", "look", "write"}
        <4>1. "core" \in Areas
          BY DEF Areas
        <4> QED BY <3>1, <4>1, AssetSteps
      <3> QED BY <2>1, <3>2 DEF Plain
    <2> QED BY <2>2, <2>3
  <1>4. Section(Formatted) /\ Plain(Formatted)
    BY FormatSection, FormatIs DEF Plain, Part, Put, Sync, Show, Step
  <1>5. Section(Head0) /\ Front(Head0, 97)
    BY HeadSection, HeadFront
  <1>6. \A s : Section(s) => s \in Seq(Steps)
    BY DEF Section
  <1>7. Body(k) = c \o y
    BY DEF Body
  <1> HIDE DEF x, w, y
  <1>8. Section(a) /\ Front(a, 97)
    BY <1>4, <1>5, <1>6, TidyBoth, PlainOn
  <1> HIDE DEF a
  <1>9. Section(b) /\ Front(b, 97)
    BY <1>3, <1>8, <1>6, TidyBoth, PlainOn
  <1> HIDE DEF b
  <1>10. Section(c) /\ Front(c, 97)
    BY <1>1, <1>9, <1>6, TidyBoth, PlainOn
  <1> HIDE DEF c
  <1>11. Section(c \o y) /\ Front(c \o y, 97)
    BY <1>2, <1>10, <1>6, TidyBoth, PlainOn
  <1> QED BY <1>7, <1>11

LEMMA InstallRight ==
    ASSUME NEW k \in Installs
    PROVE  Sound(Plan[k]) /\ InstallFits(Plan[k])
  <1> DEFINE s == Body(k)
             t == Tail0(k)
             p == s \o t
  <1>1. p = Plan[k]
    BY InstallIs
  <1>2. Section(s) /\ Front(s, 97) /\ Ending(t) /\ Plain(t)
    BY BodyRight, TailEnding
  <1>3. s \in Seq(Steps) /\ t \in Seq(Steps)
    BY <1>2 DEF Section, Ending
  <1> HIDE DEF s, t
  <1>4. Ending(p) /\ Front(p, 97)
    BY <1>2, <1>3, TidyToTheEnd, PlainOn
  <1>5. Len(p) \in Nat
    BY <1>4, LenProperties DEF Ending
  <1> HIDE DEF p
  <1>6. /\ Len(p) >= 3 /\ p[1].op = "enter" /\ p[1].n = 97 /\ p[2].op = "show" /\ p[3].op = "open"
        /\ \A i \in 4 .. Len(p) : p[i].op \in {"show", "look", "write", "sync"}
    BY <1>4 DEF Front, Enter, Open, Step
  <1>7. \A i \in 1 .. Len(p) : i = 1 \/ i = 2 \/ i = 3 \/ i \in 4 .. Len(p)
    BY <1>5
  <1>8. InstallFits(p)
    <2>1. ASSUME NEW i \in 1 .. Len(p)
          PROVE  p[i].op \notin {"poll", "commit"} /\ (p[i].op = "enter" => i = 1)
      BY <1>6, <1>7
    <2> QED BY <2>1, <1>4, <1>6, <1>5 DEF InstallFits, Ending
  <1>9. OpenFirst(p) /\ FlushedReads(p)
    <2>1. ASSUME NEW i \in 1 .. Len(p), p[i].op \in {"write", "sync", "read"}
          PROVE  /\ p[i].op # "read"
                 /\ \E j \in 1 .. i - 1 : p[j].op = "open"
      <3>1. i \in 4 .. Len(p)
        BY <1>6, <1>7, <2>1
      <3>2. 3 \in 1 .. i - 1
        BY <3>1
      <3> QED BY <3>1, <3>2, <1>6
    <2> QED BY <2>1 DEF OpenFirst, FlushedReads
  <1> QED BY <1>1, <1>4, <1>8, <1>9 DEF Sound, Ending

LEMMA PolledSteps ==
    ASSUME NEW op \in {"write", "read"}, NEW areas \in Seq(Areas)
    PROVE  LET s == Polled(op, areas) IN
           /\ s \in Seq(Steps) /\ Len(s) = 2 * Len(areas)
           /\ \A i \in 1 .. Len(s) : s[i].op \in {"poll", op}
           /\ \A k \in 1 .. Len(areas) : /\ s[2 * k - 1] = Poll
                                         /\ s[2 * k] = Step(op, areas[k], 1)
  <1> DEFINE s == Polled(op, areas)
             n == Len(areas)
  <1>1. n \in Nat /\ \A k \in 1 .. n : areas[k] \in Areas
    BY LenProperties, ElementOfSeq
  <1>2. s = [i \in 1 .. 2 * n |-> IF i % 2 = 1 THEN Poll ELSE Step(op, areas[i \div 2], 1)]
    BY DEF Polled
  <1> HIDE DEF s, n
  <1>3. ASSUME NEW i \in 1 .. 2 * n
        PROVE  s[i] = IF i % 2 = 1 THEN Poll ELSE Step(op, areas[i \div 2], 1)
    BY <1>2
  <1>4. Poll \in Steps /\ Poll.op = "poll"
    BY DEF Poll, Step, Steps, OpNames
  <1>5. \A a \in Areas : Step(op, a, 1) \in Steps /\ Step(op, a, 1).op = op
    BY DEF Step, Steps, OpNames
  <1>6. ASSUME NEW i \in 1 .. 2 * n
        PROVE  s[i] \in Steps /\ s[i].op \in {"poll", op}
    <2>1. CASE i % 2 = 1
      BY <2>1, <1>3, <1>4
    <2>2. CASE i % 2 # 1
      <3>1. i \div 2 \in 1 .. n
        BY <2>2, <1>1
      <3> QED BY <2>2, <3>1, <1>1, <1>3, <1>5
    <2> QED BY <2>1, <2>2
  <1>7. s \in Seq(Steps) /\ Len(s) = 2 * n
    <2>1. s = [i \in 1 .. 2 * n |-> s[i]]
      BY <1>2, Zenon
    <2> QED BY <2>1, <1>6, <1>1
  <1>8. ASSUME NEW k \in 1 .. n
        PROVE  s[2 * k - 1] = Poll /\ s[2 * k] = Step(op, areas[k], 1)
    <2>1. 2 * k - 1 \in 1 .. 2 * n /\ 2 * k \in 1 .. 2 * n
      BY <1>1
    <2>2. (2 * k - 1) % 2 = 1 /\ (2 * k) % 2 # 1 /\ (2 * k) \div 2 = k
      BY <1>1
    <2> QED BY <2>1, <2>2, <1>3
  <1> QED BY <1>6, <1>7, <1>8 DEF s, n

Written == <<Open, Look, Poll, Put("table"), Poll, Put("core"), Poll, Put("data"), Poll, Look, Sync>>

LEMMA WrittenIs == (<<Open, Look>> \o Polled("write", Image)) \o <<Poll, Look, Sync>> = Written
  <1> DEFINE h == <<Open, Look>>
             w == Polled("write", Image)
             t == <<Poll, Look, Sync>>
             hw == <<Open, Look, Poll, Put("table"), Poll, Put("core"), Poll, Put("data")>>
             z == Written
  <1>1. Open \in Steps /\ Look \in Steps /\ Poll \in Steps /\ Sync \in Steps
    BY DEF Open, Look, Poll, Sync, Step, Steps, OpNames
  <1>2. Put("table") \in Steps /\ Put("core") \in Steps /\ Put("data") \in Steps
    BY DEF Put, Step, Steps, OpNames, Areas
  <1>3. h \in Seq(Steps) /\ t \in Seq(Steps) /\ hw \in Seq(Steps) /\ z \in Seq(Steps)
    BY <1>1, <1>2 DEF Written
  <1>4. Len(h) = 2 /\ Len(t) = 3 /\ Len(hw) = 8 /\ Len(z) = 11
    BY DEF Written
  <1>5. /\ w \in Seq(Steps) /\ Len(w) = 6
        /\ w[1] = Poll /\ w[2] = Put("table") /\ w[3] = Poll /\ w[4] = Put("core")
        /\ w[5] = Poll /\ w[6] = Put("data")
    <2>1. Image \in Seq(Areas) /\ Len(Image) = 3
          /\ Image[1] = "table" /\ Image[2] = "core" /\ Image[3] = "data"
      BY DEF Image, Areas
    <2>2. /\ w \in Seq(Steps) /\ Len(w) = 2 * Len(Image)
          /\ \A k \in 1 .. Len(Image) : /\ w[2 * k - 1] = Poll
                                        /\ w[2 * k] = Step("write", Image[k], 1)
      BY <2>1, PolledSteps
    <2> HIDE DEF w
    <2>3. /\ w[2 * 1 - 1] = Poll /\ w[2 * 1] = Step("write", Image[1], 1)
          /\ w[2 * 2 - 1] = Poll /\ w[2 * 2] = Step("write", Image[2], 1)
          /\ w[2 * 3 - 1] = Poll /\ w[2 * 3] = Step("write", Image[3], 1)
      BY <2>1, <2>2
    <2> QED BY <2>1, <2>2, <2>3 DEF Put
  <1>6. /\ \A i \in 1 .. 2 : hw[i] = h[i]
        /\ hw[3] = Poll /\ hw[4] = Put("table") /\ hw[5] = Poll /\ hw[6] = Put("core")
        /\ hw[7] = Poll /\ hw[8] = Put("data")
        /\ \A i \in 1 .. 8 : z[i] = hw[i]
        /\ \A i \in 1 .. 3 : z[8 + i] = t[i]
    BY DEF Written
  <1> HIDE DEF h, w, t, hw, z
  <1>7. h \o w = hw
    <2>1. Len(hw) = Len(h) + Len(w) /\ \A i \in 1 .. Len(h) : hw[i] = h[i]
      BY <1>4, <1>5, <1>6
    <2>2. \A i \in 1 .. Len(w) : hw[Len(h) + i] = w[i]
      BY <1>4, <1>5, <1>6
    <2> QED BY <1>3, <1>5, <2>1, <2>2, Joined, Zenon
  <1>8. hw \o t = z
    <2>1. Len(z) = Len(hw) + Len(t) /\ \A i \in 1 .. Len(hw) : z[i] = hw[i]
      BY <1>4, <1>6
    <2>2. \A i \in 1 .. Len(t) : z[Len(hw) + i] = t[i]
      BY <1>4, <1>6
    <2> QED BY <1>3, <2>1, <2>2, Joined, Zenon
  <1> QED BY <1>7, <1>8 DEF h, w, t, z

LEMMA WrittenSection ==
    /\ Section(Written) /\ Len(Written) = 11
    /\ Written[1].op = "open" /\ Written[11].op = "sync"
    /\ \A i \in 1 .. 11 : Written[i].op \in {"open", "look", "poll", "write", "sync"}
  <1> DEFINE s == Written
  <1>1. /\ s \in Seq(Steps) /\ Len(s) = 11
        /\ s[1].op = "open" /\ s[2].op = "look" /\ IsLook(s[3]) /\ s[3].op = "poll"
        /\ s[4].op = "write" /\ s[4].n = 1 /\ IsLook(s[5]) /\ s[5].op = "poll"
        /\ s[6].op = "write" /\ s[6].n = 1 /\ IsLook(s[7]) /\ s[7].op = "poll"
        /\ s[8].op = "write" /\ s[8].n = 1 /\ IsLook(s[9]) /\ s[9].op = "poll"
        /\ s[10].op = "look" /\ s[11].op = "sync"
    BY DEF Written, IsLook, Open, Look, Poll, Put, Sync, Step, Steps, OpNames, Areas
  <1> HIDE DEF s
  <1>2. ASSUME NEW i \in 1 .. 11, s[i].op = "write"
        PROVE  TidyAt(s, i) /\ s[i].n = 1
    <2>1. i \in {4, 6, 8}
      BY <1>1, <1>2
    <2>2. IsLook(s[i + 1]) /\ i + 1 \in i + 1 .. Len(s) /\ i .. (i + 1) - 1 = {i} /\ s[i].n = 1
      BY <2>1, <1>1
    <2> QED BY <2>2 DEF TidyAt
  <1>3. \A i \in 1 .. 11 : s[i].op \in {"open", "look", "poll", "write", "sync"}
    BY <1>1
  <1> QED BY <1>1, <1>2, <1>3 DEF Section, Tidy, Closed, s

LEMMA IsoRight ==
    ASSUME NEW k \in Kinds \ VentoyKinds
    PROVE  Sound(Plan[k]) /\ IsoFits(Plan[k])
  <1>1. PICK level \in {"off", "partial", "full"} : Plan[k] = IsoPlan(level)
    BY DEF Plan, Kinds, VentoyKinds, Installs
  <1> DEFINE r == Polled("read", Selected(level))
             w == Written
             p == w \o r
  <1>2. Plan[k] = p
    BY <1>1, WrittenIs DEF IsoPlan
  <1>3. Selected(level) \in Seq(Areas)
    <2>1. <<>> \in Seq(Areas) /\ <<"table", "data">> \in Seq(Areas)
          /\ <<"table", "core", "data">> \in Seq(Areas)
      BY DEF Areas
    <2>2. Selected(level) \in {<<>>, <<"table", "data">>, <<"table", "core", "data">>}
      BY Zenon DEF Selected, Image
    <2> QED BY <2>1, <2>2, Zenon
  <1>4. r \in Seq(Steps) /\ \A i \in 1 .. Len(r) : r[i].op \in {"poll", "read"}
    BY <1>3, PolledSteps
  <1>5. Section(r)
    BY <1>4 DEF Section, Tidy, Closed
  <1>6. /\ Section(w) /\ w \in Seq(Steps) /\ Len(w) = 11
        /\ w[1].op = "open" /\ w[11].op = "sync"
        /\ \A i \in 1 .. 11 : w[i].op \in {"open", "look", "poll", "write", "sync"}
    BY WrittenSection DEF Section
  <1> HIDE DEF r, w
  <1>7. Section(p)
    BY <1>5, <1>6, TidyBoth
  <1>8. /\ Len(p) = 11 + Len(r) /\ Len(r) \in Nat
        /\ \A i \in 1 .. 11 : p[i] = w[i]
        /\ \A i \in 12 .. 11 + Len(r) : p[i] = r[i - 11]
    <2>1. /\ Len(p) = Len(w) + Len(r) /\ Len(r) \in Nat
          /\ \A i \in 1 .. Len(w) : p[i] = w[i]
          /\ \A i \in Len(w) + 1 .. Len(w) + Len(r) : p[i] = r[i - Len(w)]
      BY <1>4, <1>6, Concat
    <2> HIDE DEF p
    <2> QED BY <2>1, <1>6
  <1> HIDE DEF p
  <1>9. p[1].op = "open" /\ p[11].op = "sync"
    BY <1>6, <1>8
  <1>10. \A i \in 1 .. 11 : p[i].op \in {"open", "look", "poll", "write", "sync"}
    BY <1>6, <1>8
  <1>11. \A i \in 12 .. Len(p) : p[i].op \in {"poll", "read"}
    BY <1>4, <1>8
  <1>12. Len(p) \in Nat /\ Len(p) >= 11 /\ \A i \in 1 .. Len(p) : i \in 1 .. 11 \/ i \in 12 .. Len(p)
    BY <1>8
  <1>13. Final(p, 11)
    <2>1. \A m \in 11 .. Len(p) : m = 11 \/ m \in 12 .. Len(p)
      BY <1>12
    <2> QED BY <2>1, <1>9, <1>11 DEF Final
  <1>14. IsoFits(p)
    BY <1>7, <1>10, <1>11, <1>12 DEF IsoFits, TidyEnd, Section, Tidy
  <1>15. OpenFirst(p)
    <2>1. ASSUME NEW i \in 1 .. Len(p), p[i].op \in {"write", "sync", "read"}
          PROVE  1 \in 1 .. i - 1
      BY <2>1, <1>9, <1>12
    <2> QED BY <2>1, <1>9 DEF OpenFirst
  <1>16. FlushedReads(p)
    <2>1. ASSUME NEW i \in 1 .. Len(p), p[i].op = "read"
          PROVE  11 \in 1 .. i - 1
      <3>1. i \notin 1 .. 11
        BY <2>1, <1>10
      <3>2. i \in 12 .. Len(p)
        BY <3>1, <1>12
      <3> QED BY <3>2
    <2> QED BY <2>1, <1>13 DEF FlushedReads
  <1>17. 11 \in 1 .. Len(p)
    BY <1>12
  <1> QED BY <1>2, <1>7, <1>13, <1>14, <1>15, <1>16, <1>17 DEF Sound, Section

LEMMA UpdateRight == Sound(Plan["update"]) /\ UpdateFits(Plan["update"])
  <1> DEFINE h == <<Enter(11), Show(2), Open, Look, Show(6), Detect, Look, Show(10), Show(11), Commit>>
             y == Asset("efi", 12, 90)
             t == <<Show(97), Put("core"), Put("table"), Show(98), Sync, Show(100)>>
             hy == h \o y
             p == hy \o t
             n == 2 * Chunks + 1
  <1>1. Plan["update"] = p
    BY DEF Plan, Kinds, VentoyKinds, Installs, UpdatePlan
  <1>2. Chunks \in Nat \ {0} /\ n \in Nat /\ n >= 3
    BY ChunksAssumption
  <1>3. /\ h \in Seq(Steps) /\ Len(h) = 10
        /\ h[1].op = "enter" /\ h[1].n = 11 /\ h[3].op = "open" /\ h[10].op = "commit"
        /\ \A i \in 2 .. 9 : h[i].op \in {"show", "open", "look", "detect"}
    <2>1. h \in Seq(Steps) /\ Len(h) = 10
      BY DEF Enter, Show, Open, Look, Detect, Commit, Step, Steps, OpNames
    <2>2. /\ h[1].op = "enter" /\ h[1].n = 11 /\ h[3].op = "open" /\ h[10].op = "commit"
          /\ h[2].op = "show" /\ h[4].op = "look" /\ h[5].op = "show" /\ h[6].op = "detect"
          /\ h[7].op = "look" /\ h[8].op = "show" /\ h[9].op = "show"
      BY DEF Enter, Show, Open, Look, Detect, Commit, Step
    <2> HIDE DEF h
    <2>3. \A i \in 2 .. 9 : i \in {2, 3, 4, 5, 6, 7, 8, 9}
      OBVIOUS
    <2> QED BY <2>1, <2>2, <2>3
  <1>4. /\ y \in Seq(Steps) /\ Len(y) = n /\ Closed(y)
        /\ y[2 * Chunks - 1] = Put("efi")
        /\ \A i \in 1 .. Len(y) : /\ y[i].op \in {"show", "look", "write"}
                                  /\ y[i].op = "write" => y[i].area = "efi"
    <2>1. "efi" \in Areas
      BY DEF Areas
    <2>2. Closed(y)
      BY <2>1, AssetSection DEF Section
    <2>3. Chunks \in 1 .. Chunks
      BY <1>2
    <2> QED BY <2>1, <2>2, <2>3, AssetSteps
  <1>5. /\ t \in Seq(Steps) /\ Len(t) = 6 /\ t[1].op = "show"
        /\ t[2] = Put("core") /\ t[3] = Put("table")
        /\ t[4].op = "show" /\ t[5].op = "sync" /\ t[6].op = "show"
    BY DEF Put, Show, Sync, Step, Steps, OpNames, Areas
  <1> HIDE DEF h, y, t, n
  <1>6. /\ hy \in Seq(Steps) /\ Len(hy) = 10 + n
        /\ \A i \in 1 .. 10 : hy[i] = h[i]
        /\ \A i \in 1 .. n : hy[10 + i] = y[i]
    <2>1. /\ hy \in Seq(Steps) /\ Len(hy) = Len(h) + Len(y)
          /\ \A i \in 1 .. Len(h) : hy[i] = h[i]
          /\ \A i \in 1 .. Len(y) : hy[Len(h) + i] = y[i]
      BY <1>3, <1>4, Concat
    <2> HIDE DEF hy
    <2> QED BY <2>1, <1>3, <1>4
  <1> HIDE DEF hy
  <1>7. /\ p \in Seq(Steps) /\ Len(p) = 16 + n
        /\ \A i \in 1 .. 10 + n : p[i] = hy[i]
        /\ \A i \in 1 .. 6 : p[10 + n + i] = t[i]
    <2>1. /\ p \in Seq(Steps) /\ Len(p) = Len(hy) + Len(t)
          /\ \A i \in 1 .. Len(hy) : p[i] = hy[i]
          /\ \A i \in 1 .. Len(t) : p[Len(hy) + i] = t[i]
      BY <1>5, <1>6, Concat
    <2> HIDE DEF p
    <2> QED BY <2>1, <1>5, <1>6, <1>2
  <1>8. /\ p \in Seq(Steps) /\ Len(p) = 16 + n
        /\ \A i \in 1 .. 10 : p[i] = h[i]
        /\ \A i \in 1 .. n : p[10 + i] = y[i]
        /\ p[11 + n] = t[1] /\ p[12 + n] = t[2] /\ p[13 + n] = t[3]
        /\ p[14 + n] = t[4] /\ p[15 + n] = t[5] /\ p[16 + n] = t[6]
    <2> HIDE DEF p
    <2>1. \A i \in 1 .. 10 : i \in 1 .. 10 + n
      BY <1>2
    <2>2. \A i \in 1 .. n : 10 + i \in 1 .. 10 + n
      BY <1>2
    <2>3. /\ p[10 + n + 1] = t[1] /\ p[10 + n + 2] = t[2] /\ p[10 + n + 3] = t[3]
          /\ p[10 + n + 4] = t[4] /\ p[10 + n + 5] = t[5] /\ p[10 + n + 6] = t[6]
      BY <1>7
    <2>4. /\ 10 + n + 1 = 11 + n /\ 10 + n + 2 = 12 + n /\ 10 + n + 3 = 13 + n
          /\ 10 + n + 4 = 14 + n /\ 10 + n + 5 = 15 + n /\ 10 + n + 6 = 16 + n
      BY <1>2
    <2> QED BY <2>1, <2>2, <2>3, <2>4, <1>6, <1>7
  <1> HIDE DEF p
  <1>8a. Len(p) = 16 + n /\ n \in Nat
    BY <1>2, <1>8
  <1>9. ASSUME NEW i \in 1 .. Len(p)
        PROVE  \/ i \in 1 .. 10
               \/ \E j \in 1 .. n : i = 10 + j
               \/ i \in {11 + n, 12 + n, 13 + n, 14 + n, 15 + n, 16 + n}
    <2>1. CASE i <= 10
      BY <2>1, <1>8a
    <2>2. CASE i > 10 /\ i <= 10 + n
      <3>1. i - 10 \in 1 .. n /\ i = 10 + (i - 10)
        BY <2>2, <1>2
      <3> QED BY <3>1
    <2>3. CASE i > 10 + n
      BY <2>3, <1>8a
    <2> QED BY <2>1, <2>2, <2>3, <1>8a
  <1>10. /\ p[1].op = "enter" /\ p[1].n = 11 /\ p[3].op = "open" /\ p[10].op = "commit"
         /\ \A i \in 2 .. 9 : p[i].op \in {"show", "open", "look", "detect"}
    <2>1. \A i \in {1, 3, 10} : i \in 1 .. 10
      OBVIOUS
    <2>2. \A i \in 2 .. 9 : i \in 1 .. 10
      OBVIOUS
    <2> QED BY <2>1, <2>2, <1>3, <1>8
  <1>11. \A j \in 1 .. n : /\ p[10 + j].op \in {"show", "look", "write"}
                           /\ p[10 + j].op = "write" => p[10 + j].area = "efi"
    BY <1>4, <1>8
  <1>12. /\ p[11 + n].op = "show" /\ p[14 + n].op = "show" /\ p[16 + n].op = "show"
         /\ p[15 + n].op = "sync"
         /\ p[12 + n].op = "write" /\ p[12 + n].area = "core" /\ p[12 + n].n = 1
         /\ p[13 + n].op = "write" /\ p[13 + n].area = "table" /\ p[13 + n].n = 1
    BY <1>5, <1>8 DEF Put, Step
  <1>13. \A i \in 1 .. 10 : i = 1 \/ i \in 2 .. 9 \/ i = 10
    OBVIOUS
  <1>14. ASSUME NEW i \in 1 .. Len(p)
         PROVE  /\ p[i].op \notin {"poll", "read"}
                /\ p[i].op = "enter" => i = 1
                /\ i < 10 => p[i].op \notin {"write", "commit"}
                /\ p[i].op \in {"write", "sync"} => i > 10
    <2>1. ASSUME i \in 1 .. 10
          PROVE  /\ p[i].op \in {"enter", "show", "open", "look", "detect", "commit"}
                 /\ p[i].op = "enter" => i = 1
                 /\ i < 10 => p[i].op # "commit"
      <3>1. CASE i = 1
        BY <3>1, <1>10
      <3>2. CASE i \in 2 .. 9
        <4>1. p[i].op \in {"show", "open", "look", "detect"}
          BY <3>2, <1>10
        <4> QED BY <4>1
      <3>3. CASE i = 10
        BY <3>3, <1>10
      <3> QED BY <2>1, <3>1, <3>2, <3>3, <1>13, Zenon
    <2>2. ASSUME \E j \in 1 .. n : i = 10 + j
          PROVE  p[i].op \in {"show", "look", "write"} /\ i > 10
      BY <2>2, <1>11, <1>2
    <2>3. ASSUME i \in {11 + n, 12 + n, 13 + n, 14 + n, 15 + n, 16 + n}
          PROVE  p[i].op \in {"show", "write", "sync"} /\ i > 10
      <3>1. p[i].op \in {"show", "write", "sync"}
        BY ONLY <2>3, <1>12, Zenon
      <3>2. i > 10
        BY ONLY <2>3, <1>8a
      <3> QED BY <3>1, <3>2
    <2>4. p[i].op \notin {"poll", "read"}
      BY <1>9, <2>1, <2>2, <2>3
    <2>5. p[i].op = "enter" => i = 1
      BY <1>9, <2>1, <2>2, <2>3
    <2>6. i < 10 => p[i].op \notin {"write", "commit"}
      BY <1>9, <2>1, <2>2, <2>3
    <2>7. p[i].op \in {"write", "sync"} => i > 10
      BY <1>9, <2>1, <2>2, <2>3
    <2> QED BY <2>4, <2>5, <2>6, <2>7
  <1>15. Closed(p)
    <2>1. ASSUME NEW i \in 1 .. Len(p), p[i].op = "write", p[i].n # 1
          PROVE  \E j \in i + 1 .. Len(p) : Writes(p[j], p[i].area)
      <3>1. PICK q \in 1 .. n : i = 10 + q
        BY <1>9, <1>10, <1>12, <1>13, <1>14, <2>1
      <3>2. PICK j \in q + 1 .. n : Writes(y[j], y[q].area)
        BY <3>1, <2>1, <1>8, <1>4 DEF Closed
      <3>3. 10 + j \in i + 1 .. Len(p) /\ p[10 + j] = y[j] /\ p[i] = y[q]
        <4>1. 10 + j \in i + 1 .. Len(p) /\ j \in 1 .. n
          BY <3>1, <3>2, <1>8a
        <4> QED BY <4>1, <3>1, <1>8
      <3> QED BY <3>2, <3>3
    <2> QED BY <2>1 DEF Closed
  <1>16. OpenFirst(p) /\ FlushedReads(p)
    <2>1. ASSUME NEW i \in 1 .. Len(p), p[i].op \in {"write", "sync", "read"}
          PROVE  p[i].op # "read" /\ 3 \in 1 .. i - 1
      BY <2>1, <1>14
    <2> QED BY <2>1, <1>10 DEF OpenFirst, FlushedReads
  <1>17. Final(p, 15 + n) /\ 15 + n \in 1 .. Len(p)
    <2>1. \A m \in 15 + n .. Len(p) : m = 15 + n \/ m = 16 + n
      BY <1>8a
    <2>2. 15 + n \in 1 .. Len(p)
      BY <1>8a
    <2> QED BY <2>1, <2>2, <1>12 DEF Final
  <1>18. TableLast(p)
    <2>1. ASSUME NEW i \in 1 .. Len(p), p[i].op = "write", p[i].area = "table"
          PROVE  i = 13 + n
      BY <1>9, <1>10, <1>11, <1>12, <1>13, <2>1
    <2>2. ASSUME NEW j \in 13 + n .. Len(p), NEW a \in {"core", "efi"}
          PROVE  ~(p[j].op = "write" /\ p[j].area = a)
      <3>1. j \in {13 + n, 14 + n, 15 + n, 16 + n}
        BY <1>8, <1>2
      <3> QED BY <3>1, <1>12
    <2>3. 12 + n \in 1 .. (13 + n) - 1
      BY <1>2
    <2>4. /\ 2 * Chunks - 1 \in 1 .. n
          /\ 10 + (2 * Chunks - 1) \in 1 .. (13 + n) - 1
          /\ p[10 + (2 * Chunks - 1)] = Put("efi")
      <3>1. 2 * Chunks - 1 \in 1 .. n
        BY <1>2 DEF n
      <3> QED BY <3>1, <1>2, <1>4, <1>8
    <2>5. \E j \in 1 .. (13 + n) - 1 : Writes(p[j], "core")
      BY <2>3, <1>12 DEF Writes
    <2>6. \E j \in 1 .. (13 + n) - 1 : Writes(p[j], "efi")
      BY <2>4 DEF Writes, Put, Step
    <2> QED BY <2>1, <2>2, <2>5, <2>6 DEF TableLast, Writes
  <1> QED BY <1>1, <1>2, <1>8, <1>10, <1>14, <1>15, <1>16, <1>17, <1>18 DEF Sound, UpdateFits

Fits(k) ==
    /\ Sound(Plan[k])
    /\ k \in Installs => InstallFits(Plan[k])
    /\ k = "update" => UpdateFits(Plan[k])
    /\ k \notin VentoyKinds => IsoFits(Plan[k])

LEMMA PlanFacts == \A k \in Kinds : Fits(k)
  <1>1. "update" \notin Installs /\ VentoyKinds = Installs \cup {"update"}
    BY DEF Installs, VentoyKinds
  <1>2. ASSUME NEW k \in Installs
        PROVE  Fits(k)
    BY <1>1, <1>2, InstallRight DEF Fits
  <1>3. Fits("update")
    BY <1>1, UpdateRight DEF Fits
  <1>4. ASSUME NEW k \in Kinds \ VentoyKinds
        PROVE  Fits(k)
    BY <1>1, <1>4, IsoRight DEF Fits
  <1> QED BY <1>1, <1>2, <1>3, <1>4

-----------------------------------------------------------------------------
(* How far a plan has got, when s is its next step.                        *)

Opened(p, s) == \E j \in 1 .. s - 1 : p[j].op = "open"
Past(p, s, a) == /\ \E i \in 1 .. s - 1 : i <= Len(p) /\ Writes(p[i], a)
                 /\ \A j \in s .. Len(p) : ~Writes(p[j], a)
Flushed(p, s) == \E j \in 1 .. s - 1 : j <= Len(p) /\ Final(p, j)
ReadBack(p, s, a) == \E i \in 1 .. s - 1 : i <= Len(p) /\ p[i].op = "read" /\ p[i].area = a

LEMMA AtFirst ==
    ASSUME NEW p
    PROVE  /\ ~Opened(p, 1) /\ ~Flushed(p, 1)
           /\ \A a : ~Past(p, 1, a) /\ ~ReadBack(p, 1, a)
  BY DEF Opened, Flushed, Past, ReadBack

LEMMA NextPlace ==
    ASSUME NEW p, Sound(p), NEW s \in 1 .. Len(p)
    PROVE  /\ Opened(p, s) => Opened(p, s + 1)
           /\ Opened(p, s + 1) => Opened(p, s) \/ p[s].op = "open"
           /\ p[s].op \in {"write", "sync", "read"} => Opened(p, s)
           /\ Flushed(p, s + 1) => Flushed(p, s) \/ p[s].op = "sync"
           /\ Flushed(p, s) => p[s].op # "write"
           /\ p[s].op = "read" => Flushed(p, s)
           /\ \A a : Past(p, s + 1, a) =>
                \/ Past(p, s, a) /\ ~Writes(p[s], a)
                \/ Writes(p[s], a) /\ p[s].n = 1
           /\ \A a : ReadBack(p, s + 1, a) =>
                ReadBack(p, s, a) \/ (p[s].op = "read" /\ p[s].area = a)
  <1>1. Len(p) \in Nat /\ s \in Nat
    BY LenProperties DEF Sound
  <1>2. \A i \in 1 .. (s + 1) - 1 : i \in 1 .. s - 1 \/ i = s
    BY <1>1
  <1>3. \A i \in 1 .. s - 1 : i \in 1 .. (s + 1) - 1
    BY <1>1
  <1>4. /\ Opened(p, s) => Opened(p, s + 1)
        /\ Opened(p, s + 1) => Opened(p, s) \/ p[s].op = "open"
    BY <1>2, <1>3 DEF Opened
  <1>5. p[s].op \in {"write", "sync", "read"} => Opened(p, s)
    BY DEF Sound, OpenFirst, Opened
  <1>6. Flushed(p, s + 1) => Flushed(p, s) \/ p[s].op = "sync"
    BY <1>2 DEF Flushed, Final
  <1>7. Flushed(p, s) => p[s].op # "write"
    <2>1. \A j \in 1 .. s - 1 : s \in j .. Len(p)
      BY <1>1
    <2> QED BY <2>1 DEF Flushed, Final
  <1>8. p[s].op = "read" => Flushed(p, s)
    <2>1. \A j \in 1 .. s - 1 : j <= Len(p)
      BY <1>1
    <2> QED BY <2>1 DEF Sound, FlushedReads, Flushed
  <1>9. ASSUME NEW a, Past(p, s + 1, a)
        PROVE  \/ Past(p, s, a) /\ ~Writes(p[s], a)
               \/ Writes(p[s], a) /\ p[s].n = 1
    <2>1. CASE Writes(p[s], a)
      <3>1. \A j \in s + 1 .. Len(p) : ~Writes(p[j], a)
        BY <1>9 DEF Past
      <3>2. p[s].n = 1
        BY <2>1, <3>1 DEF Sound, Closed, Writes
      <3> QED BY <2>1, <3>2
    <2>2. CASE ~Writes(p[s], a)
      <3>1. \A j \in s .. Len(p) : j = s \/ j \in s + 1 .. Len(p)
        BY <1>1
      <3> QED BY <2>2, <3>1, <1>2, <1>9 DEF Past
    <2> QED BY <2>1, <2>2
  <1>10. ASSUME NEW a, ReadBack(p, s + 1, a)
         PROVE  ReadBack(p, s, a) \/ (p[s].op = "read" /\ p[s].area = a)
    BY <1>2, <1>10 DEF ReadBack
  <1> QED BY <1>4, <1>5, <1>6, <1>7, <1>8, <1>9, <1>10

LEMMA OpenBefore ==
    ASSUME NEW p, Sound(p), NEW s \in Nat, NEW a
    PROVE  /\ Past(p, s, a) => Opened(p, s)
           /\ Flushed(p, s) => Opened(p, s)
           /\ ReadBack(p, s, a) => Opened(p, s) /\ Flushed(p, s)
  <1>1. Len(p) \in Nat
    BY LenProperties DEF Sound
  <1>2. ASSUME NEW i \in 1 .. s - 1, i <= Len(p), p[i].op \in {"write", "sync", "read"}
        PROVE  Opened(p, s)
    <2>1. i \in 1 .. Len(p) /\ \A j \in 1 .. i - 1 : j \in 1 .. s - 1
      BY <1>1, <1>2
    <2> QED BY <2>1, <1>2 DEF Sound, OpenFirst, Opened
  <1>3. Past(p, s, a) => Opened(p, s)
    BY <1>2 DEF Past, Writes
  <1>4. Flushed(p, s) => Opened(p, s)
    BY <1>2 DEF Flushed, Final
  <1>5. ASSUME ReadBack(p, s, a)
        PROVE  Opened(p, s) /\ Flushed(p, s)
    <2>1. PICK i \in 1 .. s - 1 : i <= Len(p) /\ p[i].op = "read" /\ p[i].area = a
      BY <1>5 DEF ReadBack
    <2>2. i \in 1 .. Len(p)
      BY <2>1, <1>1
    <2>3. PICK j \in 1 .. i - 1 : Final(p, j)
      BY <2>1, <2>2 DEF Sound, FlushedReads
    <2>4. j \in 1 .. s - 1 /\ j <= Len(p)
      BY <2>1, <2>2, <2>3, <1>1
    <2> QED BY <2>1, <2>3, <2>4, <1>2 DEF Flushed
  <1> QED BY <1>3, <1>4, <1>5

\* At its end a plan has flushed, written and read back all it is to.
LEMMA AtTheEnd ==
    ASSUME NEW p, Sound(p), NEW s \in Nat, s > Len(p)
    PROVE  /\ Flushed(p, s)
           /\ \A i \in 1 .. Len(p) : p[i].op = "write" => Past(p, s, p[i].area)
           /\ \A i \in 1 .. Len(p) : p[i].op = "read" => ReadBack(p, s, p[i].area)
  <1>1. Len(p) \in Nat
    BY LenProperties DEF Sound
  <1>2. /\ \A i \in 1 .. Len(p) : i \in 1 .. s - 1 /\ i <= Len(p)
        /\ s .. Len(p) = {}
    BY <1>1
  <1>3. Flushed(p, s)
    BY <1>2 DEF Sound, Flushed
  <1>4. ASSUME NEW i \in 1 .. Len(p), p[i].op = "write"
        PROVE  Past(p, s, p[i].area)
    BY <1>2, <1>4 DEF Past, Writes
  <1>5. ASSUME NEW i \in 1 .. Len(p), p[i].op = "read"
        PROVE  ReadBack(p, s, p[i].area)
    BY <1>2, <1>5 DEF ReadBack
  <1> QED BY <1>3, <1>4, <1>5

-----------------------------------------------------------------------------
(* What an action does, seen from the jobs.                                *)

JobPlan(g) == Plan[kind[g]]

\* Job g has done the step x, and goes on.
Does(g, x) ==
    /\ step' = [step EXCEPT ![g] = @ + 1] /\ outcome' = outcome /\ plugged' = plugged
    /\ x.op = "enter" => limit' = [limit EXCEPT ![g] = x.n] /\ cancelled' = cancelled \ {g}
    /\ x.op = "commit" => limit' = [limit EXCEPT ![g] = 0]
    /\ x.op \notin {"enter", "commit"} => limit' = limit
    /\ x.op # "enter" => cancelled' = cancelled
    /\ x.op = "show" => ~(g \in cancelled /\ x.n < limit[g])
    /\ x.op = "poll" => ~isoCancel
    /\ x.op = "open" => holder = 0 /\ holder' = g
    /\ x.op # "open" => holder' = holder
    /\ x.op = "write" =>
          /\ \E c \in Contents : /\ cache' = [cache EXCEPT ![x.area] = c]
                                 /\ x.n = 1 => c = g \/ <<g, x.area>> \in lied'
          /\ wrote' = [wrote EXCEPT ![g] = @ \cup {x.area}]
          /\ after' = [after EXCEPT ![g] = IF g \in must THEN @ \cup {x.area} ELSE @]
          /\ lied \subseteq lied' /\ lied' \subseteq lied \cup {<<g, x.area>>}
          /\ plugged
    /\ x.op # "write" => UNCHANGED <<cache, writes>>
    /\ x.op = "sync" => media' = cache /\ plugged
    /\ x.op # "sync" => media' = media
    /\ x.op = "read" => cache[x.area] = g

\* Job g has ended, perhaps in the middle of a write.
Ends(g, x, how) ==
    /\ step' = [step EXCEPT ![g] = 0] /\ outcome' = [outcome EXCEPT ![g] = how]
    /\ how = "cancelled" => \/ x.op = "show" /\ g \in cancelled /\ x.n < limit[g]
                            \/ x.op = "poll" /\ isoCancel
    /\ Release(g) /\ UNCHANGED <<limit, cancelled, media, plugged, lied>>
    /\ \/ UNCHANGED <<cache, wrote, after>>
       \/ /\ x.op = "write" /\ how = "failed" /\ plugged
          /\ \E c \in Contents : cache' = [cache EXCEPT ![x.area] = c]
          /\ wrote' = [wrote EXCEPT ![g] = @ \cup {x.area}]
          /\ after' = [after EXCEPT ![g] = IF g \in must THEN @ \cup {x.area} ELSE @]

OnPlan(g) == Running(g) /\ step[g] <= Len(JobPlan(g))
Ways == {"ok", "failed", "cancelled"}
Works(g) ==
    /\ UNCHANGED Others /\ Running(g) /\ mishaps' \in 0 .. MaxMishaps
    /\ \/ OnPlan(g) /\ Does(g, Here(g))
       \/ OnPlan(g) /\ \E how \in Ways \ {"ok"} : Ends(g, Here(g), how)
       \/ step[g] > Len(JobPlan(g)) /\ Ends(g, Look, "ok")

Dies == \E how \in [Jobs -> {"died", "threw"}] : AppDies(how) /\ mishaps' \in 0 .. MaxMishaps

LEMMA MishapBound ==
    ASSUME JobsTypeOK
    PROVE  (UNCHANGED mishaps \/ Mishap) => mishaps' \in 0 .. MaxMishaps
  BY BoundsAssumption DEF JobsTypeOK, Mishap

\* Ways to end a step that the steps share.
LEMMA FailureEnds ==
    ASSUME JobsTypeOK, NEW g \in Jobs, NEW x, OnPlan(g), JobFails(g), x = Here(g),
           UNCHANGED <<Others, limit, cancelled, writes>>
    PROVE  Works(g)
  <1>1. mishaps' \in 0 .. MaxMishaps
    BY MishapBound DEF JobFails
  <1>2. Ends(g, x, "failed")
    BY DEF JobFails, End, Ends, writes
  <1>3. Running(g)
    BY DEF OnPlan
  <1> QED BY <1>1, <1>2, <1>3 DEF Works, Ways

LEMMA AtPlan ==
    ASSUME NEW g \in Jobs, NEW op, At(g, op)
    PROVE  OnPlan(g) /\ Running(g) /\ Here(g).op = op
  BY DEF At, OnPlan, JobPlan

LEMMA QuietGoes ==
    ASSUME JobsTypeOK, NEW g \in Jobs, OnPlan(g), NEW x, x = Here(g),
           x.op \in {"show", "look", "detect", "poll", "read"}, Fine(g),
           x.op = "show" => ~(g \in cancelled /\ x.n < limit[g]),
           x.op = "poll" => ~isoCancel,
           x.op = "read" => cache[x.area] = g,
           UNCHANGED <<Others, limit, cancelled, writes>>
    PROVE  Works(g)
  <1>1. mishaps' \in 0 .. MaxMishaps /\ UNCHANGED driveVars
    BY MishapBound DEF Fine
  <1>2. Running(g)
    BY DEF OnPlan
  <1>3. UNCHANGED <<cache, media, plugged, holder>>
    BY <1>1 DEF driveVars
  <1>4. Does(g, x)
    BY <1>3 DEF Does, Fine, Advance
  <1> QED BY <1>1, <1>2, <1>4 DEF Works

LEMMA QuietEnds ==
    ASSUME JobsTypeOK, NEW g \in Jobs, OnPlan(g), NEW x, x = Here(g),
           NEW how \in {"failed", "cancelled"}, EndJob(g, how),
           how = "cancelled" => \/ x.op = "show" /\ g \in cancelled /\ x.n < limit[g]
                                \/ x.op = "poll" /\ isoCancel,
           UNCHANGED <<Others, limit, cancelled, writes>>
    PROVE  Works(g)
  <1>1. mishaps' \in 0 .. MaxMishaps
    BY MishapBound DEF EndJob
  <1>2. Running(g)
    BY DEF OnPlan
  <1>3. Ends(g, x, how)
    BY DEF Ends, EndJob, End, writes
  <1> QED BY <1>1, <1>2, <1>3 DEF Works, Ways

LEMMA EnterWorks ==
    ASSUME JobsTypeOK, NEW g \in Jobs, EnterStep(g)
    PROVE  Works(g)
  <1> DEFINE x == Here(g)
  <1>1. OnPlan(g) /\ Running(g) /\ x.op = "enter"
    BY AtPlan DEF EnterStep
  <1>2. mishaps' \in 0 .. MaxMishaps /\ UNCHANGED <<Others, writes>>
    BY MishapBound DEF EnterStep, Fine
  <1>3. Does(g, x)
    <2> HIDE DEF x
    <2>1. /\ cancelled' = cancelled \ {g} /\ limit' = [limit EXCEPT ![g] = x.n]
          /\ step' = [step EXCEPT ![g] = @ + 1] /\ UNCHANGED outcome
          /\ UNCHANGED <<cache, media, plugged, holder>> /\ UNCHANGED writes
      BY DEF EnterStep, Fine, Advance, driveVars, x
    <2> QED BY <1>1, <2>1 DEF Does
  <1> QED BY <1>1, <1>2, <1>3 DEF Works

LEMMA CommitWorks ==
    ASSUME JobsTypeOK, NEW g \in Jobs, CommitStep(g)
    PROVE  Works(g)
  <1> DEFINE x == Here(g)
  <1>1. OnPlan(g) /\ Running(g) /\ x.op = "commit"
    BY AtPlan DEF CommitStep
  <1>2. mishaps' \in 0 .. MaxMishaps /\ UNCHANGED <<Others, writes>>
    BY MishapBound DEF CommitStep, Fine
  <1>3. Does(g, x)
    <2> HIDE DEF x
    <2>1. /\ UNCHANGED cancelled /\ limit' = [limit EXCEPT ![g] = 0]
          /\ step' = [step EXCEPT ![g] = @ + 1] /\ UNCHANGED outcome
          /\ UNCHANGED <<cache, media, plugged, holder>> /\ UNCHANGED writes
      BY DEF CommitStep, Fine, Advance, driveVars
    <2> QED BY <1>1, <2>1 DEF Does
  <1> QED BY <1>1, <1>2, <1>3 DEF Works

LEMMA ShowWorks ==
    ASSUME JobsTypeOK, NEW g \in Jobs, ShowStep(g)
    PROVE  Works(g)
  <1>1. OnPlan(g) /\ Here(g).op = "show"
    BY AtPlan DEF ShowStep
  <1>2. CASE Heeds(g)
    BY <1>1, <1>2, QuietEnds DEF ShowStep, Heeds
  <1>3. CASE ~Heeds(g)
    BY <1>1, <1>3, QuietGoes DEF ShowStep, Heeds
  <1> QED BY <1>2, <1>3

LEMMA PollWorks ==
    ASSUME JobsTypeOK, NEW g \in Jobs, PollStep(g)
    PROVE  Works(g)
  <1>1. OnPlan(g) /\ Here(g).op = "poll"
    BY AtPlan DEF PollStep
  <1>2. CASE isoCancel
    <2>1. EndJob(g, "cancelled") /\ UNCHANGED <<Others, limit, cancelled, writes>>
      BY <1>2, Zenon DEF PollStep
    <2> QED BY <1>1, <1>2, <2>1, QuietEnds, Zenon
  <1>3. CASE ~isoCancel
    <2>1. Fine(g) /\ UNCHANGED <<Others, limit, cancelled, writes>>
      BY <1>3, Zenon DEF PollStep
    <2>2. Here(g).op # "show" /\ Here(g).op # "read"
          /\ Here(g).op \in {"show", "look", "detect", "poll", "read"}
      BY <1>1
    <2> QED BY <1>1, <1>3, <2>1, <2>2, QuietGoes, Zenon
  <1> QED BY <1>2, <1>3

LEMMA LookWorks ==
    ASSUME JobsTypeOK, NEW g \in Jobs, LookStep(g)
    PROVE  Works(g)
  <1>1. OnPlan(g) /\ Here(g).op = "look"
    BY AtPlan DEF LookStep
  <1>2. UNCHANGED <<Others, limit, cancelled, writes>> /\ (Fine(g) \/ JobFails(g))
    BY DEF LookStep
  <1> QED BY <1>1, <1>2, QuietGoes, FailureEnds

LEMMA DetectWorks ==
    ASSUME JobsTypeOK, NEW g \in Jobs, DetectStep(g)
    PROVE  Works(g)
  <1>1. OnPlan(g) /\ Here(g).op = "detect"
    BY AtPlan DEF DetectStep
  <1>2. UNCHANGED <<Others, limit, cancelled, writes>>
        /\ (Fine(g) \/ EndJob(g, "failed") \/ JobFails(g))
    BY DEF DetectStep
  <1> QED BY <1>1, <1>2, QuietGoes, QuietEnds, FailureEnds

LEMMA ReadWorks ==
    ASSUME JobsTypeOK, NEW g \in Jobs, ReadStep(g)
    PROVE  Works(g)
  <1> DEFINE x == Here(g)
  <1>1. OnPlan(g) /\ x.op = "read"
    BY AtPlan DEF ReadStep
  <1>2. /\ UNCHANGED <<Others, limit, cancelled, writes>>
        /\ \/ cache[x.area] = g /\ Fine(g)
           \/ EndJob(g, "failed")
           \/ JobFails(g)
    BY DEF ReadStep
  <1> HIDE DEF x
  <1> QED BY <1>1, <1>2, QuietGoes, QuietEnds, FailureEnds DEF x

LEMMA CompleteWorks ==
    ASSUME JobsTypeOK, NEW g \in Jobs, Complete(g)
    PROVE  Works(g)
  <1>1. Running(g) /\ step[g] > Len(JobPlan(g)) /\ EndJob(g, "ok")
        /\ UNCHANGED <<Others, limit, cancelled, writes>>
    BY DEF Complete, JobPlan
  <1>2. mishaps' \in 0 .. MaxMishaps
    BY <1>1, MishapBound DEF EndJob
  <1>3. Ends(g, Look, "ok")
    BY <1>1 DEF Ends, EndJob, End, writes
  <1> QED BY <1>1, <1>2, <1>3 DEF Works

LEMMA OpenWorks ==
    ASSUME JobsTypeOK, NEW g \in Jobs, OpenStep(g)
    PROVE  Works(g)
  <1> DEFINE x == Here(g)
  <1>1. OnPlan(g) /\ Running(g) /\ x.op = "open"
    BY AtPlan DEF OpenStep
  <1>2. UNCHANGED <<Others, limit, cancelled, writes>>
    BY DEF OpenStep
  <1>3. CASE Claim(g) /\ Advance(g) /\ UNCHANGED mishaps
    <2>1. mishaps' \in 0 .. MaxMishaps
      BY <1>3, MishapBound
    <2>2. Does(g, x)
      <3> HIDE DEF x
      <3> QED BY <1>1, <1>2, <1>3 DEF Does, Claim, Advance
    <2> QED BY <2>1, <2>2, <1>1, <1>2 DEF Works
  <1>4. CASE EndJob(g, "failed")
    <2>1. "failed" \in {"failed", "cancelled"}
      OBVIOUS
    <2> QED BY <1>1, <1>2, <1>4, <2>1, QuietEnds
  <1>5. CASE JobFails(g)
    BY <1>1, <1>2, <1>5, FailureEnds
  <1> QED BY <1>3, <1>4, <1>5 DEF OpenStep

LEMMA SyncWorks ==
    ASSUME JobsTypeOK, NEW g \in Jobs, SyncStep(g)
    PROVE  Works(g)
  <1> DEFINE x == Here(g)
  <1>1. OnPlan(g) /\ Running(g) /\ x.op = "sync"
    BY AtPlan DEF SyncStep
  <1>2. UNCHANGED <<Others, limit, cancelled, writes>>
    BY DEF SyncStep
  <1>3. CASE FlushCache /\ Advance(g) /\ UNCHANGED mishaps
    <2>1. mishaps' \in 0 .. MaxMishaps
      BY <1>3, MishapBound
    <2>2. Does(g, x)
      <3> HIDE DEF x
      <3> QED BY <1>1, <1>2, <1>3 DEF Does, FlushCache, Advance
    <2> QED BY <2>1, <2>2, <1>1, <1>2 DEF Works
  <1>4. CASE JobFails(g)
    BY <1>1, <1>2, <1>4, FailureEnds
  <1> QED BY <1>3, <1>4 DEF SyncStep

LEMMA ContentTypes ==
    ASSUME JobsTypeOK
    PROVE  /\ Torn \in Contents /\ \A g \in Jobs : g \in Contents
           /\ \A a \in Areas : cache[a] \in Contents
  BY JobsAssumption DEF JobsTypeOK, Contents, Torn, Jobs

LEMMA HereIs ==
    ASSUME JobsTypeOK, NEW g \in Jobs, OnPlan(g)
    PROVE  /\ kind[g] \in Kinds /\ kind[g] \in JobKinds /\ Sound(JobPlan(g)) /\ Fits(kind[g])
           /\ Here(g) = JobPlan(g)[step[g]] /\ Len(JobPlan(g)) \in Nat
           /\ step[g] >= 1 => step[g] \in 1 .. Len(JobPlan(g)) /\ Here(g) \in Steps
  <1>1. kind[g] \in JobKinds /\ kind[g] \in Kinds /\ step[g] \in Nat
    BY BoundsAssumption DEF JobsTypeOK, OnPlan, Running
  <1>2. Fits(kind[g]) /\ Sound(JobPlan(g)) /\ JobPlan(g) \in Seq(Steps)
    BY <1>1, PlanFacts DEF Fits, JobPlan, Sound
  <1>3. Len(JobPlan(g)) \in Nat
    BY <1>2, LenProperties
  <1>4. ASSUME step[g] >= 1
        PROVE  step[g] \in 1 .. Len(JobPlan(g)) /\ JobPlan(g)[step[g]] \in Steps
    <2>1. step[g] \in 1 .. Len(JobPlan(g))
      BY <1>1, <1>3, <1>4 DEF OnPlan
    <2> QED BY <2>1, <1>2, ElementOfSeq
  <1>5. Here(g) = JobPlan(g)[step[g]]
    BY DEF Here, JobPlan
  <1> QED BY <1>1, <1>2, <1>3, <1>4, <1>5

LEMMA WriteWorks ==
    ASSUME JobsTypeOK, NEW g \in Jobs, step[g] >= 1, WriteStep(g)
    PROVE  Works(g)
  <1> DEFINE x == Here(g)
             a == x.area
             c == IF x.n = 1 /\ <<g, a>> \notin lied THEN g ELSE Torn
  <1>1. OnPlan(g) /\ Running(g) /\ x.op = "write"
    BY AtPlan DEF WriteStep
  <1>2. x \in Steps /\ a \in Areas
    BY <1>1, HereIs DEF Steps
  <1>3. /\ c \in Contents /\ Torn \in Contents /\ cache[a] \in Contents
        /\ x.n = 1 => c = g \/ <<g, a>> \in lied
    BY <1>2, ContentTypes
  <1>4. /\ UNCHANGED <<Others, limit, cancelled>>
        /\ wrote' = [wrote EXCEPT ![g] = IF plugged THEN @ \cup {a} ELSE @]
        /\ after' = [after EXCEPT ![g] = IF plugged /\ g \in must THEN @ \cup {a} ELSE @]
    BY DEF WriteStep
  <1>5. \/ plugged /\ Accept(a, c) /\ Advance(g) /\ UNCHANGED <<mishaps, lied>>
        \/ plugged /\ Accept(a, Torn) /\ Advance(g) /\ Mishap /\ lied' = lied \cup {<<g, a>>}
        \/ /\ plugged /\ End(g, "failed") /\ Release(g) /\ Mishap
           /\ \E d \in {cache[a], Torn, c} : cache' = [cache EXCEPT ![a] = d]
           /\ UNCHANGED <<media, plugged, lied>>
        \/ ~plugged /\ JobFails(g) /\ UNCHANGED lied
    BY DEF WriteStep
  <1>6. wrote \in [Jobs -> SUBSET Areas] /\ after \in [Jobs -> SUBSET Areas]
    BY DEF JobsTypeOK
  <1>7. plugged => /\ wrote' = [wrote EXCEPT ![g] = @ \cup {a}]
                   /\ after' = [after EXCEPT ![g] = IF g \in must THEN @ \cup {a} ELSE @]
    BY <1>4
  <1> HIDE DEF c
  <1>8. CASE plugged /\ Accept(a, c) /\ Advance(g) /\ UNCHANGED <<mishaps, lied>>
    <2>1. mishaps' \in 0 .. MaxMishaps
      BY <1>8, MishapBound
    <2> HIDE DEF x
    <2>2. Does(g, x)
      BY <1>1, <1>3, <1>4, <1>7, <1>8 DEF Does, Accept, Advance
    <2> QED BY <2>1, <2>2, <1>1, <1>4 DEF Works, x
  <1>9. CASE plugged /\ Accept(a, Torn) /\ Advance(g) /\ Mishap /\ lied' = lied \cup {<<g, a>>}
    <2>1. mishaps' \in 0 .. MaxMishaps
      BY <1>9, MishapBound
    <2> HIDE DEF x
    <2>2. Does(g, x)
      BY <1>1, <1>3, <1>4, <1>7, <1>9 DEF Does, Accept, Advance
    <2> QED BY <2>1, <2>2, <1>1, <1>4 DEF Works, x
  <1>10. CASE /\ plugged /\ End(g, "failed") /\ Release(g) /\ Mishap
              /\ \E d \in {cache[a], Torn, c} : cache' = [cache EXCEPT ![a] = d]
              /\ UNCHANGED <<media, plugged, lied>>
    <2>1. mishaps' \in 0 .. MaxMishaps
      BY <1>10, MishapBound
    <2> HIDE DEF x
    <2>2. \E d \in Contents : cache' = [cache EXCEPT ![a] = d]
      BY <1>10, <1>3
    <2>3. Ends(g, x, "failed")
      BY <1>1, <1>4, <1>7, <1>10, <2>2 DEF Ends, End
    <2> QED BY <2>1, <2>3, <1>1, <1>4 DEF Works, Ways, x
  <1>11. CASE ~plugged /\ JobFails(g) /\ UNCHANGED lied
    <2>1. UNCHANGED <<wrote, after, lied>>
      BY <1>4, <1>6, <1>11
    <2> QED BY <1>1, <1>4, <1>11, <2>1, FailureEnds DEF writes
  <1> QED BY <1>5, <1>8, <1>9, <1>10, <1>11

LEMMA WorkerIs ==
    ASSUME JobsTypeOK, NEW g \in Jobs, Running(g) => step[g] >= 1, Worker(g)
    PROVE  Works(g) \/ Dies \/ Report(g)
  <1>1. CASE WriteStep(g)
    <2>1. step[g] >= 1
      BY <1>1, AtPlan DEF WriteStep
    <2> QED BY <1>1, <2>1, WriteWorks
  <1>2. CASE ShowThrows(g)
    <2>1. [h \in Jobs |-> IF h = g THEN "threw" ELSE "died"] \in [Jobs -> {"died", "threw"}]
      OBVIOUS
    <2>2. mishaps' \in 0 .. MaxMishaps
      BY <1>2, MishapBound DEF ShowThrows
    <2> QED BY <1>2, <2>1, <2>2 DEF ShowThrows, Dies
  <1> QED BY <1>1, <1>2, EnterWorks, CommitWorks, ShowWorks, PollWorks, OpenWorks, LookWorks,
             DetectWorks, SyncWorks, ReadWorks, CompleteWorks DEF Worker

-----------------------------------------------------------------------------
(* Types, and what the registry says of the jobs.                          *)

\* A job that runs is the one its mode is registered for; the rest are new, or
\* have ended.
EntriesRight ==
    /\ \A g \in Jobs : Running(g) => entry[ModeOf(kind[g])] = g /\ step[g] >= 1
    /\ \A m \in JobModes : entry[m] # 0 =>
          kind[entry[m]] # "none" /\ ModeOf(kind[entry[m]]) = m
    /\ active = entry["ventoy"]
    /\ \A g \in Jobs : kind[g] = "none" =>
          /\ outcome[g] = "none" /\ g \notin stopping /\ g \notin must
          /\ wrote[g] = {} /\ after[g] = {} /\ \A a : <<g, a>> \notin lied

Basics == JobsTypeOK /\ EntriesRight

Event ==
    \/ \E g \in Jobs, k \in JobKinds : Tap(g, k)
    \/ \E g \in Jobs : Works(g) \/ Report(g) \/ RunHook(g)
    \/ \E m \in JobModes : PressStop(m)
    \/ Dies \/ PullOut \/ PlugIn
    \/ UNCHANGED driveJobVars

LEMMA NextIsEvent == Basics /\ [JobsNext]_driveJobVars => Event
  <1> SUFFICES ASSUME Basics, JobsNext
               PROVE  Event
    BY DEF Event
  <1>1. ASSUME NEW g \in Jobs, Worker(g)
        PROVE  Works(g) \/ Dies \/ Report(g)
    BY <1>1, WorkerIs DEF Basics, EntriesRight
  <1>2. CASE Killed
    <2>1. [g \in Jobs |-> "died"] \in [Jobs -> {"died", "threw"}]
      OBVIOUS
    <2>2. mishaps' \in 0 .. MaxMishaps
      BY <1>2, MishapBound DEF Killed, Basics
    <2> QED BY <1>2, <2>1, <2>2 DEF Killed, Dies, Event
  <1> QED BY <1>1, <1>2 DEF JobsNext, Event

LEMMA StepHere ==
    ASSUME Basics, NEW g \in Jobs, OnPlan(g)
    PROVE  /\ step[g] \in 1 .. Len(JobPlan(g)) /\ Here(g) \in Steps
           /\ Here(g) = JobPlan(g)[step[g]]
           /\ Sound(JobPlan(g)) /\ Fits(kind[g]) /\ kind[g] \in Kinds
           /\ Here(g).op = "enter" => Here(g).n \in {11, 97}
  <1>1. step[g] >= 1
    BY DEF OnPlan, Basics, EntriesRight
  <1>2. /\ step[g] \in 1 .. Len(JobPlan(g)) /\ Here(g) \in Steps
        /\ Here(g) = JobPlan(g)[step[g]]
        /\ Sound(JobPlan(g)) /\ Fits(kind[g]) /\ kind[g] \in Kinds
    BY <1>1, HereIs DEF Basics
  <1>3. ASSUME Here(g).op = "enter"
        PROVE  Here(g).n \in {11, 97}
    <2>1. CASE kind[g] \in Installs
      BY <2>1, <1>2, <1>3 DEF Fits, InstallFits, JobPlan
    <2>2. CASE kind[g] = "update"
      BY <2>2, <1>2, <1>3 DEF Fits, UpdateFits, JobPlan
    <2>3. CASE kind[g] \notin VentoyKinds
      BY <2>3, <1>2, <1>3 DEF Fits, IsoFits, JobPlan
    <2> QED BY <2>1, <2>2, <2>3 DEF VentoyKinds
  <1> QED BY <1>2, <1>3

LEMMA WorksTypes ==
    ASSUME Basics, NEW g \in Jobs, Works(g)
    PROVE  JobsTypeOK'
  <1>1. JobsTypeOK
    BY DEF Basics
  <1>2. UNCHANGED <<kind, isoCancel, active, entry, stopping, hooks, must, late>>
        /\ mishaps' \in 0 .. MaxMishaps
    BY DEF Works, Others, stopVars
  <1>3. ASSUME OnPlan(g), Does(g, Here(g))
        PROVE  JobsTypeOK'
    <2> DEFINE x == Here(g)
    <2>1. x \in Steps /\ (x.op = "enter" => x.n \in {11, 97}) /\ Does(g, x)
      BY <1>3, StepHere
    <2> HIDE DEF x
    <2>2. x.op = "write" => x.area \in Areas
      BY <2>1 DEF Steps
    <2>3. cache' \in [Areas -> Contents] /\ media' \in [Areas -> Contents]
      BY <1>1, <2>1, <2>2 DEF Does, JobsTypeOK
    <2>4. step' \in [Jobs -> Nat] /\ plugged' \in BOOLEAN
          /\ outcome' \in [Jobs -> {"none", "ok", "failed", "cancelled", "threw", "died"}]
      BY <1>1, <2>1 DEF Does, JobsTypeOK
    <2>5. limit' \in [Jobs -> {0, 11, 97}] /\ cancelled' \subseteq Jobs
      BY <1>1, <2>1 DEF Does, JobsTypeOK
    <2>6. holder' \in Jobs \cup {0}
      BY <1>1, <2>1 DEF Does, JobsTypeOK
    <2>7. wrote' \in [Jobs -> SUBSET Areas] /\ after' \in [Jobs -> SUBSET Areas]
          /\ lied' \subseteq Jobs \X Areas
      BY <1>1, <2>1, <2>2 DEF Does, JobsTypeOK, writes
    <2> QED BY <1>1, <1>2, <2>3, <2>4, <2>5, <2>6, <2>7 DEF JobsTypeOK
  <1>4. ASSUME NEW x, NEW how \in Ways, Ends(g, x, how), x.op = "write" => x.area \in Areas
        PROVE  JobsTypeOK'
    <2>1. cache' \in [Areas -> Contents] /\ media' \in [Areas -> Contents]
      BY <1>1, <1>4 DEF Ends, JobsTypeOK
    <2>2. step' \in [Jobs -> Nat] /\ plugged' \in BOOLEAN
          /\ outcome' \in [Jobs -> {"none", "ok", "failed", "cancelled", "threw", "died"}]
      BY <1>1, <1>4 DEF Ends, JobsTypeOK, Ways
    <2>3. limit' \in [Jobs -> {0, 11, 97}] /\ cancelled' \subseteq Jobs
          /\ holder' \in Jobs \cup {0} /\ lied' \subseteq Jobs \X Areas
      BY <1>1, <1>4 DEF Ends, JobsTypeOK, Release
    <2>4. wrote' \in [Jobs -> SUBSET Areas] /\ after' \in [Jobs -> SUBSET Areas]
      BY <1>1, <1>4 DEF Ends, JobsTypeOK
    <2> QED BY <1>1, <1>2, <2>1, <2>2, <2>3, <2>4 DEF JobsTypeOK
  <1>5. ASSUME OnPlan(g)
        PROVE  Here(g).op = "write" => Here(g).area \in Areas
    BY <1>5, StepHere DEF Steps
  <1>6. Look.op # "write"
    BY DEF Look, Step
  <1> QED BY <1>3, <1>4, <1>5, <1>6 DEF Works, Ways

LEMMA DiesTypes ==
    ASSUME Basics, Dies
    PROVE  JobsTypeOK'
  <1>1. PICK how \in [Jobs -> {"died", "threw"}] : AppDies(how) /\ mishaps' \in 0 .. MaxMishaps
    BY DEF Dies
  <1>2. outcome' \in [Jobs -> {"none", "ok", "failed", "cancelled", "threw", "died"}]
    BY <1>1 DEF AppDies, Basics, JobsTypeOK
  <1>3. /\ step' = [g \in Jobs |-> 0] /\ holder' = 0 /\ entry' = [m \in JobModes |-> 0]
        /\ active' = 0 /\ isoCancel' = FALSE /\ hooks' = {}
        /\ UNCHANGED <<cache, media, plugged, kind, limit, cancelled, stopping,
                       must, late, wrote, after, lied>>
    BY <1>1 DEF AppDies, writes
  <1>4. JobsTypeOK
    BY DEF Basics
  <1> QED BY <1>1, <1>2, <1>3, <1>4 DEF JobsTypeOK

LEMMA TapTypes ==
    ASSUME Basics, NEW g \in Jobs, NEW k \in JobKinds, Tap(g, k)
    PROVE  JobsTypeOK'
  <1>1. /\ kind' = [kind EXCEPT ![g] = k] /\ step' = [step EXCEPT ![g] = 1]
        /\ entry' = [entry EXCEPT ![ModeOf(k)] = g]
        /\ UNCHANGED <<cache, media, plugged, holder, outcome, limit, cancelled,
                       stopping, hooks, must, late, wrote, after, lied, mishaps>>
    BY DEF Tap, driveVars, stopVars, writes
  <1>2. active' \in Jobs \cup {0} /\ isoCancel' \in BOOLEAN
    BY DEF Tap, TapVentoy, TapIso, Basics, JobsTypeOK
  <1>3. JobsTypeOK
    BY DEF Basics
  <1> QED BY <1>1, <1>2, <1>3 DEF JobsTypeOK

LEMMA HookTypes ==
    ASSUME Basics, NEW g \in Jobs, RunHook(g)
    PROVE  JobsTypeOK'
  <1>1. JobsTypeOK
    BY DEF Basics
  <1>2. \A m \in JobModes : Reached(m) \subseteq Jobs
    BY <1>1 DEF Reached, JobsTypeOK, JobModes
  <1> DEFINE m == ModeOf(kind[g])
  <1>3. m \in JobModes
    BY DEF ModeOf, JobModes
  <1>4. /\ hooks' = hooks \ {g} /\ cancelled' = cancelled \cup (IF m = "ventoy" THEN Reached(m) ELSE {})
        /\ late' = late \cup (Reached(m) \ {g})
        /\ must' = must \cup {h \in Reached(m) : StillLooks(h)}
        /\ UNCHANGED <<cache, media, plugged, holder, kind, step, outcome, limit, active,
                       entry, stopping, wrote, after, lied, mishaps>>
    BY DEF RunHook, driveVars, writes
  <1>5. isoCancel' \in BOOLEAN
    BY Zenon DEF RunHook
  <1> HIDE DEF m
  <1>6. /\ hooks' \subseteq stopping /\ cancelled' \subseteq Jobs /\ late' \subseteq Jobs
        /\ must' \subseteq Jobs
    BY <1>1, <1>2, <1>3, <1>4 DEF JobsTypeOK
  <1> QED BY <1>1, <1>4, <1>5, <1>6 DEF JobsTypeOK

LEMMA OtherTypes ==
    ASSUME Basics,
           \/ \E g \in Jobs : Report(g)
           \/ \E m \in JobModes : PressStop(m)
           \/ PullOut \/ PlugIn \/ UNCHANGED driveJobVars
    PROVE  JobsTypeOK'
  <1>1. JobsTypeOK
    BY DEF Basics
  <1>2. ASSUME NEW g \in Jobs, Report(g)
        PROVE  JobsTypeOK'
    <2>1. entry' \in [JobModes -> Jobs \cup {0}] /\ active' \in Jobs \cup {0}
      BY <1>1, <1>2 DEF Report, JobsTypeOK
    <2> QED BY <1>1, <1>2, <2>1
          DEF Report, JobsTypeOK, driveVars, stopVars, writes
  <1>3. ASSUME NEW m \in JobModes, PressStop(m)
        PROVE  JobsTypeOK'
    BY <1>1, <1>3 DEF PressStop, JobsTypeOK, driveVars, jobVars, writes
  <1>4. CASE PullOut
    <2>1. cache' \in [Areas -> Contents] /\ media' \in [Areas -> Contents] /\ plugged' \in BOOLEAN
          /\ holder' = holder
      <3>1. PICK S \in SUBSET {a \in Areas : cache[a] # media[a]} :
              cache' = [a \in Areas |-> IF a \in S THEN cache[a] ELSE media[a]]
        BY <1>4 DEF PullOut, Unplug
      <3>2. cache' \in [Areas -> Contents]
        BY <1>1, <3>1 DEF JobsTypeOK
      <3> QED BY <1>4, <3>2 DEF PullOut, Unplug
    <2>2. mishaps' \in 0 .. MaxMishaps
      BY <1>1, <1>4, MishapBound DEF PullOut
    <2> QED BY <1>1, <1>4, <2>1, <2>2 DEF PullOut, JobsTypeOK, jobVars, stopVars, writes
  <1>5. CASE PlugIn
    BY <1>1, <1>5 DEF PlugIn, Replug, JobsTypeOK, jobVars, stopVars, writes
  <1>6. CASE UNCHANGED driveJobVars
    BY <1>1, <1>6 DEF driveJobVars, driveVars, jobVars, stopVars, writes, JobsTypeOK
  <1> QED BY <1>2, <1>3, <1>4, <1>5, <1>6

LEMMA TypesKept ==
    ASSUME Basics, Event
    PROVE  JobsTypeOK'
  BY WorksTypes, DiesTypes, TapTypes, HookTypes, OtherTypes DEF Event

\* A step of one job leaves the others as they are.
LEMMA OthersAs ==
    ASSUME Basics, NEW g \in Jobs, Works(g)
    PROVE  /\ UNCHANGED <<kind, isoCancel, active, entry, stopping, hooks, must, late>>
           /\ Running(g) /\ kind[g] \in Kinds
           /\ \/ step'[g] = step[g] + 1 /\ outcome'[g] = "none"
              \/ outcome'[g] \in Ways
           /\ \A h \in Jobs \ {g} :
                /\ step'[h] = step[h] /\ outcome'[h] = outcome[h] /\ limit'[h] = limit[h]
                /\ wrote'[h] = wrote[h] /\ after'[h] = after[h]
                /\ h \in cancelled' <=> h \in cancelled
                /\ \A a : <<h, a>> \in lied' <=> <<h, a>> \in lied
  <1>1. JobsTypeOK
    BY DEF Basics
  <1>2. UNCHANGED <<kind, isoCancel, active, entry, stopping, hooks, must, late>>
        /\ Running(g)
    BY DEF Works, Others, stopVars
  <1>3. kind[g] \in Kinds
    BY <1>1, <1>2, BoundsAssumption DEF Running, JobsTypeOK
  <1>4. ASSUME NEW x, Does(g, x)
        PROVE  /\ step'[g] = step[g] + 1 /\ outcome'[g] = "none"
               /\ \A h \in Jobs \ {g} :
                    /\ step'[h] = step[h] /\ outcome'[h] = outcome[h] /\ limit'[h] = limit[h]
                    /\ wrote'[h] = wrote[h] /\ after'[h] = after[h]
                    /\ h \in cancelled' <=> h \in cancelled
                    /\ \A a : <<h, a>> \in lied' <=> <<h, a>> \in lied
    <2>1. step'[g] = step[g] + 1 /\ outcome'[g] = "none"
      BY <1>1, <1>2, <1>4 DEF Does, JobsTypeOK, Running
    <2>2. ASSUME NEW h \in Jobs \ {g}
          PROVE  /\ step'[h] = step[h] /\ outcome'[h] = outcome[h] /\ limit'[h] = limit[h]
                 /\ h \in cancelled' <=> h \in cancelled
      BY <1>1, <1>4 DEF Does, JobsTypeOK
    <2>3. ASSUME NEW h \in Jobs \ {g}
          PROVE  /\ wrote'[h] = wrote[h] /\ after'[h] = after[h]
                 /\ \A a : <<h, a>> \in lied' <=> <<h, a>> \in lied
      <3>1. CASE x.op = "write"
        BY <1>1, <1>4, <3>1 DEF Does, JobsTypeOK
      <3>2. CASE x.op # "write"
        BY <1>4, <3>2 DEF Does, writes
      <3> QED BY <3>1, <3>2
    <2> QED BY <2>1, <2>2, <2>3
  <1>5. ASSUME NEW x, NEW how \in Ways, Ends(g, x, how)
        PROVE  /\ outcome'[g] \in Ways
               /\ \A h \in Jobs \ {g} :
                    /\ step'[h] = step[h] /\ outcome'[h] = outcome[h] /\ limit'[h] = limit[h]
                    /\ wrote'[h] = wrote[h] /\ after'[h] = after[h]
                    /\ h \in cancelled' <=> h \in cancelled
                    /\ \A a : <<h, a>> \in lied' <=> <<h, a>> \in lied
    BY <1>1, <1>5 DEF Ends, JobsTypeOK
  <1>6. \/ \E x : Does(g, x)
        \/ \E x : \E how \in Ways : Ends(g, x, how)
    BY DEF Works, Ways
  <1>7. ASSUME \E x : Does(g, x)
        PROVE  /\ step'[g] = step[g] + 1 /\ outcome'[g] = "none"
               /\ \A h \in Jobs \ {g} :
                    /\ step'[h] = step[h] /\ outcome'[h] = outcome[h] /\ limit'[h] = limit[h]
                    /\ wrote'[h] = wrote[h] /\ after'[h] = after[h]
                    /\ h \in cancelled' <=> h \in cancelled
                    /\ \A a : <<h, a>> \in lied' <=> <<h, a>> \in lied
    BY <1>4, <1>7, Zenon
  <1>8. ASSUME \E x : \E how \in Ways : Ends(g, x, how)
        PROVE  /\ outcome'[g] \in Ways
               /\ \A h \in Jobs \ {g} :
                    /\ step'[h] = step[h] /\ outcome'[h] = outcome[h] /\ limit'[h] = limit[h]
                    /\ wrote'[h] = wrote[h] /\ after'[h] = after[h]
                    /\ h \in cancelled' <=> h \in cancelled
                    /\ \A a : <<h, a>> \in lied' <=> <<h, a>> \in lied
    BY <1>5, <1>8, Zenon
  <1> QED BY <1>2, <1>3, <1>6, <1>7, <1>8, Zenon

\* When the process is gone no job runs.
LEMMA DeadAs ==
    ASSUME Basics, Dies
    PROVE  /\ UNCHANGED <<cache, media, plugged, kind, limit, cancelled, stopping,
                          must, late, wrote, after, lied>>
           /\ entry' = [m \in JobModes |-> 0] /\ active' = 0
           /\ \A h \in Jobs : /\ outcome'[h] = outcome[h] \/ outcome'[h] \in {"died", "threw"}
                              /\ kind[h] # "none" => outcome'[h] # "none"
                              /\ ~Running(h) => outcome'[h] = outcome[h]
                              /\ ~Running(h)'
  <1>1. PICK how \in [Jobs -> {"died", "threw"}] : AppDies(how)
    BY DEF Dies
  <1>2. /\ UNCHANGED <<cache, media, plugged, kind, limit, cancelled, stopping,
                       must, late, wrote, after, lied>>
        /\ entry' = [m \in JobModes |-> 0] /\ active' = 0
    BY <1>1 DEF AppDies, writes
  <1>3. ASSUME NEW h \in Jobs
        PROVE  outcome'[h] = IF Running(h) THEN how[h] ELSE outcome[h]
    BY <1>1 DEF AppDies
  <1>4. ASSUME NEW h \in Jobs
        PROVE  /\ outcome'[h] = outcome[h] \/ outcome'[h] \in {"died", "threw"}
               /\ kind[h] # "none" => outcome'[h] # "none"
               /\ ~Running(h) => outcome'[h] = outcome[h]
    <2>1. how[h] \in {"died", "threw"}
      OBVIOUS
    <2>2. CASE Running(h)
      BY <2>1, <2>2, <1>3
    <2>3. CASE ~Running(h)
      BY <2>3, <1>3 DEF Running
    <2> QED BY <2>2, <2>3
  <1>5. ASSUME NEW h \in Jobs
        PROVE  ~Running(h)'
    BY <1>2, <1>4 DEF Running
  <1> QED BY <1>2, <1>4, <1>5

LEMMA TapAs ==
    ASSUME Basics, NEW g \in Jobs, NEW k \in JobKinds, Tap(g, k)
    PROVE  /\ k \in Kinds /\ k # "none" /\ kind[g] = "none" /\ entry[ModeOf(k)] = 0
           /\ kind'[g] = k /\ step'[g] = 1 /\ outcome[g] = "none" /\ outcome'[g] = "none"
           /\ entry'[ModeOf(k)] = g
           /\ \A m \in JobModes \ {ModeOf(k)} : entry'[m] = entry[m]
           /\ k \in VentoyKinds => active' = g /\ isoCancel' = isoCancel
           /\ k \notin VentoyKinds => active' = active /\ isoCancel' = FALSE
           /\ \A h \in Jobs \ {g} : kind'[h] = kind[h] /\ step'[h] = step[h]
           /\ UNCHANGED <<cache, media, plugged, holder, outcome, limit, cancelled,
                          stopping, hooks, must, late, wrote, after, lied>>
  <1>1. /\ kind' = [kind EXCEPT ![g] = k] /\ step' = [step EXCEPT ![g] = 1]
        /\ kind[g] = "none" /\ entry[ModeOf(k)] = 0
        /\ entry' = [entry EXCEPT ![ModeOf(k)] = g]
        /\ UNCHANGED <<cache, media, plugged, holder, outcome, limit, cancelled,
                       stopping, hooks, must, late, wrote, after, lied, mishaps>>
    BY DEF Tap, driveVars, stopVars, writes
  <1>2. k \in Kinds /\ k # "none"
    BY BoundsAssumption DEF Kinds
  <1>3. ModeOf(k) \in JobModes
    BY DEF ModeOf, JobModes
  <1>4. /\ k \in VentoyKinds => active' = g /\ isoCancel' = isoCancel
        /\ k \notin VentoyKinds => active' = active /\ isoCancel' = FALSE
    BY Zenon DEF Tap, TapVentoy, TapIso
  <1>5. /\ kind'[g] = k /\ step'[g] = 1 /\ entry'[ModeOf(k)] = g
        /\ \A m \in JobModes \ {ModeOf(k)} : entry'[m] = entry[m]
        /\ \A h \in Jobs \ {g} : kind'[h] = kind[h] /\ step'[h] = step[h]
    BY <1>1, <1>3 DEF Basics, JobsTypeOK
  <1>6. outcome[g] = "none" /\ outcome'[g] = "none"
    BY <1>1 DEF Basics, EntriesRight
  <1> QED BY <1>1, <1>2, <1>4, <1>5, <1>6

LEMMA HookAs ==
    ASSUME Basics, NEW g \in Jobs, RunHook(g)
    PROVE  /\ UNCHANGED <<cache, media, plugged, holder, kind, step, outcome, limit, active,
                          entry, stopping, wrote, after, lied>>
           /\ g \in stopping /\ cancelled \subseteq cancelled' /\ late \subseteq late'
           /\ must \subseteq must' /\ (isoCancel => isoCancel')
           /\ \A h \in cancelled' : h \in cancelled \/ h = g \/ h \in late'
           /\ isoCancel' => \/ isoCancel
                            \/ \A h \in Jobs : Running(h) /\ kind[h] \notin VentoyKinds =>
                                  h = g \/ h \in late'
           /\ \A h \in must' \ must :
                 /\ h \in Jobs /\ StillLooks(h)
                 /\ kind[h] \in VentoyKinds => h \in cancelled'
                 /\ kind[h] \notin VentoyKinds => isoCancel'
  <1> DEFINE m == ModeOf(kind[g])
  <1>1. /\ UNCHANGED <<cache, media, plugged, holder, kind, step, outcome, limit, active,
                       entry, stopping, wrote, after, lied>>
        /\ g \in hooks
        /\ cancelled' = cancelled \cup (IF m = "ventoy" THEN Reached(m) ELSE {})
        /\ late' = late \cup (Reached(m) \ {g})
        /\ must' = must \cup {h \in Reached(m) : StillLooks(h)}
    BY DEF RunHook, driveVars, writes
  <1>2. isoCancel' <=> isoCancel \/ m = "iso"
    BY Zenon DEF RunHook
  <1>3. m \in JobModes
    BY DEF ModeOf, JobModes
  <1>4. ASSUME NEW h \in Reached(m)
        PROVE  h \in Jobs /\ ModeOf(kind[h]) = m
    <2>1. CASE m = "ventoy"
      BY <2>1, <1>4 DEF Reached, Basics, EntriesRight, JobsTypeOK, JobModes
    <2>2. CASE m = "iso"
      BY <2>2, <1>4 DEF Reached, Basics, EntriesRight, JobsTypeOK, JobModes
    <2> QED BY <2>1, <2>2, <1>3 DEF JobModes
  <1>5. ASSUME NEW h \in Jobs, Running(h), kind[h] \notin VentoyKinds, m = "iso"
        PROVE  h = g \/ h \in late'
    <2>1. entry["iso"] = h /\ h # 0
      BY <1>5, JobsAssumption DEF Basics, EntriesRight, ModeOf, Jobs
    <2>2. h \in Reached(m)
      BY <1>5, <2>1 DEF Reached
    <2> QED BY <2>2, <1>1
  <1>6. g \in stopping
    BY <1>1 DEF Basics, JobsTypeOK
  <1> HIDE DEF m
  <1>7. /\ cancelled \subseteq cancelled' /\ late \subseteq late' /\ must \subseteq must'
        /\ \A h \in cancelled' : h \in cancelled \/ h = g \/ h \in late'
    BY <1>1
  <1>8. ASSUME NEW h \in must' \ must
        PROVE  /\ h \in Jobs /\ StillLooks(h)
               /\ kind[h] \in VentoyKinds => h \in cancelled'
               /\ kind[h] \notin VentoyKinds => isoCancel'
    <2>1. h \in Reached(m) /\ StillLooks(h)
      BY <1>8, <1>1
    <2>2. h \in Jobs /\ ModeOf(kind[h]) = m
      BY <2>1, <1>4
    <2>3. ASSUME kind[h] \in VentoyKinds
          PROVE  h \in cancelled'
      BY <2>1, <2>2, <2>3, <1>1 DEF ModeOf
    <2>4. ASSUME kind[h] \notin VentoyKinds
          PROVE  isoCancel'
      <3>1. m = "iso"
        BY <2>2, <2>4 DEF ModeOf
      <3> QED BY <3>1, <1>2
    <2> QED BY <2>1, <2>2, <2>3, <2>4, Zenon
  <1>9. isoCancel => isoCancel'
    BY <1>2
  <1>10. isoCancel' => \/ isoCancel
                       \/ \A h \in Jobs : Running(h) /\ kind[h] \notin VentoyKinds =>
                             h = g \/ h \in late'
    BY <1>2, <1>5, Zenon
  <1> QED BY <1>1, <1>6, <1>7, <1>8, <1>9, <1>10, Zenon

\* The last lines of a job's thread.
LEMMA ReportAs ==
    ASSUME Basics, NEW g \in Jobs, Report(g)
    PROVE  /\ UNCHANGED <<cache, media, plugged, holder, kind, step, outcome, limit, cancelled,
                          isoCancel, stopping, hooks, must, late, wrote, after, lied>>
           /\ ~Running(g)
           /\ entry[ModeOf(kind[g])] = g /\ entry'[ModeOf(kind[g])] = 0
           /\ \A m \in JobModes \ {ModeOf(kind[g])} : entry'[m] = entry[m]
           /\ kind[g] \in VentoyKinds => active' = 0
           /\ kind[g] \notin VentoyKinds => active' = active
  <1>1. ModeOf(kind[g]) \in JobModes
    BY DEF ModeOf, JobModes
  <1> QED BY <1>1 DEF Report, Basics, JobsTypeOK, driveVars, stopVars, writes, Running

PressAs(m) ==
    /\ entry[m] \in Jobs /\ stopping' = stopping \cup {entry[m]}
    /\ UNCHANGED <<cache, media, plugged, holder, kind, step, outcome, limit, cancelled,
                   isoCancel, active, entry, must, late, wrote, after, lied>>

LEMMA PressIs ==
    ASSUME NEW m \in JobModes, PressStop(m)
    PROVE  PressAs(m)
  BY DEF PressStop, PressAs, driveVars, jobVars, writes

PlugAs ==
    /\ UNCHANGED <<holder, kind, step, outcome, limit, cancelled, isoCancel, active, entry,
                   stopping, must, late, wrote, after, lied>>
    /\ \/ UNCHANGED <<cache, media, plugged>>
       \/ PullOut
       \/ (\A g \in Jobs : ~Running(g)) /\ UNCHANGED <<cache, media>>

LEMMA PlugIs ==
    ASSUME PullOut \/ PlugIn \/ UNCHANGED driveJobVars
    PROVE  PlugAs
  <1>1. CASE PullOut
    BY <1>1 DEF PullOut, PlugAs, Unplug, jobVars, stopVars, writes
  <1>2. CASE PlugIn
    BY <1>2 DEF PlugIn, PlugAs, Replug, jobVars, stopVars, writes
  <1>3. CASE UNCHANGED driveJobVars
    BY <1>3 DEF driveJobVars, PlugAs, driveVars, jobVars, stopVars, writes
  <1> QED BY <1>1, <1>2, <1>3

LEMMA WorksEntries ==
    ASSUME Basics, NEW g \in Jobs, Works(g)
    PROVE  EntriesRight'
  <1>1. /\ UNCHANGED <<kind, isoCancel, active, entry, stopping, hooks, must, late>>
        /\ Running(g)
        /\ step'[g] = step[g] + 1 \/ outcome'[g] \in Ways
        /\ \A h \in Jobs \ {g} :
             /\ step'[h] = step[h] /\ outcome'[h] = outcome[h]
             /\ wrote'[h] = wrote[h] /\ after'[h] = after[h]
             /\ \A a : <<h, a>> \in lied' <=> <<h, a>> \in lied
    BY OthersAs
  <1>2. EntriesRight /\ step[g] \in Nat
    BY DEF Basics, JobsTypeOK
  <1>3. ASSUME NEW h \in Jobs, Running(h)'
        PROVE  entry'[ModeOf(kind'[h])] = h /\ step'[h] >= 1
    <2>1. CASE h = g
      BY <1>1, <1>2, <1>3, <2>1 DEF EntriesRight, Running, Ways
    <2>2. CASE h # g
      BY <1>1, <1>2, <1>3, <2>2 DEF EntriesRight, Running
    <2> QED BY <2>1, <2>2
  <1>4. ASSUME NEW h \in Jobs, kind'[h] = "none"
        PROVE  /\ outcome'[h] = "none" /\ h \notin stopping' /\ h \notin must'
               /\ wrote'[h] = {} /\ after'[h] = {} /\ \A a : <<h, a>> \notin lied'
    <2>1. h # g /\ kind[h] = "none"
      BY <1>1, <1>4 DEF Running
    <2> QED BY <2>1, <1>1, <1>2 DEF EntriesRight
  <1>5. active' = entry'["ventoy"]
        /\ \A m \in JobModes : entry'[m] # 0 =>
              kind'[entry'[m]] # "none" /\ ModeOf(kind'[entry'[m]]) = m
    BY <1>1, <1>2 DEF EntriesRight
  <1> QED BY <1>3, <1>4, <1>5 DEF EntriesRight

LEMMA TapEntries ==
    ASSUME Basics, NEW g \in Jobs, NEW k \in JobKinds, Tap(g, k)
    PROVE  EntriesRight'
  <1>1. /\ k \in Kinds /\ k # "none" /\ kind[g] = "none" /\ entry[ModeOf(k)] = 0
        /\ kind'[g] = k /\ step'[g] = 1
        /\ entry'[ModeOf(k)] = g
        /\ \A m \in JobModes \ {ModeOf(k)} : entry'[m] = entry[m]
        /\ k \in VentoyKinds => active' = g
        /\ k \notin VentoyKinds => active' = active
        /\ \A h \in Jobs \ {g} : kind'[h] = kind[h] /\ step'[h] = step[h]
        /\ UNCHANGED <<outcome, stopping, must, wrote, after, lied>>
    BY TapAs
  <1>2. EntriesRight /\ entry \in [JobModes -> Jobs \cup {0}]
    BY DEF Basics, JobsTypeOK
  <1>3. \A m \in JobModes : m = ModeOf(k) \/ m \in JobModes \ {ModeOf(k)}
    OBVIOUS
  <1>4. ASSUME NEW h \in Jobs, Running(h)'
        PROVE  entry'[ModeOf(kind'[h])] = h /\ step'[h] >= 1
    <2>1. CASE h = g
      BY <1>1, <2>1
    <2>2. CASE h # g
      <3>1. Running(h) /\ kind'[h] = kind[h] /\ step'[h] = step[h]
        BY <1>1, <1>4, <2>2 DEF Running
      <3>2. entry[ModeOf(kind[h])] = h /\ step[h] >= 1
        BY <3>1, <1>2 DEF EntriesRight
      <3>3. ModeOf(kind[h]) \in JobModes \ {ModeOf(k)}
        BY <3>2, <1>1, JobsAssumption DEF ModeOf, JobModes, Jobs
      <3> QED BY <3>1, <3>2, <3>3, <1>1
    <2> QED BY <2>1, <2>2
  <1>5. ASSUME NEW m \in JobModes, entry'[m] # 0
        PROVE  kind'[entry'[m]] # "none" /\ ModeOf(kind'[entry'[m]]) = m
    <2>1. CASE m = ModeOf(k)
      BY <1>1, <2>1
    <2>2. CASE m # ModeOf(k)
      <3>1. entry'[m] = entry[m] /\ entry[m] \in Jobs
        BY <1>1, <1>2, <1>5, <2>2
      <3>2. kind[entry[m]] # "none" /\ ModeOf(kind[entry[m]]) = m
        BY <3>1, <1>2, <1>5 DEF EntriesRight
      <3>3. kind'[entry[m]] = kind[entry[m]]
        BY <3>1, <3>2, <1>1
      <3> QED BY <3>1, <3>2, <3>3
    <2> QED BY <2>1, <2>2
  <1>6. active' = entry'["ventoy"]
    <2>1. CASE k \in VentoyKinds
      BY <2>1, <1>1 DEF ModeOf
    <2>2. CASE k \notin VentoyKinds
      <3>1. ModeOf(k) = "iso" /\ "ventoy" \in JobModes \ {"iso"}
        BY <2>2 DEF ModeOf, JobModes
      <3> QED BY <3>1, <2>2, <1>1, <1>2 DEF EntriesRight
    <2> QED BY <2>1, <2>2
  <1>7. ASSUME NEW h \in Jobs, kind'[h] = "none"
        PROVE  /\ outcome'[h] = "none" /\ h \notin stopping' /\ h \notin must'
               /\ wrote'[h] = {} /\ after'[h] = {} /\ \A a : <<h, a>> \notin lied'
    <2>1. h # g /\ kind[h] = "none"
      BY <1>1, <1>7
    <2> QED BY <2>1, <1>1, <1>2 DEF EntriesRight
  <1> QED BY <1>4, <1>5, <1>6, <1>7 DEF EntriesRight

LEMMA DiesEntries ==
    ASSUME Basics, Dies
    PROVE  EntriesRight'
  <1>1. EntriesRight
    BY DEF Basics
  <1>2. \A m \in JobModes : entry'[m] = 0
    BY DeadAs
  <1>3. active' = entry'["ventoy"]
    BY DeadAs, <1>2 DEF JobModes
  <1>4. ASSUME NEW h \in Jobs, kind'[h] = "none"
        PROVE  /\ outcome'[h] = "none" /\ h \notin stopping' /\ h \notin must'
               /\ wrote'[h] = {} /\ after'[h] = {} /\ \A a : <<h, a>> \notin lied'
    <2>1. kind[h] = "none" /\ UNCHANGED <<stopping, must, wrote, after, lied>>
      BY <1>4, DeadAs
    <2>2. outcome'[h] = outcome[h]
      BY <2>1, DeadAs DEF Running
    <2> QED BY <2>1, <2>2, <1>1 DEF EntriesRight
  <1>5. \A h \in Jobs : ~Running(h)'
    BY DeadAs
  <1> QED BY <1>2, <1>3, <1>4, <1>5 DEF EntriesRight

LEMMA ReportEntries ==
    ASSUME Basics, NEW g \in Jobs, Report(g)
    PROVE  EntriesRight'
  <1> DEFINE q == ModeOf(kind[g])
  <1>1. /\ UNCHANGED <<kind, step, outcome, stopping, must, wrote, after, lied>>
        /\ ~Running(g) /\ entry[q] = g /\ entry'[q] = 0
        /\ \A m \in JobModes \ {q} : entry'[m] = entry[m]
        /\ kind[g] \in VentoyKinds => active' = 0
        /\ kind[g] \notin VentoyKinds => active' = active
    BY ReportAs
  <1>2. EntriesRight
    BY DEF Basics
  <1>3. \A m \in JobModes : m = q \/ m \in JobModes \ {q}
    OBVIOUS
  <1>4. active' = entry'["ventoy"]
    <2>1. CASE kind[g] \in VentoyKinds
      BY <2>1, <1>1 DEF ModeOf
    <2>2. CASE kind[g] \notin VentoyKinds
      <3>1. q = "iso" /\ "ventoy" \in JobModes \ {"iso"}
        BY <2>2 DEF ModeOf, JobModes
      <3> QED BY <3>1, <2>2, <1>1, <1>2 DEF EntriesRight
    <2> QED BY <2>1, <2>2
  <1>5. \A h \in Jobs : ModeOf(kind[h]) \in JobModes
    BY DEF ModeOf, JobModes
  <1> HIDE DEF q
  <1>6. ASSUME NEW h \in Jobs, Running(h)'
        PROVE  entry'[ModeOf(kind'[h])] = h /\ step'[h] >= 1
    <2>1. Running(h)
      BY <1>1, <1>6 DEF Running
    <2>2. entry[ModeOf(kind[h])] = h /\ step[h] >= 1
      BY <2>1, <1>2 DEF EntriesRight
    <2>3. ModeOf(kind[h]) \in JobModes \ {q}
      BY <2>1, <2>2, <1>1, <1>5
    <2> QED BY <2>2, <2>3, <1>1
  <1>7. \A m \in JobModes : entry'[m] # 0 =>
              kind'[entry'[m]] # "none" /\ ModeOf(kind'[entry'[m]]) = m
    BY <1>1, <1>2, <1>3 DEF EntriesRight
  <1>8. \A h \in Jobs : kind'[h] = "none" =>
          /\ outcome'[h] = "none" /\ h \notin stopping' /\ h \notin must'
          /\ wrote'[h] = {} /\ after'[h] = {} /\ \A a : <<h, a>> \notin lied'
    BY <1>1, <1>2 DEF EntriesRight
  <1> QED BY <1>4, <1>6, <1>7, <1>8 DEF EntriesRight

LEMMA OtherEntries ==
    ASSUME Basics,
           \/ \E g \in Jobs : RunHook(g)
           \/ \E m \in JobModes : PressAs(m)
           \/ PlugAs
    PROVE  EntriesRight'
  <1>1. EntriesRight
    BY DEF Basics
  <1>2. ASSUME UNCHANGED <<kind, step, outcome, entry, active, wrote, after, lied>>,
               \A h \in Jobs : kind[h] = "none" => h \notin stopping' /\ h \notin must'
        PROVE  EntriesRight'
    BY <1>1, <1>2 DEF EntriesRight, Running
  <1>3. ASSUME NEW g \in Jobs, RunHook(g)
        PROVE  EntriesRight'
    <2>1. UNCHANGED <<kind, step, outcome, entry, active, wrote, after, lied, stopping>>
      BY <1>3, HookAs
    <2>2. ASSUME NEW h \in Jobs, kind[h] = "none"
          PROVE  h \notin stopping' /\ h \notin must'
      <3>1. h \notin stopping' /\ h \notin must
        BY <2>1, <2>2, <1>1 DEF EntriesRight
      <3>2. ~StillLooks(h)
        BY <2>2 DEF StillLooks, Running
      <3> QED BY <3>1, <3>2, <1>3, HookAs
    <2> QED BY <2>1, <2>2, <1>2
  <1>4. ASSUME NEW m \in JobModes, PressAs(m)
        PROVE  EntriesRight'
    <2>1. /\ UNCHANGED <<kind, step, outcome, entry, active, wrote, after, lied, must>>
          /\ entry[m] \in Jobs /\ stopping' = stopping \cup {entry[m]}
      BY <1>4 DEF PressAs
    <2>2. kind[entry[m]] # "none"
      BY <2>1, <1>1, JobsAssumption DEF EntriesRight, Jobs
    <2>3. \A h \in Jobs : kind[h] = "none" => h \notin stopping' /\ h \notin must'
      BY <2>1, <2>2, <1>1 DEF EntriesRight
    <2> QED BY <2>1, <2>3, <1>2
  <1>5. CASE PlugAs
    BY <1>1, <1>2, <1>5 DEF PlugAs, EntriesRight
  <1> QED BY <1>3, <1>4, <1>5

LEMMA BasicsKept == Basics /\ Event => Basics'
  <1> SUFFICES ASSUME Basics, Event
               PROVE  EntriesRight'
    BY TypesKept DEF Basics
  <1> QED BY WorksEntries, TapEntries, DiesEntries, ReportEntries, OtherEntries,
             PressIs, PlugIs DEF Event

-----------------------------------------------------------------------------
(* Stops reach only those they are for, and an update only before it writes. *)

Asked(g) == g \in stopping \cup late
AskedRight ==
    /\ \A g \in cancelled : Asked(g)
    /\ isoCancel => \A g \in Jobs : Running(g) /\ kind[g] \notin VentoyKinds => Asked(g)
    /\ CancelledOnlyIfAsked

\* What job g does next when it works.
LEMMA WorkIs ==
    ASSUME Basics, NEW g \in Jobs, Works(g)
    PROVE  LET p == JobPlan(g)
               x == p[step[g]] IN
           /\ Running(g) /\ Sound(p) /\ Fits(kind[g]) /\ kind[g] \in Kinds
           /\ step[g] \in Nat /\ step[g] >= 1 /\ Len(p) \in Nat
           /\ \/ /\ step[g] \in 1 .. Len(p) /\ x \in Steps /\ Here(g) = x
                 /\ Does(g, x) \/ \E how \in Ways \ {"ok"} : Ends(g, x, how)
              \/ step[g] > Len(p) /\ Ends(g, Look, "ok")
  <1>1. Running(g) /\ step[g] \in Nat /\ step[g] >= 1 /\ kind[g] \in Kinds
    BY OthersAs DEF Basics, JobsTypeOK, EntriesRight
  <1>2. Fits(kind[g]) /\ Sound(JobPlan(g))
    BY <1>1, PlanFacts DEF Fits, JobPlan
  <1>3. Len(JobPlan(g)) \in Nat
    BY <1>2, LenProperties DEF Sound
  <1> QED BY <1>1, <1>2, <1>3, StepHere DEF Works

LEMMA PollIsIso ==
    ASSUME NEW g \in Jobs, Fits(kind[g]), NEW i \in 1 .. Len(JobPlan(g)), JobPlan(g)[i].op = "poll"
    PROVE  kind[g] \notin VentoyKinds
  BY DEF Fits, InstallFits, UpdateFits, VentoyKinds, JobPlan

LEMMA WorksAsked ==
    ASSUME Basics, AskedRight, NEW g \in Jobs, Works(g)
    PROVE  AskedRight'
  <1>1. /\ UNCHANGED <<kind, isoCancel, stopping, late>> /\ Running(g)
        /\ \A h \in Jobs \ {g} : outcome'[h] = outcome[h] /\ (h \in cancelled' <=> h \in cancelled)
    BY OthersAs
  <1>2. \A h \in Jobs : Asked(h)' <=> Asked(h)
    BY <1>1 DEF Asked
  <1>3. \A h \in Jobs : Running(h)' => Running(h)
    BY <1>1 DEF Running
  <1>4. cancelled' \subseteq cancelled /\ cancelled \subseteq Jobs
    BY DEF Works, Does, Ends, Basics, JobsTypeOK
  <1>5. ASSUME outcome'[g] = "cancelled"
        PROVE  Asked(g)
    <2> DEFINE p == JobPlan(g)
               x == p[step[g]]
    <2>1. /\ Sound(p) /\ Fits(kind[g])
          /\ \/ step[g] \in 1 .. Len(p) /\ (Does(g, x) \/ \E how \in Ways \ {"ok"} : Ends(g, x, how))
             \/ step[g] > Len(p) /\ Ends(g, Look, "ok")
      BY WorkIs
    <2> HIDE DEF x
    <2>2. ~Does(g, x)
      BY <1>1, <1>5 DEF Does, Running
    <2>3. ASSUME NEW y, NEW how \in Ways, Ends(g, y, how)
          PROVE  how = "cancelled"
      BY <1>5, <2>3 DEF Ends, Basics, JobsTypeOK
    <2>4. step[g] \in 1 .. Len(p) /\ Ends(g, x, "cancelled")
      BY <2>1, <2>2, <2>3 DEF Ways
    <2>5. g \in cancelled \/ (x.op = "poll" /\ isoCancel)
      BY <2>4 DEF Ends
    <2>6. x.op = "poll" => kind[g] \notin VentoyKinds
      BY <2>1, <2>4, PollIsIso DEF x
    <2> QED BY <2>5, <2>6, <1>1 DEF AskedRight
  <1>6. CancelledOnlyIfAsked'
    <2> SUFFICES ASSUME NEW h \in Jobs, outcome'[h] = "cancelled"
                 PROVE  Asked(h)'
      BY DEF CancelledOnlyIfAsked, Asked
    <2>1. h # g => Asked(h)
      BY <1>1 DEF AskedRight, CancelledOnlyIfAsked, Asked
    <2> QED BY <2>1, <1>5, <1>2
  <1>7. isoCancel' => \A h \in Jobs : Running(h)' /\ kind'[h] \notin VentoyKinds => Asked(h)'
    BY <1>1, <1>2, <1>3 DEF AskedRight
  <1> QED BY <1>2, <1>4, <1>6, <1>7 DEF AskedRight

LEMMA AskedKept ==
    ASSUME Basics, AskedRight, Event
    PROVE  AskedRight'
  <1>0. cancelled \subseteq Jobs
    BY DEF Basics, JobsTypeOK
  <1>1. ASSUME stopping \subseteq stopping', late \subseteq late', UNCHANGED cancelled,
               \A h \in Jobs : outcome'[h] = "cancelled" => outcome[h] = "cancelled",
               isoCancel' => isoCancel,
               isoCancel' => \A h \in Jobs : Running(h)' /\ kind'[h] \notin VentoyKinds =>
                                Running(h) /\ kind[h] \notin VentoyKinds
        PROVE  AskedRight'
    <2>1. \A h \in Jobs : Asked(h) => Asked(h)'
      BY <1>1 DEF Asked
    <2>2. CancelledOnlyIfAsked'
      BY <1>1, <2>1 DEF AskedRight, CancelledOnlyIfAsked, Asked
    <2>3. \A h \in cancelled' : Asked(h)'
      BY <1>0, <1>1, <2>1 DEF AskedRight
    <2>4. isoCancel' => \A h \in Jobs : Running(h)' /\ kind'[h] \notin VentoyKinds => Asked(h)'
      BY <1>1, <2>1 DEF AskedRight
    <2> QED BY <2>2, <2>3, <2>4 DEF AskedRight
  <1>2. ASSUME NEW g \in Jobs, NEW k \in JobKinds, Tap(g, k)
        PROVE  AskedRight'
    <2>1. /\ UNCHANGED <<outcome, cancelled, stopping, late>>
          /\ kind'[g] = k /\ \A h \in Jobs \ {g} : kind'[h] = kind[h]
          /\ k \in VentoyKinds => isoCancel' = isoCancel
          /\ k \notin VentoyKinds => isoCancel' = FALSE
      BY <1>2, TapAs
    <2>2. isoCancel' => k \in VentoyKinds /\ isoCancel
      BY <2>1
    <2>3. isoCancel' => \A h \in Jobs : Running(h)' /\ kind'[h] \notin VentoyKinds =>
                           Running(h) /\ kind[h] \notin VentoyKinds
      BY <2>1, <2>2 DEF Running
    <2> QED BY <1>1, <2>1, <2>2, <2>3
  <1>3. CASE Dies
    <2>1. /\ UNCHANGED <<cancelled, stopping, late>> /\ \A h \in Jobs : ~Running(h)'
          /\ \A h \in Jobs : outcome'[h] = outcome[h] \/ outcome'[h] \in {"died", "threw"}
      BY <1>3, DeadAs
    <2>2. isoCancel' = FALSE
      BY <1>3 DEF Dies, AppDies
    <2> QED BY <1>1, <2>1, <2>2
  <1>4. ASSUME NEW g \in Jobs, Report(g)
        PROVE  AskedRight'
    <2>1. UNCHANGED <<kind, outcome, cancelled, isoCancel, stopping, late>>
      BY <1>4, ReportAs
    <2> QED BY <1>1, <2>1 DEF Running
  <1>5. ASSUME NEW m \in JobModes, PressAs(m)
        PROVE  AskedRight'
    <2>1. UNCHANGED <<kind, outcome, cancelled, isoCancel, late>> /\ stopping \subseteq stopping'
      BY <1>5 DEF PressAs
    <2> QED BY <1>1, <2>1 DEF Running
  <1>6. CASE PlugAs
    <2>1. UNCHANGED <<kind, outcome, cancelled, isoCancel, stopping, late>>
      BY <1>6 DEF PlugAs
    <2> QED BY <1>1, <2>1 DEF Running
  <1>7. ASSUME NEW g \in Jobs, RunHook(g)
        PROVE  AskedRight'
    <2>1. /\ UNCHANGED <<kind, outcome, stopping>> /\ g \in stopping /\ late \subseteq late'
          /\ \A h \in cancelled' : h \in cancelled \/ h = g \/ h \in late'
          /\ isoCancel' => \/ isoCancel
                           \/ \A h \in Jobs : Running(h) /\ kind[h] \notin VentoyKinds =>
                                 h = g \/ h \in late'
      BY <1>7, HookAs
    <2>2. \A h \in Jobs : Asked(h) => Asked(h)'
      BY <2>1 DEF Asked
    <2>3. CancelledOnlyIfAsked'
      BY <2>1, <2>2 DEF AskedRight, CancelledOnlyIfAsked, Asked
    <2>4. \A h \in cancelled' : Asked(h)'
      BY <1>0, <2>1, <2>2 DEF AskedRight, Asked
    <2>5. \A h \in Jobs : (Running(h)' <=> Running(h)) /\ kind'[h] = kind[h]
      BY <2>1 DEF Running
    <2>6. isoCancel' => \A h \in Jobs : Running(h)' /\ kind'[h] \notin VentoyKinds => Asked(h)'
      BY <2>1, <2>2, <2>5 DEF AskedRight, Asked
    <2> QED BY <2>3, <2>4, <2>6 DEF AskedRight
  <1> QED BY <1>2, <1>3, <1>4, <1>5, <1>6, <1>7, WorksAsked, PressIs, PlugIs DEF Event

\* What the limit of an installer is, by how far it has come.
LimitRight(g) ==
    /\ Running(g) =>
          /\ kind[g] \in Installs /\ step[g] > 1 => limit[g] = 97
          /\ kind[g] = "update" => /\ step[g] <= 10 => wrote[g] = {}
                                   /\ step[g] \in 2 .. 10 => limit[g] = 11
                                   /\ step[g] > 10 => limit[g] = 0
    /\ kind[g] = "update" /\ outcome[g] = "cancelled" => wrote[g] = {}

LEMMA LimitSame ==
    ASSUME NEW g \in Jobs, LimitRight(g),
           kind'[g] = kind[g], step'[g] = step[g], outcome'[g] = outcome[g],
           limit'[g] = limit[g], wrote'[g] = wrote[g]
    PROVE  LimitRight(g)'
  BY DEF LimitRight, Running

LEMMA WorksLimit ==
    ASSUME Basics, NEW g \in Jobs, Works(g), LimitRight(g)
    PROVE  LimitRight(g)'
  <1> DEFINE p == JobPlan(g)
             s == step[g]
             x == p[s]
  <1>1. /\ Running(g) /\ Fits(kind[g]) /\ s \in Nat /\ s >= 1 /\ Len(p) \in Nat
        /\ \/ /\ s \in 1 .. Len(p) /\ x \in Steps
              /\ Does(g, x) \/ \E how \in Ways \ {"ok"} : Ends(g, x, how)
           \/ s > Len(p) /\ Ends(g, Look, "ok")
    BY WorkIs
  <1>2. kind' = kind /\ outcome[g] = "none"
    BY OthersAs DEF Running
  <1>3. kind[g] \in Installs => InstallFits(p)
    BY <1>1 DEF Fits, JobPlan
  <1>4. kind[g] = "update" => UpdateFits(p) /\ kind[g] \notin Installs
    BY <1>1 DEF Fits, JobPlan, Installs
  <1>5. /\ step \in [Jobs -> Nat] /\ outcome \in [Jobs -> {"none", "ok", "failed", "cancelled", "threw", "died"}]
        /\ limit \in [Jobs -> {0, 11, 97}] /\ wrote \in [Jobs -> SUBSET Areas]
    BY DEF Basics, JobsTypeOK
  <1> HIDE DEF p, x
  <1>6. ASSUME s \in 1 .. Len(p), x \in Steps, Does(g, x)
        PROVE  LimitRight(g)'
    <2>1. step'[g] = s + 1 /\ outcome'[g] = "none"
      BY <1>2, <1>5, <1>6 DEF Does
    <2>2. x.op = "enter" => limit'[g] = x.n
      BY <1>5, <1>6 DEF Does
    <2>3. x.op = "commit" => limit'[g] = 0
      BY <1>5, <1>6 DEF Does
    <2>4. x.op \notin {"enter", "commit"} => limit'[g] = limit[g]
      BY <1>6 DEF Does
    <2>5. x.op # "write" => wrote'[g] = wrote[g]
      BY <1>6 DEF Does, writes
    <2>6. CASE kind[g] \in Installs
      <3>1. /\ s = 1 => x.op = "enter" /\ x.n = 97
            /\ s # 1 => x.op \notin {"enter", "commit"}
        BY <2>6, <1>3, <1>6 DEF InstallFits, x
      <3>2. limit'[g] = 97
        BY <3>1, <2>2, <2>4, <2>6, <1>1, <1>2 DEF LimitRight
      <3> QED BY <3>2, <2>1, <2>6, <1>2, <1>4 DEF LimitRight, Running
    <2>7. CASE kind[g] = "update"
      <3>1. /\ s = 1 => x.op = "enter" /\ x.n = 11
            /\ s = 10 => x.op = "commit"
            /\ s # 1 => x.op # "enter"
            /\ s < 10 => x.op \notin {"write", "commit"}
        BY <2>7, <1>4, <1>6 DEF UpdateFits, x
      <3>2. s < 10 => wrote'[g] = {}
        BY <3>1, <2>5, <2>7, <1>1 DEF LimitRight
      <3>3. s < 10 => limit'[g] = 11
        BY <3>1, <2>2, <2>4, <2>7, <1>1 DEF LimitRight
      <3>4. s >= 10 => limit'[g] = 0
        BY <3>1, <2>3, <2>4, <2>7, <1>1 DEF LimitRight
      <3> QED BY <3>2, <3>3, <3>4, <2>1, <2>7, <1>1, <1>2, <1>4 DEF LimitRight, Running
    <2>8. CASE kind[g] \notin Installs /\ kind[g] # "update"
      BY <2>8, <1>2 DEF LimitRight
    <2> QED BY <2>6, <2>7, <2>8
  <1>7. ASSUME NEW how \in Ways, NEW y \in Steps, Ends(g, y, how), how = "cancelled" => y = x /\ s \in 1 .. Len(p)
        PROVE  LimitRight(g)'
    <2>1. outcome'[g] = how /\ how # "none"
      BY <1>5, <1>7 DEF Ends, Ways
    <2>2. ASSUME how = "cancelled", kind[g] = "update"
          PROVE  wrote'[g] = {}
      <3>1. UNCHANGED wrote
        BY <1>7, <2>2 DEF Ends
      <3>2. y.op # "poll"
        BY <1>4, <1>7, <2>2 DEF UpdateFits, x
      <3>3. y.n < limit[g] /\ y.n \in Nat
        BY <3>2, <1>7, <2>2 DEF Ends, Steps
      <3>4. s <= 10
        BY <3>3, <1>1, <2>2 DEF LimitRight
      <3> QED BY <3>1, <3>4, <1>1, <2>2 DEF LimitRight
    <2> QED BY <2>1, <2>2, <1>2 DEF LimitRight, Running
  <1>8. Look \in Steps
    BY DEF Look, Step, Steps, OpNames
  <1> QED BY <1>1, <1>6, <1>7, <1>8 DEF Ways

LEMMA LimitsKept ==
    ASSUME Basics, Event, \A g \in Jobs : LimitRight(g)
    PROVE  \A g \in Jobs : LimitRight(g)'
  <1>1. ASSUME NEW g \in Jobs, Works(g), NEW h \in Jobs
        PROVE  LimitRight(h)'
    <2>1. CASE h = g
      BY <1>1, <2>1, WorksLimit
    <2>2. CASE h # g
      BY <1>1, <2>2, OthersAs, LimitSame
    <2> QED BY <2>1, <2>2
  <1>2. ASSUME NEW g \in Jobs, NEW k \in JobKinds, Tap(g, k), NEW h \in Jobs
        PROVE  LimitRight(h)'
    <2>1. CASE h = g
      <3>1. step'[h] = 1 /\ outcome'[h] = "none" /\ UNCHANGED wrote /\ kind[h] = "none"
        BY <1>2, <2>1, TapAs
      <3>2. wrote'[h] = {}
        BY <3>1 DEF Basics, EntriesRight
      <3> QED BY <3>1, <3>2 DEF LimitRight
    <2>2. CASE h # g
      <3>1. /\ \A j \in Jobs \ {g} : kind'[j] = kind[j] /\ step'[j] = step[j]
            /\ UNCHANGED <<outcome, limit, wrote>>
        BY <1>2, TapAs
      <3> QED BY <2>2, <3>1, LimitSame
    <2> QED BY <2>1, <2>2
  <1>3. ASSUME Dies, NEW h \in Jobs
        PROVE  LimitRight(h)'
    <2>1. /\ UNCHANGED <<kind, wrote>> /\ ~Running(h)'
          /\ outcome'[h] = outcome[h] \/ outcome'[h] \in {"died", "threw"}
      BY <1>3, DeadAs
    <2> QED BY <2>1 DEF LimitRight
  <1>4. ASSUME UNCHANGED <<kind, step, outcome, limit, wrote>>, NEW h \in Jobs
        PROVE  LimitRight(h)'
    BY <1>4, LimitSame
  <1>5. ASSUME NEW g \in Jobs, Report(g) \/ RunHook(g)
        PROVE  UNCHANGED <<kind, step, outcome, limit, wrote>>
    BY <1>5, ReportAs, HookAs
  <1>6. ASSUME (\E m \in JobModes : PressStop(m)) \/ PullOut \/ PlugIn \/ UNCHANGED driveJobVars
        PROVE  UNCHANGED <<kind, step, outcome, limit, wrote>>
    BY <1>6, PressIs, PlugIs DEF PressAs, PlugAs
  <1> QED BY <1>1, <1>2, <1>3, <1>4, <1>5, <1>6 DEF Event

-----------------------------------------------------------------------------
(* A job that was told to stop in time comes to a place where it does, and *)
(* writes to one area at most on its way.                                  *)

LEMMA FirstOf ==
    ASSUME NEW S \in SUBSET Nat, S # {}
    PROVE  \E n \in S : \A k \in S : n <= k
  <1> DEFINE R == {ss \in Nat \X Nat : ss[1] < ss[2]}
  <1>1. IsWellFoundedOn(R, Nat)
    BY NatLessThanWellFounded, Zenon DEF OpToRel
  <1>2. \E n \in S : \A k \in S : ~ (<<k, n>> \in R)
    <2> HIDE DEF R
    <2> QED BY <1>1, WFMin
  <1>3. \A k, n \in Nat : <<k, n>> \in R <=> k < n
    OBVIOUS
  <1> HIDE DEF R
  <1>4. PICK n \in S : \A k \in S : ~ (<<k, n>> \in R)
    BY <1>2
  <1>5. ASSUME NEW k \in S
        PROVE  n <= k
    <2>1. ~(k < n) /\ k \in Nat /\ n \in Nat
      BY <1>3, <1>4
    <2> QED BY <2>1
  <1> QED BY <1>5

LooksAt(g, x) == x.op = "poll" \/ (x.op = "show" /\ x.n < limit[g])
Flagged(g) == /\ kind[g] \in VentoyKinds => g \in cancelled
              /\ kind[g] \notin VentoyKinds => isoCancel
Ahead(p, g, a) ==
    \E i \in step[g] .. Len(p) :
        /\ LooksAt(g, p[i])
        /\ \A j \in step[g] .. i : p[j].op \notin {"enter", "commit"}
        /\ \A j \in step[g] .. i - 1 : p[j].op = "write" => p[j].area = a
MustRight(g) ==
    /\ g \notin must => after[g] = {}
    /\ g \in must => /\ outcome[g] # "ok"
                     /\ \E a \in Areas :
                           /\ after[g] \subseteq {a}
                           /\ Running(g) => Flagged(g) /\ Ahead(JobPlan(g), g, a)

\* From a place of a tidy plan to the next look, one area at most is written.
LEMMA SpanToLook ==
    ASSUME NEW p \in Seq(Steps), TidyEnd(p), NEW s \in Nat, s >= 1,
           NEW i \in s .. Len(p), IsLook(p[i])
    PROVE  \E n \in s .. i : \E a \in Areas :
               /\ IsLook(p[n])
               /\ \A j \in s .. n - 1 : p[j].op = "write" => p[j].area = a
  <1>1. Len(p) \in Nat /\ \A j \in 1 .. Len(p) : p[j] \in Steps
    BY LenProperties, ElementOfSeq
  <1> DEFINE S == {n \in s .. i : IsLook(p[n])}
  <1>2. PICK n \in S : \A k \in S : n <= k
    <2>1. S \in SUBSET Nat /\ i \in S
      BY <1>1
    <2> HIDE DEF S
    <2> QED BY <2>1, FirstOf
  <1>3. n \in s .. i /\ IsLook(p[n]) /\ \A k \in s .. i : IsLook(p[k]) => n <= k
    BY <1>2
  <1> DEFINE T == {j \in s .. n - 1 : p[j].op = "write"}
  <1>4. CASE T = {}
    <2>1. "table" \in Areas
      BY DEF Areas
    <2> QED BY <1>3, <1>4, <2>1
  <1>5. CASE T # {}
    <2>1. PICK w \in T : \A k \in T : w <= k
      <3>1. T \in SUBSET Nat
        BY <1>1, <1>3
      <3> HIDE DEF T
      <3> QED BY <3>1, <1>5, FirstOf
    <2>2. /\ w \in s .. n - 1 /\ p[w].op = "write"
          /\ \A j \in s .. n - 1 : p[j].op = "write" => w <= j
      BY <2>1
    <2>3. w \in 1 .. Len(p) /\ p[w].area \in Areas
      <3>1. w \in 1 .. Len(p)
        BY <2>2, <1>1, <1>3
      <3> QED BY <3>1, <2>2, <1>1 DEF Steps
    <2>4. n \in w + 1 .. Len(p)
      BY <2>2, <1>1, <1>3
    <2>5. TidyAt(p, w)
      BY <2>2, <2>3, <2>4, <1>3 DEF TidyEnd
    <2>6. PICK m \in w + 1 .. Len(p) :
            /\ IsLook(p[m])
            /\ \A j \in w .. m - 1 : p[j].op = "write" => p[j].area = p[w].area
      BY <2>5 DEF TidyAt
    <2>7. n <= m
      <3>1. CASE m <= i
        <4>1. m \in s .. i
          BY <2>2, <2>6, <3>1, <1>1, <1>3
        <4> QED BY <4>1, <2>6, <1>3
      <3>2. CASE m > i
        BY <3>2, <2>6, <1>1, <1>3
      <3> QED BY <3>1, <3>2, <2>6, <1>1
    <2>8. ASSUME NEW j \in s .. n - 1, p[j].op = "write"
          PROVE  p[j].area = p[w].area
      <3>1. j \in w .. m - 1
        BY <2>2, <2>6, <2>7, <2>8, <1>1, <1>3
      <3> QED BY <3>1, <2>6, <2>8
    <2> QED BY <2>3, <2>8, <1>3
  <1> QED BY <1>4, <1>5

LEMMA AheadOfStop ==
    ASSUME Basics, NEW g \in Jobs, LimitRight(g), StillLooks(g)
    PROVE  Running(g) /\ \E a \in Areas : Ahead(JobPlan(g), g, a)
  <1> DEFINE p == JobPlan(g)
             s == step[g]
  <1>1. Running(g) /\ s \in Nat /\ s >= 1 /\ kind[g] \in Kinds
    BY BoundsAssumption DEF StillLooks, Running, Basics, JobsTypeOK, EntriesRight
  <1>2. Fits(kind[g]) /\ Sound(p) /\ p \in Seq(Steps) /\ Len(p) \in Nat
    <2>1. Fits(kind[g]) /\ Sound(p) /\ p \in Seq(Steps)
      BY <1>1, PlanFacts DEF Fits, JobPlan, Sound
    <2> QED BY <2>1, LenProperties
  <1>3. PICK i \in s .. Len(p) :
          \/ p[i].op = "poll"
          \/ /\ p[i].op = "show" /\ p[i].n < limit[g]
             /\ \A j \in s .. i : p[j].op \notin {"enter", "commit"}
    BY DEF StillLooks, JobPlan
  <1>4. /\ kind[g] \in Installs => InstallFits(p)
        /\ kind[g] = "update" => UpdateFits(p)
        /\ kind[g] \notin VentoyKinds => IsoFits(p)
    BY <1>2 DEF Fits, JobPlan
  <1>5. i \in 1 .. Len(p) /\ p[i] \in Steps /\ \A j \in s .. i : j \in 1 .. Len(p)
    <2>1. i \in 1 .. Len(p) /\ \A j \in s .. i : j \in 1 .. Len(p)
      BY <1>1, <1>2, <1>3
    <2> QED BY <2>1, <1>2, ElementOfSeq
  <1> HIDE DEF p
  <1>6. CASE kind[g] = "update"
    <2>1. UpdateFits(p)
      BY <1>4, <1>6
    <2>2. /\ p[i].op = "show" /\ p[i].n < limit[g] /\ p[i].n \in Nat
          /\ \A j \in s .. i : p[j].op \notin {"enter", "commit"}
      BY <2>1, <1>3, <1>5 DEF UpdateFits, Steps
    <2>3. s \in s .. i
      BY <1>1, <1>3
    <2>4. s # 1
      BY <2>1, <2>2, <2>3 DEF UpdateFits
    <2>5. s <= 10
      BY <1>1, <1>6, <2>2 DEF LimitRight
    <2>6. i < 10
      <3>1. ~(10 \in s .. i)
        BY <2>1, <2>2 DEF UpdateFits
      <3> QED BY <3>1, <2>5, <1>1, <1>3
    <2>7. \A j \in s .. i - 1 : p[j].op # "write"
      <3>1. \A j \in s .. i - 1 : j \in 1 .. Len(p) /\ j < 10
        BY <2>6, <1>1, <1>2, <1>3
      <3> QED BY <3>1, <2>1 DEF UpdateFits
    <2>8. "table" \in Areas
      BY DEF Areas
    <2> QED BY <2>2, <2>7, <2>8, <1>1, <1>3 DEF Ahead, LooksAt, p
  <1>7. CASE kind[g] # "update"
    <2>1. /\ TidyEnd(p)
          /\ \A j \in s .. i : p[j].op \notin {"enter", "commit"}
          /\ IsLook(p[i])
          /\ \A n \in s .. i : IsLook(p[n]) => LooksAt(g, p[n])
      <3>1. CASE kind[g] \in Installs
        <4>1. InstallFits(p)
          BY <1>4, <3>1
        <4>2. /\ p[i].op = "show" /\ p[i].n < limit[g]
              /\ \A j \in s .. i : p[j].op \notin {"enter", "commit"}
          BY <4>1, <1>3, <1>5 DEF InstallFits
        <4>3. s # 1
          BY <4>1, <4>2, <1>1, <1>3 DEF InstallFits
        <4>4. limit[g] = 97
          BY <4>3, <3>1, <1>1 DEF LimitRight
        <4> QED BY <4>1, <4>2, <4>4 DEF InstallFits, IsLook, LooksAt
      <3>2. CASE kind[g] \notin VentoyKinds
        <4>1. IsoFits(p)
          BY <1>4, <3>2
        <4> QED BY <4>1, <1>3, <1>5 DEF IsoFits, IsLook, LooksAt
      <3> QED BY <3>1, <3>2, <1>7 DEF VentoyKinds
    <2>2. PICK n \in s .. i : \E a \in Areas :
               /\ IsLook(p[n])
               /\ \A j \in s .. n - 1 : p[j].op = "write" => p[j].area = a
      BY <2>1, <1>1, <1>2, <1>3, SpanToLook
    <2>3. n \in s .. Len(p) /\ \A j \in s .. n : j \in s .. i
      BY <2>2, <1>1, <1>2, <1>3
    <2>4. PICK a \in Areas :
               /\ IsLook(p[n])
               /\ \A j \in s .. n - 1 : p[j].op = "write" => p[j].area = a
      BY <2>2
    <2>5. LooksAt(g, p[n]) /\ \A j \in s .. n : p[j].op \notin {"enter", "commit"}
      BY <2>1, <2>2, <2>3, <2>4
    <2>6. Ahead(p, g, a)
      BY <2>3, <2>4, <2>5 DEF Ahead
    <2> QED BY <2>6, <1>1 DEF p
  <1> QED BY <1>6, <1>7

LEMMA MustSame ==
    ASSUME NEW g \in Jobs, MustRight(g),
           kind'[g] = kind[g], step'[g] = step[g], outcome'[g] = outcome[g],
           limit'[g] = limit[g], after'[g] = after[g], g \in must' <=> g \in must,
           Running(g) /\ Flagged(g) => Flagged(g)'
    PROVE  MustRight(g)'
  <1>1. Running(g)' <=> Running(g)
    BY DEF Running
  <1>2. ASSUME g \in must
        PROVE  /\ outcome'[g] # "ok"
               /\ \E a \in Areas :
                     /\ after'[g] \subseteq {a}
                     /\ Running(g)' => Flagged(g)' /\ Ahead(JobPlan(g), g, a)'
    <2>1. outcome[g] # "ok"
      BY <1>2 DEF MustRight
    <2>2. PICK a \in Areas : /\ after[g] \subseteq {a}
                             /\ Running(g) => Flagged(g) /\ Ahead(JobPlan(g), g, a)
      BY <1>2 DEF MustRight
    <2>3. Ahead(JobPlan(g), g, a) => Ahead(JobPlan(g), g, a)'
      BY DEF Ahead, JobPlan, LooksAt
    <2> QED BY <2>1, <2>2, <2>3, <1>1
  <1>3. g \notin must => after'[g] = {}
    BY DEF MustRight
  <1> QED BY <1>2, <1>3 DEF MustRight

LEMMA WorksMust ==
    ASSUME Basics, NEW g \in Jobs, Works(g), MustRight(g)
    PROVE  MustRight(g)'
  <1> DEFINE p == JobPlan(g)
             s == step[g]
             x == p[s]
  <1>1. /\ Running(g) /\ Fits(kind[g]) /\ s \in Nat /\ s >= 1 /\ Len(p) \in Nat
        /\ \/ /\ s \in 1 .. Len(p) /\ x \in Steps
              /\ Does(g, x) \/ \E how \in Ways \ {"ok"} : Ends(g, x, how)
           \/ s > Len(p) /\ Ends(g, Look, "ok")
    BY WorkIs
  <1>2. UNCHANGED <<kind, isoCancel, must>> /\ outcome[g] = "none" /\ p' = p
    BY OthersAs DEF Running, JobPlan
  <1>3. /\ step \in [Jobs -> Nat] /\ outcome \in [Jobs -> {"none", "ok", "failed", "cancelled", "threw", "died"}]
        /\ limit \in [Jobs -> {0, 11, 97}] /\ after \in [Jobs -> SUBSET Areas]
    BY DEF Basics, JobsTypeOK
  <1>4. kind[g] \notin VentoyKinds => IsoFits(p)
    BY <1>1 DEF Fits, JobPlan
  <1>5. kind[g] \in VentoyKinds /\ s \in 1 .. Len(p) => x.op # "poll"
    BY <1>1, PollIsIso
  <1> HIDE DEF p, x
  <1>6. CASE g \notin must
    <2>1. ASSUME NEW y, Does(g, y) \/ \E how \in Ways : Ends(g, y, how)
          PROVE  after'[g] = after[g]
      BY <1>3, <1>6, <2>1 DEF Does, Ends, writes
    <2> QED BY <1>1, <1>2, <1>6, <2>1 DEF MustRight, Ways
  <1>7. CASE g \in must
    <2>1. PICK a \in Areas : after[g] \subseteq {a} /\ Flagged(g) /\ Ahead(p, g, a)
      BY <1>1, <1>7 DEF MustRight, p
    <2>2. PICK i \in s .. Len(p) :
            /\ LooksAt(g, p[i])
            /\ \A j \in s .. i : p[j].op \notin {"enter", "commit"}
            /\ \A j \in s .. i - 1 : p[j].op = "write" => p[j].area = a
      BY <2>1 DEF Ahead
    <2>3. s \in 1 .. Len(p) /\ s \in s .. i /\ x.op \notin {"enter", "commit"}
      BY <2>2, <1>1 DEF x
    <2>4. x.op = "write" => x.area = a
      <3>1. CASE i = s
        BY <3>1, <2>2 DEF LooksAt, x
      <3>2. CASE i # s
        <4>1. s \in s .. i - 1
          BY <3>2, <2>2, <1>1
        <4> QED BY <4>1, <2>2 DEF x
      <3> QED BY <3>1, <3>2
    <2>5. CASE Does(g, x)
      <3>1. i # s
        <4>1. SUFFICES ASSUME i = s
                       PROVE  FALSE
          OBVIOUS
        <4>2. LooksAt(g, x)
          BY <4>1, <2>2 DEF x
        <4>3. CASE x.op = "poll"
          <5>1. ~isoCancel
            BY <2>5, <4>3 DEF Does
          <5>2. kind[g] \notin VentoyKinds
            BY <1>5, <2>3, <4>3
          <5> QED BY <5>1, <5>2, <2>1 DEF Flagged
        <4>4. CASE x.op = "show" /\ x.n < limit[g]
          <5>1. kind[g] \in VentoyKinds
            BY <1>4, <2>3, <4>4 DEF IsoFits, x
          <5>2. g \in cancelled
            BY <5>1, <2>1 DEF Flagged
          <5> QED BY <5>2, <4>4, <2>5 DEF Does
        <4> QED BY <4>2, <4>3, <4>4 DEF LooksAt
      <3>2. step'[g] = s + 1 /\ limit' = limit /\ cancelled' = cancelled /\ outcome'[g] = "none"
        BY <1>2, <1>3, <2>3, <2>5 DEF Does
      <3>3. after'[g] \subseteq {a}
        BY <1>3, <2>1, <2>4, <2>5, <1>7 DEF Does, writes
      <3>4. Flagged(g)'
        BY <3>2, <1>2, <2>1 DEF Flagged
      <3>5. Ahead(p, g, a)'
        <4>1. i \in s + 1 .. Len(p)
          BY <3>1, <2>2, <1>1
        <4>2. /\ \A j \in s + 1 .. i : j \in s .. i
              /\ \A j \in s + 1 .. i - 1 : j \in s .. i - 1
          BY <1>1
        <4>3. LooksAt(g, p[i])'
          BY <2>2, <3>2, <1>2 DEF LooksAt
        <4> QED BY <4>1, <4>2, <4>3, <2>2, <3>2, <1>2 DEF Ahead
      <3> QED BY <3>2, <3>3, <3>4, <3>5, <1>2, <1>7 DEF MustRight, p
    <2>6. ASSUME NEW how \in Ways \ {"ok"}, Ends(g, x, how)
          PROVE  MustRight(g)'
      <3>1. outcome'[g] = how /\ how \notin {"ok", "none"}
        BY <1>3, <2>6 DEF Ends, Ways
      <3>2. after'[g] \subseteq {a}
        BY <1>3, <2>1, <2>4, <2>6, <1>7 DEF Ends
      <3> QED BY <3>1, <3>2, <1>2, <1>7 DEF MustRight, Running
    <2> QED BY <1>1, <2>3, <2>5, <2>6
  <1> QED BY <1>6, <1>7

LEMMA MustsKept ==
    ASSUME Basics, Event, \A g \in Jobs : LimitRight(g) /\ MustRight(g)
    PROVE  \A g \in Jobs : MustRight(g)'
  <1>1. ASSUME NEW g \in Jobs, Works(g), NEW h \in Jobs
        PROVE  MustRight(h)'
    <2>1. CASE h = g
      BY <1>1, <2>1, WorksMust
    <2>2. CASE h # g
      <3>1. /\ UNCHANGED <<kind, isoCancel, must>>
            /\ \A j \in Jobs \ {g} :
                /\ step'[j] = step[j] /\ outcome'[j] = outcome[j] /\ limit'[j] = limit[j]
                /\ after'[j] = after[j] /\ (j \in cancelled' <=> j \in cancelled)
        BY <1>1, OthersAs
      <3>2. Flagged(h) => Flagged(h)'
        BY <2>2, <3>1 DEF Flagged
      <3> QED BY <2>2, <3>1, <3>2, MustSame
    <2> QED BY <2>1, <2>2
  <1>2. ASSUME NEW g \in Jobs, NEW k \in JobKinds, Tap(g, k), NEW h \in Jobs
        PROVE  MustRight(h)'
    <2>1. /\ kind[g] = "none" /\ entry[ModeOf(k)] = 0
          /\ k \in VentoyKinds => isoCancel' = isoCancel
          /\ \A j \in Jobs \ {g} : kind'[j] = kind[j] /\ step'[j] = step[j]
          /\ UNCHANGED <<outcome, limit, cancelled, must, after>>
      BY <1>2, TapAs
    <2>2. CASE h = g
      <3>1. h \notin must' /\ after'[h] = {}
        BY <2>1, <2>2 DEF Basics, EntriesRight
      <3> QED BY <3>1 DEF MustRight
    <2>3. CASE h # g
      <3>1. ASSUME Running(h), Flagged(h)
            PROVE  Flagged(h)'
        <4>1. kind[h] \notin VentoyKinds => k \in VentoyKinds
          <5>1. entry[ModeOf(kind[h])] = h /\ h # 0
            BY <3>1, JobsAssumption DEF Basics, EntriesRight, Jobs
          <5> QED BY <5>1, <2>1 DEF ModeOf
        <4>2. kind'[h] = kind[h]
          BY <2>1, <2>3
        <4> QED BY <4>1, <4>2, <3>1, <2>1 DEF Flagged
      <3> QED BY <2>1, <2>3, <3>1, MustSame
    <2> QED BY <2>2, <2>3
  <1>3. ASSUME Dies, NEW h \in Jobs
        PROVE  MustRight(h)'
    <2>1. /\ UNCHANGED <<must, after>> /\ ~Running(h)'
          /\ outcome'[h] = outcome[h] \/ outcome'[h] \in {"died", "threw"}
      BY <1>3, DeadAs
    <2> QED BY <2>1 DEF MustRight
  <1>4. ASSUME UNCHANGED <<kind, step, outcome, limit, after, must, cancelled, isoCancel>>,
               NEW h \in Jobs
        PROVE  MustRight(h)'
    <2>1. Flagged(h) => Flagged(h)'
      BY <1>4 DEF Flagged
    <2> QED BY <1>4, <2>1, MustSame
  <1>5. ASSUME NEW g \in Jobs, Report(g)
        PROVE  UNCHANGED <<kind, step, outcome, limit, after, must, cancelled, isoCancel>>
    BY <1>5, ReportAs
  <1>6. ASSUME (\E m \in JobModes : PressStop(m)) \/ PullOut \/ PlugIn \/ UNCHANGED driveJobVars
        PROVE  UNCHANGED <<kind, step, outcome, limit, after, must, cancelled, isoCancel>>
    BY <1>6, PressIs, PlugIs DEF PressAs, PlugAs
  <1>7. ASSUME NEW g \in Jobs, RunHook(g), NEW h \in Jobs
        PROVE  MustRight(h)'
    <2>1. /\ UNCHANGED <<kind, step, outcome, limit, after>>
          /\ cancelled \subseteq cancelled' /\ must \subseteq must' /\ (isoCancel => isoCancel')
          /\ \A j \in must' \ must :
                 /\ j \in Jobs /\ StillLooks(j)
                 /\ kind[j] \in VentoyKinds => j \in cancelled'
                 /\ kind[j] \notin VentoyKinds => isoCancel'
      BY <1>7, HookAs
    <2>2. CASE h \in must' \ must
      <3>1. StillLooks(h) /\ Flagged(h)' /\ after'[h] = {}
        BY <2>1, <2>2 DEF Flagged, MustRight
      <3>2. Running(h) /\ \E a \in Areas : Ahead(JobPlan(h), h, a)
        BY <3>1, AheadOfStop
      <3>3. PICK a \in Areas : Ahead(JobPlan(h), h, a)
        BY <3>2
      <3>4. Ahead(JobPlan(h), h, a)'
        BY <3>3, <2>1 DEF Ahead, LooksAt, JobPlan
      <3>5. outcome'[h] # "ok"
        BY <3>2, <2>1 DEF Running
      <3> QED BY <2>2, <3>1, <3>4, <3>5 DEF MustRight
    <2>3. CASE h \notin must' \ must
      <3>1. Flagged(h) => Flagged(h)'
        BY <2>1 DEF Flagged
      <3>2. h \in must' <=> h \in must
        BY <2>1, <2>3
      <3> QED BY <2>1, <3>1, <3>2, MustSame
    <2> QED BY <2>2, <2>3
  <1> QED BY <1>1, <1>2, <1>3, <1>4, <1>5, <1>6, <1>7 DEF Event

-----------------------------------------------------------------------------
(* What the drive holds of a job that runs.                                *)

\* Who has opened the drive holds it.  What it has written to the end is there,
\* while the drive is plugged in and, once flushed, for good; and what it has
\* read back is there.
DriveRight(g) ==
    LET p == JobPlan(g)
        s == step[g] IN
    Running(g) =>
        /\ Opened(p, s) => holder = g
        /\ \A a \in Areas : Past(p, s, a) /\ (plugged \/ Flushed(p, s)) =>
              cache[a] = g \/ <<g, a>> \in lied
        /\ Flushed(p, s) => cache = media
        /\ \A a \in Areas : ReadBack(p, s, a) => cache[a] = g

\* A job that has not opened the drive yet has done nothing to it.
LEMMA DriveIdle ==
    ASSUME NEW p, Sound(p), NEW s \in Nat, ~Opened(p, s)
    PROVE  ~Flushed(p, s) /\ \A a : ~Past(p, s, a) /\ ~ReadBack(p, s, a)
  BY OpenBefore

LEMMA PlanKnown ==
    ASSUME Basics, NEW g \in Jobs, Running(g)
    PROVE  Sound(JobPlan(g)) /\ step[g] \in Nat /\ kind[g] \in Kinds
  <1>1. kind[g] \in Kinds /\ step[g] \in Nat
    BY BoundsAssumption DEF Basics, JobsTypeOK, Running
  <1> QED BY <1>1, PlanFacts DEF Fits, JobPlan

LEMMA DriveSame ==
    ASSUME Basics, NEW g \in Jobs, DriveRight(g),
           kind'[g] = kind[g], Running(g)' => Running(g) /\ step'[g] = step[g],
           Running(g) /\ Opened(JobPlan(g), step[g]) =>
              /\ UNCHANGED <<cache, media, holder, plugged>>
              /\ \A a : <<g, a>> \in lied => <<g, a>> \in lied'
    PROVE  DriveRight(g)'
  <1> SUFFICES ASSUME Running(g)'
               PROVE  DriveRight(g)'
    BY DEF DriveRight
  <1> DEFINE p == JobPlan(g)
             s == step[g]
  <1>1. Running(g) /\ step'[g] = s /\ p' = p /\ Sound(p) /\ s \in Nat
    BY PlanKnown DEF JobPlan
  <1> HIDE DEF p
  <1>2. CASE Opened(p, s)
    <2>1. /\ UNCHANGED <<cache, media, holder, plugged>>
          /\ \A a : <<g, a>> \in lied => <<g, a>> \in lied'
      BY <1>1, <1>2 DEF p
    <2> QED BY <1>1, <2>1 DEF DriveRight, p
  <1>3. CASE ~Opened(p, s)
    <2>1. ~Flushed(p, s) /\ \A a : ~Past(p, s, a) /\ ~ReadBack(p, s, a)
      BY <1>1, <1>3, DriveIdle
    <2> QED BY <1>1, <1>3, <2>1 DEF DriveRight, p
  <1> QED BY <1>2, <1>3

LEMMA WorksDrive ==
    ASSUME Basics, NEW g \in Jobs, Works(g), DriveRight(g)
    PROVE  DriveRight(g)'
  <1> DEFINE p == JobPlan(g)
             s == step[g]
             x == p[s]
  <1>1. /\ Running(g) /\ Sound(p) /\ s \in Nat /\ s >= 1 /\ Len(p) \in Nat
        /\ \/ /\ s \in 1 .. Len(p) /\ x \in Steps
              /\ Does(g, x) \/ \E how \in Ways \ {"ok"} : Ends(g, x, how)
           \/ s > Len(p) /\ Ends(g, Look, "ok")
    BY WorkIs
  <1>2. kind' = kind /\ p' = p
    BY OthersAs DEF JobPlan
  <1>3. step \in [Jobs -> Nat] /\ cache \in [Areas -> Contents]
        /\ outcome \in [Jobs -> {"none", "ok", "failed", "cancelled", "threw", "died"}]
    BY DEF Basics, JobsTypeOK
  <1>4. ASSUME NEW y, NEW how \in Ways, Ends(g, y, how)
        PROVE  DriveRight(g)'
    <2>1. outcome'[g] # "none"
      BY <1>3, <1>4 DEF Ends, Ways
    <2> QED BY <2>1 DEF DriveRight, Running
  <1> HIDE DEF p, x
  <1>5. ASSUME s \in 1 .. Len(p), x \in Steps, Does(g, x)
        PROVE  DriveRight(g)'
    <2>1. step'[g] = s + 1
      BY <1>3, <1>5 DEF Does
    <2>2. /\ Opened(p, s + 1) => Opened(p, s) \/ x.op = "open"
          /\ Flushed(p, s + 1) => Flushed(p, s) \/ x.op = "sync"
          /\ Flushed(p, s) => x.op # "write"
          /\ \A a : Past(p, s + 1, a) =>
                \/ Past(p, s, a) /\ ~Writes(x, a)
                \/ Writes(x, a) /\ x.n = 1
          /\ \A a : ReadBack(p, s + 1, a) => ReadBack(p, s, a) \/ (x.op = "read" /\ x.area = a)
          /\ \A a : ReadBack(p, s, a) => Flushed(p, s)
      BY <1>1, <1>5, NextPlace, OpenBefore DEF x
    <2>3. /\ Opened(p, s) => holder = g
          /\ \A a \in Areas : Past(p, s, a) /\ (plugged \/ Flushed(p, s)) =>
                cache[a] = g \/ <<g, a>> \in lied
          /\ Flushed(p, s) => cache = media
          /\ \A a \in Areas : ReadBack(p, s, a) => cache[a] = g
      BY <1>1 DEF DriveRight, p
    <2>4. /\ plugged' = plugged
          /\ x.op = "open" => holder' = g
          /\ x.op # "open" => holder' = holder
          /\ x.op # "write" => cache' = cache /\ lied' = lied
          /\ x.op = "sync" => media' = cache /\ plugged
          /\ x.op # "sync" => media' = media
          /\ x.op = "read" => cache[x.area] = g
          /\ lied \subseteq lied'
      BY <1>5 DEF Does, writes
    <2>5. ASSUME x.op = "write"
          PROVE  /\ \A a \in Areas \ {x.area} : cache'[a] = cache[a]
                 /\ x.n = 1 => cache'[x.area] = g \/ <<g, x.area>> \in lied'
      <3>1. x.area \in Areas
        BY <1>5, <2>5 DEF Steps
      <3> QED BY <3>1, <2>5, <1>3, <1>5 DEF Does
    <2>6. Opened(p, s + 1) => holder' = g
      BY <2>2, <2>3, <2>4
    <2>7. ASSUME NEW a \in Areas, Past(p, s + 1, a), plugged' \/ Flushed(p, s + 1)
          PROVE  cache'[a] = g \/ <<g, a>> \in lied'
      <3>1. CASE Writes(x, a) /\ x.n = 1
        BY <3>1, <2>5 DEF Writes
      <3>2. CASE Past(p, s, a) /\ ~Writes(x, a)
        <4>1. plugged \/ Flushed(p, s)
          BY <2>2, <2>4, <2>7
        <4>2. cache[a] = g \/ <<g, a>> \in lied
          BY <4>1, <3>2, <2>3
        <4>3. cache'[a] = cache[a]
          BY <3>2, <2>4, <2>5 DEF Writes
        <4> QED BY <4>2, <4>3, <2>4
      <3> QED BY <3>1, <3>2, <2>2, <2>7
    <2>8. Flushed(p, s + 1) => cache' = media'
      BY <2>2, <2>3, <2>4
    <2>9. ASSUME NEW a \in Areas, ReadBack(p, s + 1, a)
          PROVE  cache'[a] = g
      <3>1. cache' = cache
        BY <2>2, <2>4, <2>9
      <3> QED BY <3>1, <2>2, <2>3, <2>4, <2>9
    <2> QED BY <1>2, <2>1, <2>6, <2>7, <2>8, <2>9 DEF DriveRight, p
  <1> QED BY <1>1, <1>4, <1>5 DEF Ways

\* A job that has opened the drive sees no other job at work on it.
LEMMA NoOneElse ==
    ASSUME Basics, NEW g \in Jobs, Works(g), DriveRight(g), holder # g, holder # 0
    PROVE  UNCHANGED <<cache, media, holder, plugged>>
  <1> DEFINE p == JobPlan(g)
             s == step[g]
             x == p[s]
  <1>1. /\ Running(g) /\ Sound(p) /\ s \in Nat /\ s >= 1
        /\ \/ /\ s \in 1 .. Len(p)
              /\ Does(g, x) \/ \E how \in Ways \ {"ok"} : Ends(g, x, how)
           \/ s > Len(p) /\ Ends(g, Look, "ok")
    BY WorkIs
  <1>2. ~Opened(p, s)
    BY <1>1 DEF DriveRight
  <1>3. s \in 1 .. Len(p) => x.op \notin {"write", "sync", "read"}
    BY <1>1, <1>2, NextPlace
  <1> HIDE DEF p, x
  <1>4. ASSUME x.op \notin {"write", "sync", "read"}, Does(g, x)
        PROVE  UNCHANGED <<cache, media, holder, plugged>>
    BY <1>4 DEF Does
  <1>5. ASSUME NEW y, y.op # "write", NEW how \in Ways, Ends(g, y, how)
        PROVE  UNCHANGED <<cache, media, holder, plugged>>
    BY <1>5 DEF Ends, Release
  <1>6. Look.op # "write"
    BY DEF Look, Step
  <1> QED BY <1>1, <1>3, <1>4, <1>5, <1>6 DEF Ways

\* A pulled plug takes nothing of what was flushed.
LEMMA PullKeeps ==
    ASSUME Basics, NEW g \in Jobs, PullOut, PlugAs, DriveRight(g)
    PROVE  DriveRight(g)'
  <1> SUFFICES ASSUME Running(g)'
               PROVE  DriveRight(g)'
    BY DEF DriveRight
  <1> DEFINE p == JobPlan(g)
             s == step[g]
  <1>1. Running(g) /\ step'[g] = s /\ p' = p /\ Sound(p) /\ s \in Nat
        /\ UNCHANGED <<holder, lied>>
    <2>1. UNCHANGED <<holder, kind, step, outcome, lied>>
      BY DEF PlugAs
    <2> QED BY <2>1, PlanKnown DEF Running, JobPlan
  <1>2. plugged' = FALSE
    BY DEF PullOut, Unplug
  <1>3. /\ Opened(p, s) => holder = g
        /\ \A a \in Areas : Past(p, s, a) /\ (plugged \/ Flushed(p, s)) =>
              cache[a] = g \/ <<g, a>> \in lied
        /\ Flushed(p, s) => cache = media
        /\ \A a \in Areas : ReadBack(p, s, a) => cache[a] = g
    BY <1>1 DEF DriveRight
  <1>4. \A a : ReadBack(p, s, a) => Flushed(p, s)
    BY <1>1, OpenBefore
  <1> HIDE DEF p, s
  <1>5. PICK S \in SUBSET {a \in Areas : cache[a] # media[a]} :
            cache' = [a \in Areas |-> IF a \in S THEN cache[a] ELSE media[a]]
    BY DEF PullOut, Unplug
  <1>6. media' = cache'
    BY DEF PullOut, Unplug
  <1>7. cache = media => cache' = cache
    BY <1>5 DEF Basics, JobsTypeOK
  <1> QED BY <1>1, <1>2, <1>3, <1>4, <1>6, <1>7 DEF DriveRight, p, s

LEMMA DriveKept ==
    ASSUME Basics, Event, \A g \in Jobs : DriveRight(g)
    PROVE  \A g \in Jobs : DriveRight(g)'
  <1>1. ASSUME NEW g \in Jobs, Works(g), NEW h \in Jobs
        PROVE  DriveRight(h)'
    <2>1. CASE h = g
      BY <1>1, <2>1, WorksDrive
    <2>2. CASE h # g
      <3>1. /\ kind' = kind
            /\ \A j \in Jobs \ {g} :
                  /\ step'[j] = step[j] /\ outcome'[j] = outcome[j]
                  /\ \A a : <<j, a>> \in lied => <<j, a>> \in lied'
        BY <1>1, OthersAs
      <3>2. ASSUME Running(h), Opened(JobPlan(h), step[h])
            PROVE  UNCHANGED <<cache, media, holder, plugged>>
        <4>1. holder = h /\ h # 0
          BY <3>2, JobsAssumption DEF DriveRight, Jobs
        <4> QED BY <4>1, <2>2, <1>1, NoOneElse
      <3>3. Running(h)' => Running(h)
        BY <3>1, <2>2 DEF Running
      <3> QED BY <2>2, <3>1, <3>2, <3>3, DriveSame
    <2> QED BY <2>1, <2>2
  <1>2. ASSUME NEW g \in Jobs, NEW k \in JobKinds, Tap(g, k), NEW h \in Jobs
        PROVE  DriveRight(h)'
    <2>1. /\ kind'[g] = k /\ step'[g] = 1
          /\ \A j \in Jobs \ {g} : kind'[j] = kind[j] /\ step'[j] = step[j]
          /\ UNCHANGED <<cache, media, plugged, holder, outcome, lied>>
      BY <1>2, TapAs
    <2>2. CASE h = g
      BY <2>1, <2>2, AtFirst DEF DriveRight, JobPlan
    <2>3. CASE h # g
      <3>1. Running(h)' => Running(h)
        BY <2>1, <2>3 DEF Running
      <3> QED BY <2>1, <2>3, <3>1, DriveSame
    <2> QED BY <2>2, <2>3
  <1>3. ASSUME Dies, NEW h \in Jobs
        PROVE  DriveRight(h)'
    BY <1>3, DeadAs DEF DriveRight
  <1>4. ASSUME UNCHANGED <<cache, media, plugged, holder, kind, step, outcome, lied>>,
               NEW h \in Jobs
        PROVE  DriveRight(h)'
    <2>1. Running(h)' => Running(h)
      BY <1>4 DEF Running
    <2> QED BY <1>4, <2>1, DriveSame
  <1>5. ASSUME NEW g \in Jobs, Report(g) \/ RunHook(g)
        PROVE  UNCHANGED <<cache, media, plugged, holder, kind, step, outcome, lied>>
    BY <1>5, ReportAs, HookAs
  <1>6. ASSUME NEW m \in JobModes, PressStop(m)
        PROVE  UNCHANGED <<cache, media, plugged, holder, kind, step, outcome, lied>>
    BY <1>6, PressIs DEF PressAs
  <1>7. ASSUME PullOut \/ PlugIn \/ UNCHANGED driveJobVars, NEW h \in Jobs
        PROVE  DriveRight(h)'
    <2>1. PlugAs
      BY <1>7, PlugIs
    <2>2. CASE UNCHANGED <<cache, media, plugged>>
      BY <2>1, <2>2, <1>4 DEF PlugAs
    <2>3. CASE PullOut
      BY <2>1, <2>3, PullKeeps
    <2>4. CASE \A g \in Jobs : ~Running(g)
      BY <2>1, <2>4 DEF PlugAs, DriveRight, Running
    <2> QED BY <2>1, <2>2, <2>3, <2>4 DEF PlugAs
  <1> QED BY <1>1, <1>2, <1>3, <1>4, <1>5, <1>6, <1>7 DEF Event

-----------------------------------------------------------------------------
(* The invariant.                                                          *)

JobsInv == /\ Basics /\ AskedRight
           /\ \A g \in Jobs : LimitRight(g) /\ MustRight(g) /\ DriveRight(g)

LEMMA JobsBegin == JobsInit => JobsInv
  <1> SUFFICES ASSUME JobsInit
               PROVE  JobsInv
    OBVIOUS
  <1>1. /\ kind = [g \in Jobs |-> "none"] /\ step = [g \in Jobs |-> 0]
        /\ outcome = [g \in Jobs |-> "none"] /\ limit = [g \in Jobs |-> 97]
        /\ cancelled = {} /\ isoCancel = FALSE /\ active = 0
        /\ entry = [m \in JobModes |-> 0]
        /\ stopping = {} /\ hooks = {} /\ must = {} /\ late = {}
        /\ wrote = [g \in Jobs |-> {}] /\ after = wrote /\ lied = {} /\ mishaps = 0
    BY DEF JobsInit
  <1>2. /\ cache \in [Areas -> Contents] /\ media \in [Areas -> Contents]
        /\ plugged = TRUE /\ holder = 0
    <2>1. /\ \E had \in HadVentoy : cache = [a \in Areas |-> IF had THEN Ventoy ELSE Blank]
          /\ media = cache /\ plugged = TRUE /\ holder = 0
      BY DEF JobsInit, DriveInit
    <2>2. Ventoy \in Contents /\ Blank \in Contents
      BY JobsAssumption DEF Ventoy, Blank, Contents, Torn
    <2>3. cache \in [Areas -> Contents]
      <3>1. PICK had \in HadVentoy : cache = [a \in Areas |-> IF had THEN Ventoy ELSE Blank]
        BY <2>1
      <3>2. \A a \in Areas : (IF had THEN Ventoy ELSE Blank) \in Contents
        BY <2>2, Zenon
      <3> DEFINE f(a) == IF had THEN Ventoy ELSE Blank
      <3>3. cache = [a \in Areas |-> f(a)] /\ \A a \in Areas : f(a) \in Contents
        BY <3>1, <3>2
      <3> HIDE DEF f
      <3> QED BY <3>3
    <2> QED BY <2>1, <2>3
  <1>3. JobsTypeOK
    <2>1. /\ kind \in [Jobs -> JobKinds \cup {"none"}] /\ step \in [Jobs -> Nat]
          /\ outcome \in [Jobs -> {"none", "ok", "failed", "cancelled", "threw", "died"}]
          /\ limit \in [Jobs -> {0, 11, 97}] /\ entry \in [JobModes -> Jobs \cup {0}]
      BY <1>1
    <2>2. wrote \in [Jobs -> SUBSET Areas] /\ after \in [Jobs -> SUBSET Areas]
      BY <1>1
    <2>3. plugged \in BOOLEAN /\ isoCancel \in BOOLEAN
      BY <1>1, <1>2, Zenon
    <2>4. mishaps \in 0 .. MaxMishaps
      BY <1>1, BoundsAssumption
    <2> QED BY <1>1, <1>2, <2>1, <2>2, <2>3, <2>4 DEF JobsTypeOK
  <1>4. \A g \in Jobs : kind[g] = "none" /\ outcome[g] = "none" /\ ~Running(g)
    BY <1>1 DEF Running
  <1>5. EntriesRight
    BY <1>1, <1>4 DEF EntriesRight, JobModes
  <1>6. AskedRight
    BY <1>1, <1>4 DEF AskedRight, CancelledOnlyIfAsked
  <1>7. \A g \in Jobs : LimitRight(g) /\ MustRight(g) /\ DriveRight(g)
    BY <1>1, <1>4 DEF LimitRight, MustRight, DriveRight
  <1> QED BY <1>3, <1>5, <1>6, <1>7 DEF JobsInv, Basics

LEMMA JobsKept == JobsInv /\ [JobsNext]_driveJobVars => JobsInv'
  <1> SUFFICES ASSUME JobsInv, [JobsNext]_driveJobVars
               PROVE  JobsInv'
    OBVIOUS
  <1>1. Event
    BY NextIsEvent DEF JobsInv
  <1>2. Basics' /\ AskedRight'
    BY <1>1, BasicsKept, AskedKept DEF JobsInv
  <1>3. (\A g \in Jobs : LimitRight(g)') /\ (\A g \in Jobs : MustRight(g)')
        /\ (\A g \in Jobs : DriveRight(g)')
    BY <1>1, LimitsKept, MustsKept, DriveKept DEF JobsInv
  <1> QED BY <1>2, <1>3 DEF JobsInv, Jobs

LEMMA JobsAlways == JobsSpec => []JobsInv
  BY JobsBegin, JobsKept, PTL DEF JobsSpec

-----------------------------------------------------------------------------
(* What the user is told.                                                  *)

\* The invariant says of every job what StopsHonoured does.
LEMMA StopsAre == JobsInv => StopsHonoured
  <1> SUFFICES ASSUME JobsInv
               PROVE  StopsHonoured
    OBVIOUS
  <1>1. ASSUME NEW g \in must
        PROVE  outcome[g] # "ok" /\ Cardinality(after[g]) <= 1
    <2>1. g \in Jobs
      BY DEF JobsInv, Basics, JobsTypeOK
    <2>2. outcome[g] # "ok" /\ \E a \in Areas : after[g] \subseteq {a}
      BY <2>1 DEF JobsInv, MustRight
    <2>3. PICK a \in Areas : after[g] \subseteq {a}
      BY <2>2
    <2>4. IsFiniteSet({a}) /\ Cardinality({a}) = 1
      BY FS_Singleton
    <2>5. Cardinality(after[g]) <= Cardinality({a})
      BY <2>3, <2>4, FS_Subset
    <2> QED BY <2>2, <2>4, <2>5
  <1>2. UpdateStopUntouched
    BY DEF JobsInv, LimitRight, UpdateStopUntouched
  <1>3. CancelledOnlyIfAsked
    BY DEF JobsInv, AskedRight
  <1> QED BY <1>1, <1>2, <1>3 DEF StopsHonoured, StopHeeded

\* A job succeeds only when it has come to the end of its plan.
LEMMA OnlyDone ==
    ASSUME Basics, Event, NEW g \in Jobs, Succeeds(g)
    PROVE  Works(g) /\ step[g] > Len(JobPlan(g)) /\ Ends(g, Look, "ok")
  <1>1. outcome'[g] # outcome[g] /\ outcome'[g] = "ok"
    BY DEF Succeeds
  <1>2. ASSUME NEW h \in Jobs, Works(h)
        PROVE  h = g
    BY <1>1, <1>2, OthersAs
  <1>3. outcome' # outcome /\ ~Dies
    BY <1>1, DeadAs
  <1>4. Works(g)
    <2>1. ~ (\E h \in Jobs, k \in JobKinds : Tap(h, k))
      BY <1>3, TapAs
    <2>2. \A h \in Jobs : ~Report(h) /\ ~RunHook(h)
      BY <1>3, ReportAs, HookAs
    <2>3. \A m \in JobModes : ~PressStop(m)
      BY <1>3, PressIs DEF PressAs
    <2>4. ~ (PullOut \/ PlugIn \/ UNCHANGED driveJobVars)
      BY <1>3, PlugIs DEF PlugAs
    <2> QED BY <1>2, <1>3, <2>1, <2>2, <2>3, <2>4 DEF Event
  <1>5. outcome \in [Jobs -> {"none", "ok", "failed", "cancelled", "threw", "died"}]
    BY DEF Basics, JobsTypeOK
  <1>6. ASSUME NEW x, Does(g, x)
        PROVE  FALSE
    BY <1>1, <1>6 DEF Does
  <1>7. ASSUME NEW x, NEW how \in Ways \ {"ok"}, Ends(g, x, how)
        PROVE  FALSE
    BY <1>1, <1>5, <1>7 DEF Ends
  <1> QED BY <1>4, <1>6, <1>7, WorkIs

\* What the drive holds of a job that reports success.
LEMMA DoneRight ==
    ASSUME JobsInv, Event, NEW g \in Jobs, Succeeds(g)
    PROVE  /\ \A a \in AreasWritten(kind[g]) : media'[a] = g \/ <<g, a>> \in lied
           /\ \A a \in Checked(kind[g]) : media'[a] = g
  <1> DEFINE p == JobPlan(g)
             s == step[g]
  <1>1. Works(g) /\ s > Len(p) /\ media' = media
    BY OnlyDone DEF JobsInv, Ends
  <1>2. Running(g) /\ Sound(p) /\ s \in Nat /\ Len(p) \in Nat
    BY <1>1, WorkIs DEF JobsInv
  <1>3. /\ Flushed(p, s)
        /\ \A i \in 1 .. Len(p) : p[i].op = "write" => Past(p, s, p[i].area)
        /\ \A i \in 1 .. Len(p) : p[i].op = "read" => ReadBack(p, s, p[i].area)
    BY <1>1, <1>2, AtTheEnd
  <1>4. /\ \A a \in Areas : Past(p, s, a) /\ (plugged \/ Flushed(p, s)) =>
              cache[a] = g \/ <<g, a>> \in lied
        /\ Flushed(p, s) => cache = media
        /\ \A a \in Areas : ReadBack(p, s, a) => cache[a] = g
    BY <1>2 DEF JobsInv, DriveRight
  <1>5. p = Plan[kind[g]] /\ DOMAIN p = 1 .. Len(p) /\ \A i \in 1 .. Len(p) : p[i] \in Steps
    <2>1. p \in Seq(Steps)
      BY <1>2 DEF Sound
    <2> QED BY <2>1, LenProperties DEF JobPlan
  <1> HIDE DEF p, s
  <1>6. ASSUME NEW a \in AreasWritten(kind[g])
        PROVE  media'[a] = g \/ <<g, a>> \in lied
    <2>1. PICK i \in 1 .. Len(p) : p[i].op = "write" /\ a = p[i].area
      BY <1>5, <1>6 DEF AreasWritten, Ops
    <2>2. a \in Areas
      BY <2>1, <1>5 DEF Steps
    <2> QED BY <2>1, <2>2, <1>1, <1>3, <1>4
  <1>7. ASSUME NEW a \in Checked(kind[g])
        PROVE  media'[a] = g
    <2>1. PICK i \in 1 .. Len(p) : p[i].op = "read" /\ a = p[i].area
      BY <1>5, <1>7 DEF Checked, Ops
    <2>2. a \in Areas
      BY <2>1, <1>5 DEF Steps
    <2> QED BY <2>1, <2>2, <1>1, <1>3, <1>4
  <1> QED BY <1>6, <1>7

\* What the drive holds of an update that writes the table.
LEMMA TableAfter ==
    ASSUME JobsInv, Event, NEW g \in Jobs, kind[g] = "update",
           "table" \in wrote'[g] \ wrote[g], NEW a \in {"core", "efi"}
    PROVE  cache[a] = g \/ <<g, a>> \in lied
  <1> DEFINE p == JobPlan(g)
             s == step[g]
             x == p[s]
  <1>1. wrote'[g] # wrote[g]
    OBVIOUS
  <1>2. Works(g)
    <2>1. wrote' # wrote
      BY <1>1
    <2>2. ~ (\E h \in Jobs, k \in JobKinds : Tap(h, k)) /\ ~Dies
      BY <2>1, TapAs, DeadAs DEF JobsInv
    <2>3. \A h \in Jobs : ~Report(h) /\ ~RunHook(h)
      BY <2>1, ReportAs, HookAs DEF JobsInv
    <2>4. \A m \in JobModes : ~PressStop(m)
      BY <2>1, PressIs DEF PressAs
    <2>5. ~ (PullOut \/ PlugIn \/ UNCHANGED driveJobVars)
      BY <2>1, PlugIs DEF PlugAs
    <2>6. ASSUME NEW h \in Jobs, Works(h)
          PROVE  h = g
      BY <1>1, <2>6, OthersAs DEF JobsInv
    <2> QED BY <2>2, <2>3, <2>4, <2>5, <2>6 DEF Event
  <1>3. /\ Running(g) /\ Sound(p) /\ Fits(kind[g]) /\ s \in Nat /\ s >= 1 /\ Len(p) \in Nat
        /\ \/ /\ s \in 1 .. Len(p) /\ x \in Steps
              /\ Does(g, x) \/ \E how \in Ways \ {"ok"} : Ends(g, x, how)
           \/ s > Len(p) /\ Ends(g, Look, "ok")
    BY <1>2, WorkIs DEF JobsInv
  <1>4. wrote \in [Jobs -> SUBSET Areas]
    BY DEF JobsInv, Basics, JobsTypeOK
  <1> HIDE DEF x
  <1>5. ASSUME NEW y, Does(g, y)
        PROVE  plugged /\ Writes(y, "table")
    BY <1>1, <1>4, <1>5 DEF Does, writes, Writes
  <1>6. ASSUME NEW y, NEW how, Ends(g, y, how)
        PROVE  plugged /\ Writes(y, "table")
    BY <1>1, <1>4, <1>6 DEF Ends, Writes
  <1>7. ~Writes(Look, "table")
    BY DEF Writes, Look, Step
  <1>8. plugged /\ Writes(x, "table") /\ s \in 1 .. Len(p)
    BY <1>3, <1>5, <1>6, <1>7
  <1>9. TableLast(p)
    BY <1>3 DEF Fits, UpdateFits, JobPlan
  <1>10. Past(p, s, a)
    <2>1. /\ \E j \in 1 .. s - 1 : Writes(p[j], a)
          /\ \A j \in s .. Len(p) : ~Writes(p[j], a)
      BY <1>8, <1>9 DEF TableLast, x
    <2>2. \A j \in 1 .. s - 1 : j <= Len(p)
      BY <1>8, <1>3
    <2> QED BY <2>1, <2>2 DEF Past
  <1>11. a \in Areas
    BY DEF Areas
  <1> QED BY <1>3, <1>8, <1>10, <1>11 DEF JobsInv, DriveRight

\* A job told to stop while it still looks (cancel of VentoyInstaller,
\* requestCancel of the ISO writer) never ends as done and writes one more area
\* at most, an update that was stopped has written nothing, and nobody is
\* stopped who was not asked to be.
THEOREM StopsAlwaysHonoured == JobsSpec => []StopsHonoured
  BY JobsAlways, StopsAre, PTL

\* RESULT_OK and "written successfully" mean that every area the job writes is
\* on the medium as this job wrote it, where the drive told the truth; and what
\* was verified is there whether it did or not.
THEOREM DoneIsAlwaysThere == JobsSpec => DoneIsThere
  <1>1. JobsInv /\ [JobsNext]_driveJobVars =>
          [\A g \in Jobs : Succeeds(g) =>
             \A a \in AreasWritten(kind[g]) : media'[a] = g \/ <<g, a>> \in lied]_driveJobVars
    BY NextIsEvent, DoneRight DEF JobsInv
  <1>2. JobsInv /\ [JobsNext]_driveJobVars =>
          [\A g \in Jobs : Succeeds(g) =>
             \A a \in Checked(kind[g]) : media'[a] = g]_driveJobVars
    BY NextIsEvent, DoneRight DEF JobsInv
  <1> QED BY <1>1, <1>2, JobsAlways, PTL DEF JobsSpec, DoneIsThere, SuccessIsWhole, VerifiedIsWhole

\* update() writes the sector with the boot code when stage 1 and VTOYEFI are
\* there as the new version has them, where the drive told the truth.
THEOREM BootCodeAlwaysLast == JobsSpec => BootCodeLast
  <1>1. JobsInv /\ [JobsNext]_driveJobVars =>
          [\A g \in Jobs :
             kind[g] = "update" /\ "table" \in wrote'[g] \ wrote[g] =>
               \A a \in {"core", "efi"} : cache[a] = g \/ <<g, a>> \in lied]_driveJobVars
    BY NextIsEvent, TableAfter DEF JobsInv
  <1> QED BY <1>1, JobsAlways, PTL DEF JobsSpec, BootCodeLast
==============================================================================
