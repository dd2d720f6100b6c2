------------------------- MODULE TunnelView_proofs -------------------------
(***************************************************************************)
(* What a read says of the machine, what the table and the graph show, and *)
(* what a command that exits 0 has done: for every number of tunnels and   *)
(* of interfaces, every set of files and every configuration.              *)
(***************************************************************************)
EXTENDS CommandLine, TLAPS, WellFoundedInduction, FiniteSetTheorems

-----------------------------------------------------------------------------
(* Induction over the natural numbers, for a set of them; it comes from the *)
(* order being well founded.                                                *)

LEMMA Least ==
  ASSUME NEW S \in SUBSET Nat, S # {}
  PROVE  \E n \in S : \A m \in S : n <= m
<1>1. IsWellFoundedOn(OpToRel(<, Nat), Nat)
  BY NatLessThanWellFounded
<1>2. \E x \in S : \A y \in S : <<y, x>> \notin OpToRel(<, Nat)
  <2> HIDE DEF OpToRel
  <2> QED BY <1>1, WFMin
<1>3. PICK x \in S : \A y \in S : <<y, x>> \notin OpToRel(<, Nat)
  BY <1>2
<1>4. ASSUME NEW y \in S PROVE x <= y
  <2>1. <<y, x>> \notin OpToRel(<, Nat)
    BY <1>3
  <2>2. x \in Nat /\ y \in Nat
    OBVIOUS
  <2>3. ~ (y < x)
    BY <2>1, <2>2 DEF OpToRel
  <2> QED BY <2>2, <2>3
<1> QED BY <1>4

LEMMA Induct ==
  ASSUME NEW S, 0 \in S, \A n \in Nat : n \in S => n + 1 \in S
  PROVE  Nat \subseteq S
<1> SUFFICES ASSUME Nat \ S # {} PROVE FALSE
  OBVIOUS
<1>1. PICK n \in Nat \ S : \A m \in Nat \ S : n <= m
  <2>1. Nat \ S \in SUBSET Nat
    OBVIOUS
  <2> QED BY <2>1, Least
<1>2. n - 1 \in Nat /\ n # 0
  BY <1>1
<1>3. n - 1 \in S
  BY <1>1, <1>2
<1>4. (n - 1) + 1 \in S
  BY <1>2, <1>3
<1> QED BY <1>1, <1>4

\* The least element of a set of indices.
LEMMA MinIsLeast ==
  ASSUME NEW S \in SUBSET Nat, S # {}
  PROVE  Min(S) \in S /\ \A m \in S : Min(S) <= m
BY Least DEF Min

-----------------------------------------------------------------------------
(* Sequences. *)

LEMMA SeqElements ==
  ASSUME NEW s, IsSequence(s)
  PROVE  /\ Len(s) \in Nat /\ DOMAIN s = 1..Len(s) /\ s \in [1..Len(s) -> Range(s)]
         /\ Range(s) = {s[i] : i \in 1..Len(s)}
BY DEF IsSequence, Range

\* Only keeps what is in the set and leaves the order alone: no element comes
\* twice out of a sequence that has it once.
LEMMA OnlyIs ==
  ASSUME NEW s, IsSequence(s), NEW T
  PROVE  /\ Only(s, T) \in Seq(Range(s) \cap T)
         /\ Range(Only(s, T)) = Range(s) \cap T
         /\ IsInjective(s) => IsInjective(Only(s, T))
<1> DEFINE Grow(f, n) == IF n = 0 THEN <<>>
                         ELSE IF s[n] \in T THEN Append(f[n - 1], s[n]) ELSE f[n - 1]
           Solves(f, m) == f = [n \in 0..m |-> Grow(f, n)]
           F == CHOOSE f : Solves(f, Len(s))
           R(n) == {s[i] : i \in 1..n}
           Right(o, m) ==
             /\ o \in Seq(R(m) \cap T)
             /\ \A i \in 1..m : s[i] \in T => \E j \in 1..Len(o) : o[j] = s[i]
             /\ IsInjective(s) => \A i, j \in 1..Len(o) : o[i] = o[j] => i = j
<1>0. Len(s) \in Nat /\ DOMAIN s = 1..Len(s) /\ Range(s) = R(Len(s))
  BY SeqElements
<1>1. Only(s, T) = F[Len(s)]
  BY DEF Only
<1>2. \A m \in Nat : \E f : Solves(f, m)
  <2> DEFINE S == {m \in Nat : \E f : Solves(f, m)}
  <2>1. \E f : Solves(f, 0)
    <3>1. [n \in 0..0 |-> <<>>] = [n \in 0..0 |-> Grow([k \in 0..0 |-> <<>>], n)]
      OBVIOUS
    <3> QED BY <3>1
  <2>2. ASSUME NEW m \in Nat, \E f : Solves(f, m) PROVE \E f : Solves(f, m + 1)
    <3>1. PICK f : Solves(f, m)
      BY <2>2
    <3>2. \A n \in 0..m : f[n] = Grow(f, n)
      BY <3>1
    <3> DEFINE g == [n \in 0..(m + 1) |-> IF n <= m THEN f[n] ELSE Grow(f, n)]
    <3>3. \A n \in 0..(m + 1) : g[n] = Grow(f, n)
      BY <3>2
    <3>4. \A n \in 0..(m + 1) : n # 0 => g[n - 1] = f[n - 1]
      OBVIOUS
    <3>5. \A n \in 0..(m + 1) : Grow(f, n) = Grow(g, n)
      BY <3>4
    <3>6. g = [n \in 0..(m + 1) |-> Grow(g, n)]
      BY <3>3, <3>5
    <3> QED BY <3>6
  <2> HIDE DEF Solves
  <2>3. 0 \in S /\ \A m \in Nat : m \in S => m + 1 \in S
    BY <2>1, <2>2
  <2>4. Nat \subseteq S
    <3> HIDE DEF S
    <3> QED BY <2>3, Induct
  <2> QED BY <2>4
<1>3. \A n \in 0..Len(s) : F[n] = Grow(F, n)
  <2>1. Solves(F, Len(s))
    <3> HIDE DEF Solves
    <3> QED BY <1>0, <1>2
  <2> HIDE DEF F
  <2> QED BY <2>1
<1> HIDE DEF F
<1>4. \A m \in Nat : m <= Len(s) => Right(F[m], m)
  <2> DEFINE S == {m \in Nat : m <= Len(s) => Right(F[m], m)}
  <2>1. Right(F[0], 0)
    <3>1. F[0] = <<>>
      BY <1>0, <1>3
    <3> QED BY <3>1
  <2>2. ASSUME NEW m \in Nat, m + 1 <= Len(s), Right(F[m], m) PROVE Right(F[m + 1], m + 1)
    <3> DEFINE old == F[m]
    <3>1. F[m + 1] = IF s[m + 1] \in T THEN Append(old, s[m + 1]) ELSE old
      <4>1. m + 1 \in 0..Len(s) /\ m + 1 # 0 /\ (m + 1) - 1 = m
        BY <1>0, <2>2
      <4> QED BY <1>3, <4>1
    <3>2. Right(old, m)
      BY <2>2
    <3>3. R(m) \subseteq R(m + 1) /\ s[m + 1] \in R(m + 1)
      OBVIOUS
    <3> HIDE DEF old
    <3>4. CASE s[m + 1] \notin T
      <4>1. old \in Seq(R(m + 1) \cap T)
        <5>1. R(m) \cap T \subseteq R(m + 1) \cap T
          BY <3>3
        <5> HIDE DEF R
        <5> QED BY <3>2, <5>1
      <4>2. \A i \in 1..(m + 1) : s[i] \in T => i \in 1..m
        BY <3>4
      <4> HIDE DEF R
      <4>3. Right(old, m + 1)
        BY <3>2, <4>1, <4>2
      <4> QED BY <3>1, <3>4, <4>3
    <3>5. CASE s[m + 1] \in T
      <4> DEFINE q == Append(old, s[m + 1])
      <4>1. q \in Seq(R(m + 1) \cap T)
        <5>1. R(m) \cap T \subseteq R(m + 1) \cap T /\ s[m + 1] \in R(m + 1) \cap T
          BY <3>3, <3>5
        <5> HIDE DEF R
        <5>2. old \in Seq(R(m + 1) \cap T)
          BY <3>2, <5>1
        <5> QED BY <5>1, <5>2
      <4>2. /\ Len(old) \in Nat /\ Len(q) = Len(old) + 1
            /\ \A j \in 1..Len(old) : q[j] = old[j]
            /\ q[Len(old) + 1] = s[m + 1]
        <5> HIDE DEF R
        <5> QED BY <3>2
      <4>3. \A j \in 1..Len(old) : \E k \in 1..m : old[j] = s[k]
        <5>1. \A j \in 1..Len(old) : old[j] \in R(m)
          <6> HIDE DEF R
          <6> QED BY <3>2
        <5> QED BY <5>1
      <4> HIDE DEF q, R
      <4>4. \A i \in 1..(m + 1) : s[i] \in T => \E j \in 1..Len(q) : q[j] = s[i]
        <5> SUFFICES ASSUME NEW i \in 1..(m + 1), s[i] \in T
                     PROVE  \E j \in 1..Len(q) : q[j] = s[i]
          OBVIOUS
        <5>1. CASE i \in 1..m
          BY <3>2, <4>2, <5>1
        <5>2. CASE i = m + 1
          BY <4>2, <5>2
        <5> QED BY <5>1, <5>2
      <4>5. IsInjective(s) => \A i, j \in 1..Len(q) : q[i] = q[j] => i = j
        <5> SUFFICES ASSUME IsInjective(s), NEW i \in 1..Len(q), NEW j \in 1..Len(q), q[i] = q[j]
                     PROVE  i = j
          OBVIOUS
        <5>1. \A k \in 1..m : s[k] # s[m + 1]
          <6>1. \A a, b \in 1..Len(s) : s[a] = s[b] => a = b
            BY <1>0 DEF IsInjective
          <6>2. \A k \in 1..m : k \in 1..Len(s) /\ m + 1 \in 1..Len(s) /\ k # m + 1
            BY <1>0, <2>2
          <6> QED BY <6>1, <6>2
        <5>2. \A k \in 1..Len(old) : q[k] # s[m + 1]
          BY <4>2, <4>3, <5>1
        <5>3. CASE i \in 1..Len(old) /\ j \in 1..Len(old)
          BY <3>2, <4>2, <5>3
        <5>4. CASE i = Len(old) + 1 \/ j = Len(old) + 1
          BY <4>2, <5>2, <5>4
        <5> QED BY <4>2, <5>3, <5>4
      <4>6. Right(q, m + 1)
        BY <4>1, <4>4, <4>5
      <4>7. F[m + 1] = q
        BY <3>1, <3>5 DEF q
      <4> QED BY <4>6, <4>7
    <3> QED BY <3>4, <3>5
  <2> HIDE DEF Right
  <2>3. 0 \in S
    BY <2>1
  <2>4. \A m \in Nat : m \in S => m + 1 \in S
    BY <1>0, <2>2
  <2>5. Nat \subseteq S
    <3> HIDE DEF S
    <3> QED BY <2>3, <2>4, Induct
  <2> QED BY <2>5
<1> DEFINE o == F[Len(s)]
<1>5. Right(o, Len(s))
  <2> HIDE DEF Right
  <2> QED BY <1>0, <1>4
<1> HIDE DEF o
<1>6. o \in Seq(Range(s) \cap T) /\ DOMAIN o = 1..Len(o)
  <2>1. o \in Seq(R(Len(s)) \cap T)
    BY <1>5
  <2> HIDE DEF R
  <2> QED BY <1>0, <2>1
<1>7. Range(o) = Range(s) \cap T
  <2>1. Range(o) \subseteq Range(s) \cap T
    BY <1>6 DEF Range
  <2>2. ASSUME NEW e \in Range(s) \cap T PROVE e \in Range(o)
    <3>1. PICK i \in 1..Len(s) : e = s[i]
      BY <1>0
    <3>2. PICK j \in 1..Len(o) : o[j] = s[i]
      BY <1>5, <3>1
    <3> QED BY <1>6, <3>1, <3>2 DEF Range
  <2> QED BY <2>1, <2>2
<1>8. IsInjective(s) => IsInjective(o)
  BY <1>5, <1>6 DEF IsInjective
<1> QED BY <1>1, <1>6, <1>7, <1>8 DEF o

-----------------------------------------------------------------------------
(* Files.  What Parse gives is a record that has seen a peer once it has a   *)
(* key, so a file fails for its key alone.                                   *)

LEMMA ParseSeesPeer ==
  ASSUME NEW lines, IsSequence(lines)
  PROVE  Parse(lines).key # "" => Parse(lines).seenPeer
<1> DEFINE Grow(f, n) == IF n = 0 THEN Blank ELSE ParseLine(f[n - 1], lines[n])
           Solves(f, m) == f = [n \in 0..m |-> Grow(f, n)]
           F == CHOOSE f : Solves(f, Len(lines))
           Sound(tun) ==
             /\ DOMAIN tun = {"section", "seenPeer", "key", "endpoint", "allowed", "check"}
             /\ tun.section = "peer" => tun.seenPeer
             /\ tun.key # "" => tun.seenPeer
             /\ tun.seenPeer \in BOOLEAN
<1>0. Len(lines) \in Nat
  BY SeqElements
<1>1. \A m \in Nat : \E f : Solves(f, m)
  <2> DEFINE S == {m \in Nat : \E f : Solves(f, m)}
  <2>1. \E f : Solves(f, 0)
    <3>1. [n \in 0..0 |-> Blank] = [n \in 0..0 |-> Grow([k \in 0..0 |-> Blank], n)]
      OBVIOUS
    <3> QED BY <3>1
  <2>2. ASSUME NEW m \in Nat, \E f : Solves(f, m) PROVE \E f : Solves(f, m + 1)
    <3>1. PICK f : Solves(f, m)
      BY <2>2
    <3>2. \A n \in 0..m : f[n] = Grow(f, n)
      BY <3>1
    <3> DEFINE g == [n \in 0..(m + 1) |-> IF n <= m THEN f[n] ELSE Grow(f, n)]
    <3>3. \A n \in 0..(m + 1) : g[n] = Grow(f, n)
      BY <3>2
    <3>4. \A n \in 0..(m + 1) : n # 0 => g[n - 1] = f[n - 1]
      OBVIOUS
    <3>5. \A n \in 0..(m + 1) : Grow(f, n) = Grow(g, n)
      BY <3>4
    <3>6. g = [n \in 0..(m + 1) |-> Grow(g, n)]
      BY <3>3, <3>5
    <3> QED BY <3>6
  <2> HIDE DEF Solves
  <2>3. 0 \in S /\ \A m \in Nat : m \in S => m + 1 \in S
    BY <2>1, <2>2
  <2>4. Nat \subseteq S
    <3> HIDE DEF S
    <3> QED BY <2>3, Induct
  <2> QED BY <2>4
<1>2. \A n \in 0..Len(lines) : F[n] = Grow(F, n)
  <2>1. Solves(F, Len(lines))
    <3> HIDE DEF Solves
    <3> QED BY <1>0, <1>1
  <2> HIDE DEF F
  <2> QED BY <2>1
<1> HIDE DEF F
<1>3. \A m \in Nat : m <= Len(lines) => Sound(F[m])
  <2> DEFINE S == {m \in Nat : m <= Len(lines) => Sound(F[m])}
  <2>1. Sound(F[0])
    <3>1. F[0] = Blank
      BY <1>0, <1>2
    <3>2. Sound(Blank)
      BY DEF Blank
    <3> HIDE DEF Sound
    <3> QED BY <3>1, <3>2
  <2>2. ASSUME NEW tun, NEW line, Sound(tun) PROVE Sound(ParseLine(tun, line))
    <3>1. CASE line.k = "TO_CHECK" /\ line.v # ""
      BY <2>2, <3>1 DEF ParseLine
    <3>2. CASE ~(line.k = "TO_CHECK" /\ line.v # "") /\ line.k = "section"
      BY <2>2, <3>2 DEF ParseLine
    <3>3. CASE ~(line.k = "TO_CHECK" /\ line.v # "") /\ line.k # "section"
      <4> DEFINE rest == {"key", "endpoint", "allowed"}
      <4>1. PICK v : \/ ParseLine(tun, line) = [tun EXCEPT !.key = v] /\ tun.section = "peer"
                     \/ ParseLine(tun, line) = [tun EXCEPT !.endpoint = v]
                     \/ ParseLine(tun, line) = [tun EXCEPT !.allowed = v]
                     \/ ParseLine(tun, line) = tun
        BY <3>3 DEF ParseLine
      <4> QED BY <2>2, <4>1
    <3> QED BY <3>1, <3>2, <3>3
  <2>3. ASSUME NEW m \in Nat, m + 1 <= Len(lines), Sound(F[m]) PROVE Sound(F[m + 1])
    <3> HIDE DEF Sound
    <3>1. m + 1 \in 0..Len(lines) /\ m + 1 # 0 /\ (m + 1) - 1 = m
      BY <1>0, <2>3
    <3>2. F[m + 1] = ParseLine(F[m], lines[m + 1])
      BY <1>2, <3>1
    <3> QED BY <2>2, <2>3, <3>2
  <2> HIDE DEF Sound
  <2>4. 0 \in S
    BY <2>1
  <2>5. \A m \in Nat : m \in S => m + 1 \in S
    BY <1>0, <2>3
  <2>6. Nat \subseteq S
    <3> HIDE DEF S
    <3> QED BY <2>4, <2>5, Induct
  <2> QED BY <2>6
<1> DEFINE tun == F[Len(lines)]
<1>4. Sound(tun)
  <2> HIDE DEF Sound
  <2> QED BY <1>0, <1>3
<1>5. Parse(lines) = [tun EXCEPT !.check = IF @ = "" THEN InferCheckIP(tun) ELSE @]
  BY DEF Parse, F
<1> HIDE DEF tun
<1> QED BY <1>4, <1>5

\* What the setup of a behaviour is known to be.
LEMMA SetupIs ==
  ASSUME setup \in Setups
  PROVE  /\ N \in Nat \ {0} /\ D \in Nat \ {0}
         /\ \A f \in DOMAIN setup.files : IsSequence(setup.files[f])
         /\ \A g \in DOMAIN setup.groups : setup.groups[g] \in Seq(TunnelNames)
         /\ IsSequence(setup.overrides)
         /\ \A o \in Range(setup.overrides) : o.tunnel \in TunnelNames
         /\ IsSequence(setup.view.rows)
         /\ setup.up \subseteq Tunnels \cap Devices \cap DOMAIN setup.files
         /\ "read" \in setup.does => setup.commands = {}
         /\ \A typed \in setup.commands :
               typed.verb \in {"up", "down"} /\ typed.names \in Seq(TunnelNames)
BY SetupAssumption, CommandsAssumption

\* LoadDir gives every usable file once.
LEMMA LoadedIs ==
  /\ Loaded \in Seq(Range(Loaded))
  /\ Range(Loaded) = Tunnels \cap DOMAIN setup.files
  /\ \A i, j \in 1..Len(Loaded) : Loaded[i] = Loaded[j] => i = j
  /\ Len(Loaded) = Cardinality({f \in DOMAIN setup.files : ValidName(f)})
<1> DEFINE all == [t \in Tunnels |-> t]
           F == {f \in DOMAIN setup.files : ValidName(f)}
<1>0. N \in Nat
  BY SetupAssumption
<1>1. Range(all) = Tunnels /\ DOMAIN all = 1..N
  BY DEF Range, Tunnels
<1>2. all \in Seq(Tunnels) /\ IsInjective(all)
  BY <1>0 DEF Tunnels, IsInjective
<1>3. IsSequence(all)
  BY <1>1, <1>2 DEF IsSequence
<1> HIDE DEF all
<1>4. /\ Loaded \in Seq(Range(all) \cap DOMAIN setup.files)
      /\ Range(Loaded) = Range(all) \cap DOMAIN setup.files
      /\ IsInjective(Loaded)
  BY <1>2, <1>3, OnlyIs DEF Loaded, all
<1>5. F = Range(Loaded)
  BY <1>1, <1>4 DEF ValidName
<1>6. Loaded \in Seq(Range(Loaded)) /\ Len(Loaded) \in Nat /\ DOMAIN Loaded = 1..Len(Loaded)
  <2>1. Loaded \in Seq(Range(Loaded))
    BY <1>4
  <2> HIDE DEF F
  <2> QED BY <2>1
<1>7. Len(Loaded) = Cardinality(F)
  <2> DEFINE I == 1..Len(Loaded)
  <2>1. IsFiniteSet(I) /\ Cardinality(I) = Len(Loaded)
    <3>1. ASSUME NEW n \in Nat PROVE IsFiniteSet(1..n) /\ Cardinality(1..n) = n
      <4>1. 1 \in Int /\ n \in Int /\ (IF 1 > n THEN 0 ELSE n - 1 + 1) = n
        OBVIOUS
      <4> QED BY <4>1, FS_Interval
    <3>2. Len(Loaded) \in Nat
      BY <1>6
    <3> QED BY <3>1, <3>2
  <2>2. Loaded \in Bijection(I, F)
    <3>1. Loaded \in [I -> F]
      BY <1>5, <1>6
    <3>2. \A i, j \in I : Loaded[i] = Loaded[j] => i = j
      BY <1>4, <1>6 DEF IsInjective
    <3>3. \A f \in F : \E i \in I : Loaded[i] = f
      BY <1>5, <1>6 DEF Range
    <3> HIDE DEF I, F
    <3> QED BY <3>1, <3>2, <3>3 DEF Bijection, Injection, Surjection, IsInjective
  <2>3. ExistsBijection(I, F)
    BY <2>2 DEF ExistsBijection
  <2> QED BY <2>1, <2>3, FS_Bijection
<1> QED BY <1>1, <1>4, <1>6, <1>7 DEF IsInjective

\* A load fails for no file, and for a usable one without a key.
LEMMA LoadFailsIs ==
  ASSUME setup \in Setups
  PROVE  LoadFails(setup.files) <=>
           \/ DOMAIN setup.files = {}
           \/ \E t \in Tunnels \cap DOMAIN setup.files : Conf(t).key = ""
BY SetupIs, ParseSeesPeer DEF LoadFails, Parses, ValidName, Conf

-----------------------------------------------------------------------------
(* The machine: what is carried has a file, and whatever carries a tunnel is *)
(* the interface its name file gives - one interface for each tunnel.        *)

MachineInv ==
  /\ setup \in Setups /\ host \in setup.hosts
  /\ carries \in [Devices -> {-1, 0} \cup Range(Loaded)]
  /\ name \in [Tunnels -> {0} \cup Devices]
  /\ fresh \in [Devices -> BOOLEAN]
  /\ rx \in [Devices -> Nat] /\ carried \in [Tunnels -> 0..MaxBytes] /\ clock \in 0..MaxTime
  /\ \A d \in Devices : carries[d] > 0 => name[carries[d]] = d

-----------------------------------------------------------------------------
(* A read.  Its rows are of the files in their order until they are sorted;  *)
(* and as long as nothing moved, what it holds is what the machine has: the  *)
(* peers of the interfaces it is through with, and for each row the peer     *)
(* that the name file or the key leads to.                                   *)

RowsAreFiles ==
  LET rows == read.rows
  IN  /\ \A i \in 1..Len(rows) : rows[i].group \in GroupsOf(rows[i].tunnel, read.context)
      /\ read.at = "locating" =>
           Len(rows) <= Len(Loaded) /\ \A i \in 1..Len(rows) : rows[i].tunnel = Loaded[i]
      /\ read.at = "done" =>
           Len(rows) = Len(Loaded) /\ {rows[i].tunnel : i \in 1..Len(rows)} = Range(Loaded)

ReadTypes ==
  /\ DOMAIN read = {"at", "left", "state", "context", "rows", "moved", "refused"}
  /\ read.at \in {"idle", "listing", "reading", "locating", "done", "failed"}
  /\ read.left \subseteq Devices /\ IsSequence(read.state) /\ IsSequence(read.rows)
  /\ read.at \in {"listing", "reading"} => read.rows = <<>>
  /\ read.at = "listing" => read.state = <<>>
  /\ read.at \notin {"idle", "failed"} => ~LoadFails(setup.files)

KeysApart == \A t, u \in Range(Loaded) : Conf(t).key = Conf(u).key => t = u

Carrying == {d \in Devices : carries[d] > 0}
Peers(devices) == {PeerOf(d) : d \in devices}

\* The peer a tunnel leads to, with no more to tell tunnels apart than there is.
Shown(t) ==
  IF setup.runDir
  THEN IF name[t] # 0 /\ carries[name[t]] > 0 THEN PeerOf(name[t]) ELSE NoPeer
  ELSE IF name[t] # 0 /\ carries[name[t]] = t THEN PeerOf(name[t]) ELSE NoPeer

RowsAreShown ==
  \A i \in 1..Len(read.rows) :
    /\ read.rows[i].health = Health(read.rows[i].peer)
    /\ setup.runDir \/ KeysApart => read.rows[i].peer = Shown(read.rows[i].tunnel)

StillTrue ==
  /\ read.at = "failed" => Broken \/ read.refused
  /\ read.at = "reading" =>
       /\ \A d \in read.left : carries[d] # 0
       /\ \A d \in Devices : carries[d] = -1 => d \in read.left
       /\ Range(read.state) = Peers(Carrying \ read.left)
  /\ read.at \in {"locating", "done"} =>
       -1 \notin Range(carries) /\ Detected # "failed" /\ RowsAreShown
  /\ read.at = "locating" => Range(read.state) = Peers(Carrying)

ReadInv == ReadTypes /\ RowsAreFiles /\ (~read.moved => StillTrue)

-----------------------------------------------------------------------------
(* The table, the cursor on it and the rounds of probes asked from it.       *)

ViewInv ==
  /\ IsSequence(view.rows) /\ Made(view)
  /\ cursor \in -1..Max({0, Len(view.rows) - 1})
  /\ round.asked \subseteq Listed(view)
  /\ \A t \in round.asked : Conf(t).check \in round.hosts
  /\ pings.asked \subseteq pings.made /\ pings.made \subseteq Range(Loaded)
  /\ \A t \in pings.made : /\ Conf(t).check \in pings.hosts
                           /\ \E u \in pings.asked : Conf(t).check = Conf(u).check

-----------------------------------------------------------------------------
(* The graph.  A reading of a tunnel, on its way or recorded, was never of   *)
(* more than the tunnel carried by then, and between any two of them the     *)
(* counter did not gain more than the tunnel carried.                        *)

Reading(r) ==
  /\ r.at \in Nat /\ r.rx \in Nat /\ r.carried \in [Tunnels -> Nat] /\ r.own \in BOOLEAN

\* Either no reading or one.
AtMostOne(s) == s = <<>> \/ (s = <<s[1]>> /\ Reading(s[1]))

ChainInv ==
  /\ showGraph \in BOOLEAN
  /\ DOMAIN chain = 1..MaxChains /\ DOMAIN series = Tunnels
  /\ \A c \in 1..MaxChains :
       /\ DOMAIN chain[c] = {"at", "tunnel", "reading", "due"}
       /\ chain[c].at \in {"off", "asked", "read", "ticking"}
       /\ chain[c].tunnel \in {0} \cup Tunnels
       /\ AtMostOne(chain[c].reading)
       /\ chain[c].reading # <<>> => chain[c].tunnel # 0
  /\ \A t \in Tunnels : DOMAIN series[t] = {"last", "points"} /\ AtMostOne(series[t].last)

\* Who holds a reading: the series of the tunnel, or a chain that has read it.
Holders == {0} \cup 1..MaxChains
Held(k, t) ==
  IF k = 0 THEN series[t].last
  ELSE IF chain[k].at = "read" /\ chain[k].tunnel = t THEN chain[k].reading
  ELSE <<>>

Past(t, r) ==
  r.own =>
    /\ r.at <= clock /\ r.carried[t] <= carried[t]
    /\ \A d \in Devices : carries[d] = t => rx[d] - r.rx <= carried[t] - r.carried[t]

Between(t, a, b) ==
  a.own /\ b.own /\ a.at < b.at => a.carried[t] <= b.carried[t] /\ b.rx - a.rx <= b.carried[t] - a.carried[t]

RateInv ==
  \A t \in Tunnels : \A k \in Holders : Held(k, t) # <<>> =>
    /\ Past(t, Held(k, t)[1])
    /\ \A j \in Holders : Held(j, t) # <<>> => Between(t, Held(k, t)[1], Held(j, t)[1])

GraphInv == ChainInv /\ GraphIsFed /\ RateInv /\ RateIsEarned

-----------------------------------------------------------------------------
(* A command.  While it runs nobody else reads, and as long as nothing came  *)
(* across it each of its names has what was asked, or is still among the     *)
(* steps, or has a result that says otherwise.                               *)

CommandTypes ==
  /\ DOMAIN command = {"at", "typed", "names", "steps", "results", "cancelled", "alone", "exit"}
  /\ command.at \in {"none", "viewing", "next", "running", "over"}
  /\ command.at = "none" => command = NoCommand
  /\ IsSequence(command.steps) /\ IsSequence(command.results)
  /\ Range(command.steps) \subseteq Range(Loaded) /\ Range(command.names) \subseteq TunnelNames
  /\ command.typed.verb = "up" => Range(command.names) \subseteq Range(Loaded)
  /\ command.alone \in BOOLEAN
  /\ command.at # "none" => command.typed \in setup.commands
  /\ command.at = "running" => command.steps # <<>>
  /\ setup.commands # {} /\ command.at # "viewing" => read.at = "idle"
  /\ command.at = "viewing" /\ command.alone => ~read.moved

\* What was asked for is so, or nothing tells whether it is.
Satisfied(t) ==
  \/ command.typed.verb = "down" /\ ~Up(t)
  \/ command.typed.verb = "up" /\ Up(t)
  \/ command.typed.verb = "up" /\ setup.runDir /\ name[t] # 0 /\ carries[name[t]] # t
  \/ ~setup.runDir /\ ~KeysApart

Skipped(t) == <<t, "skipped">> \in Range(command.results)
SomeFailed == \E i \in 1..Len(command.results) : Failed(i)

WorkInv ==
  command.alone =>
    /\ command.at \in {"next", "running"} =>
         \A t \in Range(command.names) :
           Satisfied(t) \/ Skipped(t) \/ t \in Range(command.steps) \/ SomeFailed
    /\ command.at = "over" /\ command.exit = "ok" =>
         \A t \in Range(command.names) : Satisfied(t) \/ Skipped(t)

CommandInv == CommandTypes /\ WorkInv

CommandInvs == MachineInv /\ ReadInv /\ ViewInv /\ GraphInv /\ CommandInv

-----------------------------------------------------------------------------
(* More of sequences, and what stays with the setup. *)

LEMMA SeqIs ==
  ASSUME NEW S, NEW s \in Seq(S)
  PROVE  IsSequence(s)
<1>1. Len(s) \in Nat /\ DOMAIN s = 1..Len(s)
  OBVIOUS
<1>2. \A i \in 1..Len(s) : s[i] \in Range(s)
  BY <1>1 DEF Range
<1>3. s \in Seq(Range(s))
  BY <1>2
<1> QED BY <1>3 DEF IsSequence

LEMMA AppendIs ==
  ASSUME NEW s, IsSequence(s), NEW x
  PROVE  /\ IsSequence(Append(s, x)) /\ Len(Append(s, x)) = Len(s) + 1
         /\ \A i \in 1..Len(s) : Append(s, x)[i] = s[i]
         /\ Append(s, x)[Len(s) + 1] = x
         /\ Range(Append(s, x)) = Range(s) \cup {x}
<1> DEFINE S == Range(s) \cup {x}
           q == Append(s, x)
<1>1. s \in Seq(Range(s))
  BY DEF IsSequence
<1>2. s \in Seq(S) /\ x \in S
  <2> HIDE DEF S
  <2>1. Range(s) \subseteq S /\ x \in S
    BY DEF S
  <2> QED BY <1>1, <2>1
<1>3. Len(s) \in Nat /\ DOMAIN s = 1..Len(s) /\ Range(s) = {s[i] : i \in 1..Len(s)}
  BY SeqElements
<1>4. /\ q \in Seq(S) /\ Len(q) = Len(s) + 1 /\ DOMAIN q = 1..(Len(s) + 1)
      /\ \A i \in 1..Len(s) : q[i] = s[i]
      /\ q[Len(s) + 1] = x
  <2> HIDE DEF S
  <2> QED BY <1>2
<1> HIDE DEF q
<1>5. Range(q) = S
  BY <1>3, <1>4 DEF Range
<1> QED BY <1>4, <1>5 DEF q, IsSequence

LEMMA TailIs ==
  ASSUME NEW s, IsSequence(s), s # <<>>
  PROVE  /\ IsSequence(Tail(s)) /\ Range(s) = {Head(s)} \cup Range(Tail(s))
<1>1. Len(s) \in Nat /\ Len(s) # 0 /\ DOMAIN s = 1..Len(s) /\ s \in Seq(Range(s))
  BY SeqElements DEF IsSequence
<1>2. Head(s) = s[1]
  BY <1>1
<1>3. /\ Len(Tail(s)) = Len(s) - 1 /\ DOMAIN Tail(s) = 1..(Len(s) - 1)
      /\ \A i \in 1..(Len(s) - 1) : Tail(s)[i] = s[i + 1]
  BY <1>1
<1>4. Range(s) \subseteq {s[1]} \cup Range(Tail(s))
  <2> SUFFICES ASSUME NEW i \in 1..Len(s) PROVE s[i] = s[1] \/ s[i] \in Range(Tail(s))
    BY <1>1 DEF Range
  <2>1. CASE i = 1
    BY <2>1
  <2>2. CASE i # 1
    <3>1. i - 1 \in 1..(Len(s) - 1) /\ (i - 1) + 1 = i
      BY <1>1, <2>2
    <3>2. Tail(s)[i - 1] = s[i]
      BY <1>3, <3>1
    <3> QED BY <1>3, <3>1, <3>2 DEF Range
  <2> QED BY <2>1, <2>2
<1>5. {s[1]} \cup Range(Tail(s)) \subseteq Range(s)
  <2>1. \A i \in 1..(Len(s) - 1) : i + 1 \in 1..Len(s)
    BY <1>1
  <2> QED BY <1>1, <1>3, <2>1 DEF Range
<1>6. IsSequence(Tail(s))
  <2>1. Tail(s) \in Seq(Range(s))
    BY <1>1
  <2> QED BY <2>1, SeqIs
<1> QED BY <1>2, <1>4, <1>5, <1>6

LEMMA ConcatIs ==
  ASSUME NEW a, IsSequence(a), NEW b, IsSequence(b)
  PROVE  IsSequence(a \o b) /\ Range(a \o b) = Range(a) \cup Range(b)
<1> DEFINE S == Range(a) \cup Range(b)
           q == a \o b
<1>1. a \in Seq(Range(a)) /\ b \in Seq(Range(b))
  BY DEF IsSequence
<1>2. a \in Seq(S) /\ b \in Seq(S)
  <2>1. Range(a) \subseteq S /\ Range(b) \subseteq S
    OBVIOUS
  <2> HIDE DEF S
  <2> QED BY <1>1, <2>1
<1>3. /\ Len(a) \in Nat /\ DOMAIN a = 1..Len(a) /\ Len(b) \in Nat /\ DOMAIN b = 1..Len(b)
  BY SeqElements
<1>4. /\ q \in Seq(S) /\ DOMAIN q = 1..(Len(a) + Len(b))
      /\ \A i \in 1..(Len(a) + Len(b)) : q[i] = IF i <= Len(a) THEN a[i] ELSE b[i - Len(a)]
  <2> HIDE DEF S
  <2> QED BY <1>2, <1>3
<1> HIDE DEF q
<1>5. Range(q) \subseteq S
  <2> HIDE DEF S
  <2>1. \A i \in DOMAIN q : q[i] \in S
    BY <1>4
  <2> QED BY <2>1 DEF Range
<1>6. Range(a) \subseteq Range(q)
  <2>1. \A i \in 1..Len(a) : i \in DOMAIN q /\ q[i] = a[i]
    BY <1>3, <1>4
  <2> QED BY <1>3, <2>1 DEF Range
<1>7. Range(b) \subseteq Range(q)
  <2>1. ASSUME NEW i \in 1..Len(b) PROVE Len(a) + i \in DOMAIN q /\ q[Len(a) + i] = b[i]
    <3>1. Len(a) + i \in 1..(Len(a) + Len(b)) /\ ~(Len(a) + i <= Len(a)) /\ (Len(a) + i) - Len(a) = i
      BY <1>3
    <3> QED BY <1>4, <3>1
  <2> QED BY <1>3, <2>1 DEF Range
<1>8. Range(q) = S
  BY <1>5, <1>6, <1>7
<1> QED BY <1>4, <1>8 DEF q, IsSequence

\* A function on 1..n is a sequence.
LEMMA MappedIs ==
  ASSUME NEW n \in Nat, NEW f, f = [i \in 1..n |-> f[i]]
  PROVE  IsSequence(f) /\ Len(f) = n /\ Range(f) = {f[i] : i \in 1..n}
<1>1. \A i \in 1..n : f[i] \in Range(f)
  BY DEF Range
<1>2. f \in Seq(Range(f)) /\ Len(f) = n
  BY <1>1
<1> QED BY <1>2 DEF IsSequence, Range

LEMMA EmptyIs == IsSequence(<<>>) /\ Range(<<>>) = {} /\ Len(<<>>) = 0
<1>1. <<>> \in Seq(Range(<<>>))
  OBVIOUS
<1>2. DOMAIN <<>> = {}
  OBVIOUS
<1> QED BY <1>1, <1>2 DEF IsSequence, Range

\* What is read from the setup alone.
LEMMA SetupStays ==
  ASSUME setup' = setup
  PROVE  /\ Loaded' = Loaded
         /\ \A t : Conf(t)' = Conf(t)
         /\ \A t, context : GroupsOf(t, context)' = GroupsOf(t, context)
         /\ KeysApart' = KeysApart
BY DEF Loaded, Conf, GroupsOf, Overriding, KeysApart

-----------------------------------------------------------------------------
(* The machine. *)

LEMMA Numbers == N \in Nat \ {0} /\ D \in Nat \ {0} /\ MaxTime \in Nat /\ MaxBytes \in Nat
BY SetupAssumption

LEMMA MachineInit == Init => MachineInv
<1> SUFFICES ASSUME Init PROVE MachineInv
  OBVIOUS
<1>1. setup \in Setups
  BY DEF Init
<1>2. setup.up \subseteq Devices \cap Range(Loaded) \cap Tunnels
  BY <1>1, SetupIs, LoadedIs
<1> QED BY <1>1, <1>2, Numbers DEF Init, MachineInv, Tunnels, Devices

LEMMA BringUpKeeps ==
  ASSUME MachineInv, NEW t \in Range(Loaded), BringUp(t), setup' = setup
  PROVE  MachineInv'
<1>1. Range(Loaded) = Tunnels \cap DOMAIN setup.files
  BY LoadedIs
<1>2. PICK d \in Devices :
        /\ carries[d] <= 0
        /\ carries' = [carries EXCEPT ![d] = t] /\ name' = [name EXCEPT ![t] = d]
        /\ fresh' = [fresh EXCEPT ![d] = FALSE] /\ rx' = [rx EXCEPT ![d] = 0]
  BY DEF BringUp
<1>3. Loaded' = Loaded /\ UNCHANGED <<host, clock, carried>>
  BY SetupStays DEF BringUp
<1>4. t \in Tunnels /\ \A e \in Devices : carries[e] # t
  BY <1>1 DEF BringUp
<1>5. carries' \in [Devices -> {-1, 0} \cup Range(Loaded)] /\ name' \in [Tunnels -> {0} \cup Devices]
  BY <1>2, <1>4 DEF MachineInv
<1>6. fresh' \in [Devices -> BOOLEAN] /\ rx' \in [Devices -> Nat]
  BY <1>2 DEF MachineInv
<1>7. ASSUME NEW e \in Devices, carries'[e] > 0 PROVE name'[carries'[e]] = e
  <2>1. CASE e = d
    BY <1>2, <1>4, <2>1 DEF MachineInv
  <2>2. CASE e # d
    <3>1. carries'[e] = carries[e] /\ carries[e] # t /\ carries[e] \in Tunnels
      BY <1>1, <1>2, <1>4, <1>7, <2>2 DEF MachineInv
    <3> QED BY <1>2, <1>7, <3>1 DEF MachineInv
  <2> QED BY <2>1, <2>2
<1> QED BY <1>3, <1>5, <1>6, <1>7 DEF MachineInv

LEMMA BringDownKeeps ==
  ASSUME MachineInv, NEW t \in Tunnels, BringDown(t), setup' = setup
  PROVE  MachineInv'
<1>1. Range(Loaded) = Tunnels \cap DOMAIN setup.files
  BY LoadedIs
<1>2. Loaded' = Loaded /\ UNCHANGED <<fresh, host, clock, rx, carried>>
  BY SetupStays DEF BringDown, traffic
<1>3. /\ name[t] \in Devices /\ carries[name[t]] = t
      /\ carries' = [carries EXCEPT ![name[t]] = 0] /\ name' = [name EXCEPT ![t] = 0]
  BY DEF BringDown, MachineInv
<1>4. carries' \in [Devices -> {-1, 0} \cup Range(Loaded)] /\ name' \in [Tunnels -> {0} \cup Devices]
  BY <1>3 DEF MachineInv
<1>5. ASSUME NEW e \in Devices, carries'[e] > 0 PROVE name'[carries'[e]] = e
  <2>1. e # name[t] /\ carries'[e] = carries[e] /\ carries[e] \in Tunnels
    BY <1>1, <1>3, <1>5 DEF MachineInv
  <2>2. carries[e] # t
    BY <1>5, <2>1 DEF MachineInv
  <2> QED BY <1>3, <1>5, <2>1, <2>2 DEF MachineInv
<1> QED BY <1>2, <1>4, <1>5 DEF MachineInv

LEMMA CarriedIsLoaded ==
  ASSUME MachineInv
  PROVE  \A d \in Devices : carries[d] > 0 => carries[d] \in Range(Loaded) /\ carries[d] \in Tunnels
<1> SUFFICES ASSUME NEW d \in Devices, carries[d] > 0 PROVE carries[d] \in Range(Loaded)
  BY LoadedIs
<1>1. carries[d] = -1 \/ carries[d] = 0 \/ carries[d] \in Range(Loaded)
  BY DEF MachineInv
<1> QED BY <1>1

LEMMA DieKeeps ==
  ASSUME MachineInv, NEW d \in Devices, Die(d)
  PROVE  MachineInv'
<1>1. setup' = setup /\ UNCHANGED <<fresh, name, host, clock, rx, carried>>
  BY DEF Die, Elsewhere, traffic
<1>2. Loaded' = Loaded
  BY <1>1, SetupStays
<1>3. PICK left \in {0, -1} : carries' = [carries EXCEPT ![d] = left]
  BY DEF Die
<1> QED BY <1>1, <1>2, <1>3 DEF MachineInv

LEMMA CarryKeeps ==
  ASSUME MachineInv, NEW d \in Devices, Carry(d)
  PROVE  MachineInv'
<1>1. setup' = setup /\ UNCHANGED <<carries, fresh, name, host, clock>>
  BY DEF Carry, Elsewhere, machine
<1>2. Loaded' = Loaded /\ Range(Loaded) = Tunnels \cap DOMAIN setup.files
  BY <1>1, SetupStays, LoadedIs
<1>3. /\ carries[d] > 0 /\ carried[carries[d]] < MaxBytes
      /\ rx' = [rx EXCEPT ![d] = @ + 1] /\ carried' = [carried EXCEPT ![carries[d]] = @ + 1]
  BY DEF Carry
<1>4. carries[d] \in Tunnels /\ carried[carries[d]] \in 0..MaxBytes /\ rx[d] \in Nat
  BY <1>2, <1>3 DEF MachineInv
<1>5. carried' \in [Tunnels -> 0..MaxBytes] /\ rx' \in [Devices -> Nat]
  BY <1>3, <1>4, Numbers DEF MachineInv
<1> QED BY <1>1, <1>2, <1>5 DEF MachineInv

LEMMA HandshakeKeeps ==
  ASSUME MachineInv, NEW d \in Devices, Handshake(d)
  PROVE  MachineInv'
<1>1. setup' = setup /\ UNCHANGED <<carries, name, host, clock, rx, carried>>
  BY DEF Handshake, Elsewhere, traffic
<1>2. Loaded' = Loaded
  BY <1>1, SetupStays
<1>3. fresh' = [fresh EXCEPT ![d] = ~@]
  BY DEF Handshake
<1> QED BY <1>1, <1>2, <1>3 DEF MachineInv

\* Whatever else happens leaves the machine alone.
MachineStands == UNCHANGED <<machine, traffic>>

LEMMA StandingKeeps ==
  ASSUME MachineInv, MachineStands, setup' = setup
  PROVE  MachineInv'
<1>1. Loaded' = Loaded
  BY SetupStays
<1> QED BY <1>1 DEF MachineInv, MachineStands, machine, traffic

\* What a step of the machine is.
LEMMA NextOfMachine ==
  ASSUME Next
  PROVE  /\ setup' = setup
         /\ \/ MachineStands
            \/ \E t \in Tunnels : WgUp(t) \/ WgDown(t)
            \/ \E d \in Devices : Die(d) \/ Handshake(d) \/ Carry(d)
            \/ ChangeNetwork \/ Second
<1>1. CASE \E t \in Tunnels : WgUp(t) \/ WgDown(t)
  BY <1>1 DEF WgUp, WgDown, Elsewhere
<1>2. CASE \E d \in Devices : Die(d) \/ Handshake(d) \/ Carry(d)
  BY <1>2 DEF Die, Handshake, Carry, Elsewhere
<1>3. CASE ChangeNetwork \/ Second
  BY <1>3 DEF ChangeNetwork, Second, Elsewhere
<1>4. CASE \/ StartRead \/ ListDevices \/ ReadDevice \/ DetectNetwork \/ Locate \/ SortRows
  BY <1>4 DEF StartRead, BeginRead, ListDevices, ReadDevice, DetectNetwork, Locate, SortRows, Reads,
              MachineStands
<1>5. CASE OnView \/ AskPings \/ OnPing
  BY <1>5 DEF OnView, AskPings, OnPing, MachineStands
<1>6. CASE KeyUp \/ KeyDown \/ KeyGraph
  BY <1>6 DEF KeyUp, KeyDown, KeyGraph, Idles, MachineStands
<1>7. CASE \E c \in 1..MaxChains : Sample(c) \/ OnSample(c) \/ SampleTick(c)
  BY <1>7 DEF Sample, OnSample, SampleTick, Idles, MachineStands
<1> QED BY <1>1, <1>2, <1>3, <1>4, <1>5, <1>6, <1>7 DEF Next

LEMMA NextKeepsMachine ==
  ASSUME MachineInv, Next
  PROVE  MachineInv'
<1>1. setup' = setup
  BY NextOfMachine
<1>2. CASE MachineStands
  BY <1>1, <1>2, StandingKeeps
<1>3. ASSUME NEW t \in Tunnels, WgUp(t) \/ WgDown(t) PROVE MachineInv'
  BY <1>1, <1>3, BringUpKeeps, BringDownKeeps DEF WgUp, WgDown
<1>4. ASSUME NEW d \in Devices, Die(d) \/ Handshake(d) \/ Carry(d) PROVE MachineInv'
  BY <1>4, DieKeeps, HandshakeKeeps, CarryKeeps
<1>5. CASE ChangeNetwork
  <2>1. Loaded' = Loaded
    BY <1>1, SetupStays
  <2> QED BY <1>1, <1>5, <2>1 DEF ChangeNetwork, MachineInv, traffic
<1>6. CASE Second
  <2>1. Loaded' = Loaded
    BY <1>1, SetupStays
  <2> QED BY <1>1, <1>6, <2>1, Numbers DEF Second, MachineInv, machine
<1> QED BY <1>2, <1>3, <1>4, <1>5, <1>6, NextOfMachine

-----------------------------------------------------------------------------
(* A read. *)

LEMMA FirstIs ==
  ASSUME NEW state, IsSequence(state), NEW these \in SUBSET (1..Len(state))
  PROVE  IF these = {} THEN First(state, these) = NoPeer
         ELSE \E i \in these : First(state, these) = state[i]
<1>1. these # {} => Min(these) \in these
  BY MinIsLeast
<1> QED BY <1>1 DEF First

\* What is found among the peers of the machine.
LEMMA ResolveFindsPeers ==
  ASSUME NEW state, IsSequence(state), Range(state) = Peers(Carrying), NEW t
  PROVE  Resolve(state, t) \in Peers(Carrying) \cup {NoPeer}
<1>1. DOMAIN state = 1..Len(state) /\ \A i \in 1..Len(state) : state[i] \in Peers(Carrying)
  BY SeqElements
<1>2. \A d : ByDevice(state, d) \in Peers(Carrying) \cup {NoPeer}
  <2> SUFFICES ASSUME NEW d PROVE ByDevice(state, d) \in Peers(Carrying) \cup {NoPeer}
    OBVIOUS
  <2> DEFINE these == {i \in DOMAIN state : state[i].device = d}
  <2>1. IF these = {} THEN First(state, these) = NoPeer
        ELSE \E i \in these : First(state, these) = state[i]
    BY <1>1, FirstIs
  <2> QED BY <1>1, <2>1 DEF ByDevice
<1>3. \A key : ByPublicKey(state, key) \in Peers(Carrying) \cup {NoPeer}
  <2> SUFFICES ASSUME NEW key PROVE ByPublicKey(state, key) \in Peers(Carrying) \cup {NoPeer}
    OBVIOUS
  <2> DEFINE these == {i \in DOMAIN state : state[i].key = key}
  <2>1. IF these = {} THEN First(state, these) = NoPeer
        ELSE \E i \in these : First(state, these) = state[i]
    BY <1>1, FirstIs
  <2> QED BY <1>1, <2>1 DEF ByPublicKey
<1> QED BY <1>2, <1>3 DEF Resolve

\* In all the peers of the machine, a tunnel is found where its name file or
\* its key leads.
LEMMA ResolveIsShown ==
  ASSUME MachineInv, NEW state, IsSequence(state), Range(state) = Peers(Carrying),
         NEW t \in Range(Loaded), setup.runDir \/ KeysApart
  PROVE  Resolve(state, t) = Shown(t)
<1>1. /\ DOMAIN state = 1..Len(state) /\ \A i \in 1..Len(state) : state[i] \in Peers(Carrying)
      /\ \A d \in Carrying : \E i \in 1..Len(state) : state[i] = PeerOf(d)
  <2>1. DOMAIN state = 1..Len(state) /\ Peers(Carrying) = {state[i] : i \in 1..Len(state)}
    BY SeqElements
  <2>2. \A d \in Carrying : PeerOf(d) \in Peers(Carrying)
    BY DEF Peers
  <2> QED BY <2>1, <2>2
<1>2. \A d : PeerOf(d).device = d /\ PeerOf(d).key = Conf(carries[d]).key
  BY DEF PeerOf
<1>3. Range(Loaded) = Tunnels \cap DOMAIN setup.files
  BY LoadedIs
<1>4. CASE setup.runDir
  <2>1. CASE name[t] = 0
    BY <1>4, <2>1 DEF Resolve, Shown
  <2>2. CASE name[t] # 0
    <3> DEFINE these == {i \in DOMAIN state : state[i].device = name[t]}
    <3>0. name[t] \in Devices
      BY <1>3, <2>2 DEF MachineInv
    <3>1. IF these = {} THEN First(state, these) = NoPeer
          ELSE \E i \in these : First(state, these) = state[i]
      BY <1>1, FirstIs
    <3>2. Resolve(state, t) = First(state, these)
      BY <1>4, <2>2 DEF Resolve, ByDevice
    <3>3. \A i \in these : name[t] \in Carrying /\ state[i] = PeerOf(name[t])
      <4> SUFFICES ASSUME NEW i \in these PROVE name[t] \in Carrying /\ state[i] = PeerOf(name[t])
        OBVIOUS
      <4>1. PICK d \in Carrying : state[i] = PeerOf(d)
        BY <1>1 DEF Peers
      <4> QED BY <1>2, <4>1
    <3>4. name[t] \in Carrying => these # {}
      BY <1>1, <1>2
    <3> HIDE DEF these
    <3>5. CASE name[t] \in Carrying
      BY <1>4, <2>2, <3>1, <3>2, <3>3, <3>4, <3>5 DEF Shown, Carrying
    <3>6. CASE name[t] \notin Carrying
      <4>1. ~(carries[name[t]] > 0)
        BY <3>0, <3>6 DEF Carrying
      <4>2. Resolve(state, t) = NoPeer
        BY <3>1, <3>2, <3>3, <3>6
      <4> QED BY <1>4, <2>2, <4>1, <4>2 DEF Shown
    <3> QED BY <3>5, <3>6
  <2> QED BY <2>1, <2>2
<1>5. CASE ~setup.runDir
  <2> DEFINE these == {i \in DOMAIN state : state[i].key = Conf(t).key}
  <2>1. IF these = {} THEN First(state, these) = NoPeer
        ELSE \E i \in these : First(state, these) = state[i]
    BY <1>1, FirstIs
  <2>2. Resolve(state, t) = First(state, these)
    BY <1>5 DEF Resolve, ByPublicKey
  <2>3. ASSUME NEW i \in these
        PROVE  name[t] \in Devices /\ carries[name[t]] = t /\ state[i] = PeerOf(name[t])
    <3>1. PICK d \in Carrying : state[i] = PeerOf(d)
      BY <1>1 DEF Peers
    <3>2. d \in Devices /\ carries[d] > 0 /\ carries[d] \in Range(Loaded)
      BY <3>1, <1>3 DEF Carrying, MachineInv
    <3>3. carries[d] = t
      BY <1>2, <1>5, <3>1, <3>2 DEF KeysApart
    <3>4. name[t] = d
      BY <3>2, <3>3 DEF MachineInv
    <3> QED BY <3>1, <3>2, <3>3, <3>4
  <2>4. name[t] # 0 /\ carries[name[t]] = t => these # {}
    <3> SUFFICES ASSUME name[t] # 0, carries[name[t]] = t PROVE these # {}
      OBVIOUS
    <3>1. t > 0 /\ name[t] \in Carrying
      BY <1>3, Numbers DEF Tunnels, Carrying, MachineInv
    <3>2. PICK i \in 1..Len(state) : state[i] = PeerOf(name[t])
      BY <1>1, <3>1
    <3>3. i \in these
      BY <1>1, <1>2, <3>2
    <3> QED BY <3>3
  <2>5. 0 \notin Devices
    BY DEF Devices
  <2> HIDE DEF these
  <2>6. CASE these = {}
    BY <1>5, <2>1, <2>2, <2>4, <2>6 DEF Shown
  <2>7. CASE these # {}
    BY <1>5, <2>1, <2>2, <2>3, <2>5, <2>7 DEF Shown
  <2> QED BY <2>6, <2>7
<1> QED BY <1>4, <1>5

\* What a machine that stands is read as.
LEMMA MachineSame ==
  ASSUME setup' = setup, UNCHANGED machine
  PROVE  /\ Broken' = Broken /\ Detected' = Detected /\ Carrying' = Carrying
         /\ \A t : Shown(t)' = Shown(t)
         /\ \A devices : Peers(devices)' = Peers(devices)
<1>1. carries' = carries /\ fresh' = fresh /\ name' = name /\ host' = host
  BY DEF machine
<1>2. \A t : Conf(t)' = Conf(t)
  BY SetupStays
<1>3. \A d : PeerOf(d)' = PeerOf(d)
  BY <1>1, <1>2 DEF PeerOf
<1>4. Detected' = Detected
  <2>1. Stops' = Stops
    BY <1>1 DEF Stops, Matches
  <2> QED BY <2>1 DEF Detected
<1>5. Broken' = Broken
  BY <1>1, <1>2, <1>4 DEF Broken
<1>6. Carrying' = Carrying
  BY <1>1 DEF Carrying
<1>7. \A devices : Peers(devices)' = Peers(devices)
  BY <1>3 DEF Peers
<1>8. \A t : Shown(t)' = Shown(t)
  BY <1>1, <1>3 DEF Shown
<1> QED BY <1>4, <1>5, <1>6, <1>7, <1>8

LEMMA NoReadIs ==
  /\ DOMAIN NoRead = {"at", "left", "state", "context", "rows", "moved", "refused"}
  /\ NoRead.at = "idle" /\ NoRead.left = {} /\ NoRead.state = <<>> /\ NoRead.rows = <<>>
  /\ NoRead.moved = FALSE
BY DEF NoRead

LEMMA ReadInit ==
  ASSUME read = NoRead
  PROVE  ReadInv
<1>1. ReadTypes /\ RowsAreFiles
  BY NoReadIs, EmptyIs DEF ReadTypes, RowsAreFiles
<1>2. StillTrue
  BY NoReadIs DEF StillTrue
<1> QED BY <1>1, <1>2 DEF ReadInv

LEMMA ReadIsOver ==
  ASSUME read' = NoRead
  PROVE  ReadInv'
<1>1. ReadTypes' /\ RowsAreFiles'
  BY NoReadIs, EmptyIs DEF ReadTypes, RowsAreFiles
<1>2. StillTrue'
  BY NoReadIs DEF StillTrue
<1> QED BY <1>1, <1>2 DEF ReadInv

\* Nothing is lost of a read that stands on a machine that does.
LEMMA ReadStands ==
  ASSUME ReadInv, setup' = setup, read' = read, UNCHANGED machine \/ read.at = "idle"
  PROVE  ReadInv'
<1>1. ReadTypes'
  BY DEF ReadInv, ReadTypes
<1>2. Loaded' = Loaded /\ (KeysApart' <=> KeysApart)
      /\ \A t, context : GroupsOf(t, context)' = GroupsOf(t, context)
  BY SetupStays
<1>3. RowsAreFiles'
  BY <1>2 DEF ReadInv, RowsAreFiles
<1>4. CASE read.at = "idle"
  BY <1>1, <1>3, <1>4 DEF ReadInv, StillTrue
<1>5. CASE UNCHANGED machine
  <2>1. /\ Broken' = Broken /\ Detected' = Detected /\ Carrying' = Carrying /\ carries' = carries
        /\ \A t : Shown(t)' = Shown(t)
        /\ \A devices : Peers(devices)' = Peers(devices)
    BY <1>5, MachineSame DEF machine
  <2>2. RowsAreShown => RowsAreShown'
    BY <1>2, <2>1 DEF RowsAreShown
  <2>3. Peers(Carrying)' = Peers(Carrying) /\ Peers(Carrying \ read.left)' = Peers(Carrying \ read.left)
    BY <2>1 DEF Peers
  <2>4. StillTrue => StillTrue'
    BY <2>1, <2>2, <2>3 DEF StillTrue
  <2> QED BY <1>1, <1>3, <2>4 DEF ReadInv
<1> QED BY <1>4, <1>5

\* The machine may do anything to a read that is told of it.
LEMMA ReadIsMoved ==
  ASSUME ReadInv, setup' = setup, Moves
  PROVE  ReadInv'
<1>1. /\ read'.at = read.at /\ read'.left = read.left /\ read'.state = read.state
      /\ read'.context = read.context /\ read'.rows = read.rows
      /\ read'.moved = (read.at # "idle") /\ DOMAIN read' = DOMAIN read
      /\ read'.refused = read.refused
  BY DEF Moves, ReadInv, ReadTypes
<1>2. Loaded' = Loaded /\ \A t, context : GroupsOf(t, context)' = GroupsOf(t, context)
  BY SetupStays
<1>3. ReadTypes'
  BY <1>1 DEF ReadInv, ReadTypes
<1>4. RowsAreFiles'
  BY <1>1, <1>2 DEF ReadInv, RowsAreFiles
<1>5. ~read'.moved => StillTrue'
  BY <1>1 DEF StillTrue
<1> QED BY <1>3, <1>4, <1>5 DEF ReadInv

-----------------------------------------------------------------------------
(* The steps of a read, one by one; the machine stands during each. *)

LEMMA BeginReadKeeps ==
  ASSUME MachineInv, ReadInv, BeginRead
  PROVE  ReadInv'
<1>1. setup' = setup /\ UNCHANGED machine
  BY DEF BeginRead, Reads
<1>2. Loaded' = Loaded /\ Broken' = Broken
  BY <1>1, SetupStays, MachineSame
<1>3. /\ DOMAIN read' = DOMAIN NoRead
      /\ read'.at = IF LoadFails(setup.files) THEN "failed" ELSE "listing"
      /\ read'.left = {} /\ read'.state = <<>> /\ read'.rows = <<>> /\ read'.moved = FALSE
  BY NoReadIs DEF BeginRead
<1>4. ReadTypes'
  BY <1>1, <1>3, NoReadIs, EmptyIs DEF ReadTypes
<1>5. RowsAreFiles'
  BY <1>3, EmptyIs DEF RowsAreFiles
<1>6. LoadFails(setup.files) => Broken
  BY LoadFailsIs DEF Broken, MachineInv
<1>7. StillTrue'
  BY <1>2, <1>3, <1>6 DEF StillTrue
<1> QED BY <1>4, <1>5, <1>7 DEF ReadInv

LEMMA ListDevicesKeeps ==
  ASSUME MachineInv, ReadInv, ListDevices
  PROVE  ReadInv'
<1>1. setup' = setup /\ UNCHANGED machine
  BY DEF ListDevices, Reads
<1>2. carries' = carries /\ Carrying' = Carrying /\ \A S : Peers(S)' = Peers(S)
  BY <1>1, MachineSame DEF machine
<1>3. /\ DOMAIN read' = DOMAIN read /\ read.at = "listing" /\ read'.at = "reading"
      /\ read'.left = {d \in Devices : carries[d] # 0}
      /\ read'.state = <<>> /\ read'.rows = <<>> /\ read'.moved = read.moved
  BY DEF ListDevices, ReadInv, ReadTypes
<1>4. ReadTypes'
  BY <1>1, <1>3, EmptyIs DEF ReadTypes, ReadInv
<1>5. RowsAreFiles'
  BY <1>3, EmptyIs DEF RowsAreFiles
<1>6. StillTrue'
  <2>1. Range(read'.state) = Peers(Carrying \ read'.left)
    BY <1>3, EmptyIs DEF Peers, Carrying
  <2>2. Peers(Carrying \ read.left)' = Peers(Carrying \ read'.left)
    BY <1>2 DEF Peers
  <2> QED BY <1>2, <1>3, <2>1, <2>2 DEF StillTrue
<1> QED BY <1>4, <1>5, <1>6 DEF ReadInv

LEMMA ReadDeviceKeeps ==
  ASSUME MachineInv, ReadInv, ReadDevice
  PROVE  ReadInv'
<1> DEFINE d == Min(read.left)
<1>1. setup' = setup /\ UNCHANGED machine
  BY DEF ReadDevice, Reads
<1>2. carries' = carries /\ Carrying' = Carrying /\ Broken' = Broken /\ \A S : Peers(S)' = Peers(S)
  BY <1>1, MachineSame DEF machine
<1>3. d \in read.left /\ d \in Devices
  <2>1. read.left \in SUBSET Nat /\ read.left # {}
    BY DEF ReadDevice, ReadInv, ReadTypes, Devices
  <2> QED BY <2>1, MinIsLeast DEF ReadInv, ReadTypes
<1>4. /\ DOMAIN read' = DOMAIN read /\ read.at = "reading"
      /\ read'.rows = <<>> /\ read'.moved = read.moved
      /\ \/ carries[d] > 0 /\ read'.at = "reading" /\ read'.left = read.left \ {d}
            /\ read'.state = Append(read.state, PeerOf(d))
         \/ carries[d] = 0 /\ read'.at = "reading" /\ read'.left = read.left \ {d}
            /\ read'.state = read.state
         \/ read'.at = "failed" /\ read'.refused = (carries[d] > 0) /\ read'.left = read.left
            /\ read'.state = read.state
  BY DEF ReadDevice, ReadInv, ReadTypes
<1> HIDE DEF d
<1>5. IsSequence(read.state) /\ read.left \subseteq Devices
  BY DEF ReadInv, ReadTypes
<1>6. ReadTypes'
  <2>1. IsSequence(read'.state) /\ read'.left \subseteq Devices
    <3>1. IsSequence(Append(read.state, PeerOf(d)))
      BY <1>5, AppendIs
    <3> QED BY <1>4, <1>5, <3>1
  <2> QED BY <1>1, <1>4, <2>1, EmptyIs DEF ReadTypes, ReadInv
<1>7. RowsAreFiles'
  BY <1>4, EmptyIs DEF RowsAreFiles
<1>8. ASSUME ~read.moved PROVE StillTrue'
  <2>0. /\ \A e \in read.left : carries[e] # 0
        /\ \A e \in Devices : carries[e] = -1 => e \in read.left
        /\ Range(read.state) = Peers(Carrying \ read.left)
    BY <1>4, <1>8 DEF ReadInv, StillTrue
  <2>3. CASE read'.at = "failed" /\ read'.refused
    BY <2>3 DEF StillTrue
  <2>1. CASE carries[d] > 0 /\ read'.at # "failed"
    <3>0. carries[d] \in {-1, 0} \cup Tunnels /\ ~(carries[d] <= 0) /\ carries[d] # 0
      BY <1>3, <2>1, LoadedIs DEF MachineInv, Tunnels
    <3>5. /\ read'.at = "reading" /\ read'.left = read.left \ {d}
          /\ read'.state = Append(read.state, PeerOf(d))
      BY <1>4, <2>1, <3>0
    <3>1. Range(read'.state) = Peers(Carrying \ read.left) \cup {PeerOf(d)}
      BY <1>5, <2>0, <3>5, AppendIs
    <3>2. Carrying \ read'.left = (Carrying \ read.left) \cup {d}
      BY <1>3, <2>1, <3>5 DEF Carrying
    <3>3. Range(read'.state) = Peers(Carrying \ read'.left)
      BY <3>1, <3>2 DEF Peers
    <3>4. Peers(Carrying \ read.left)' = Peers(Carrying \ read'.left)
      BY <1>2 DEF Peers
    <3>6. \A e \in Devices : carries[e] = -1 => e \in read'.left
      BY <2>0, <2>1, <3>0, <3>5
    <3> QED BY <1>2, <2>0, <3>3, <3>4, <3>5, <3>6 DEF StillTrue
  <2>2. CASE ~(carries[d] > 0)
    <3>1. carries[d] \in {-1, 0} \cup Tunnels
      BY <1>3, LoadedIs DEF MachineInv
    <3>2. carries[d] = -1
      BY <1>3, <2>0, <2>2, <3>1 DEF Tunnels
    <3>3. Broken
      BY <1>3, <3>2 DEF Broken, Range, MachineInv
    <3> QED BY <1>2, <1>4, <2>2, <3>2, <3>3 DEF StillTrue
  <2> QED BY <1>4, <2>1, <2>2, <2>3
<1> QED BY <1>4, <1>6, <1>7, <1>8 DEF ReadInv

LEMMA DetectNetworkKeeps ==
  ASSUME MachineInv, ReadInv, DetectNetwork
  PROVE  ReadInv'
<1>1. setup' = setup /\ UNCHANGED machine
  BY DEF DetectNetwork, Reads
<1>2. /\ carries' = carries /\ Carrying' = Carrying /\ Broken' = Broken /\ Detected' = Detected
      /\ \A S : Peers(S)' = Peers(S)
  BY <1>1, MachineSame DEF machine
<1>3. /\ DOMAIN read' = DOMAIN read /\ read.at = "reading" /\ read.left = {}
      /\ read'.at = IF Detected = "failed" THEN "failed" ELSE "locating"
      /\ read'.left = {} /\ read'.state = read.state
      /\ read'.rows = <<>> /\ read'.moved = read.moved
  BY DEF DetectNetwork, ReadInv, ReadTypes
<1>4. ReadTypes'
  BY <1>1, <1>3, EmptyIs DEF ReadTypes, ReadInv
<1>5. RowsAreFiles'
  <2>1. 0 <= Len(Loaded')
    BY LoadedIs, SeqElements, <1>1, SetupStays DEF IsSequence
  <2> QED BY <1>3, <2>1, EmptyIs DEF RowsAreFiles
<1>6. ASSUME ~read.moved PROVE StillTrue'
  <2>0. /\ \A e \in Devices : carries[e] # -1
        /\ Range(read.state) = Peers(Carrying)
    <3>1. Carrying \ read.left = Carrying
      BY <1>3
    <3> QED BY <1>3, <1>6, <3>1 DEF ReadInv, StillTrue
  <2>1. -1 \notin Range(carries)
    BY <2>0 DEF Range, MachineInv
  <2>2. RowsAreShown'
    BY <1>3, EmptyIs DEF RowsAreShown
  <2>3. Peers(Carrying)' = Peers(Carrying)
    BY <1>2 DEF Peers
  <2>4. Detected = "failed" => Broken
    BY DEF Broken
  <2> QED BY <1>2, <1>3, <2>0, <2>1, <2>2, <2>3, <2>4 DEF StillTrue
<1> QED BY <1>3, <1>4, <1>5, <1>6 DEF ReadInv

LEMMA LocateKeeps ==
  ASSUME MachineInv, ReadInv, Locate
  PROVE  ReadInv'
<1> DEFINE t == Loaded[Len(read.rows) + 1]
           peer == Resolve(read.state, t)
           n == Len(read.rows)
<1>1. setup' = setup /\ UNCHANGED machine
  BY DEF Locate, Reads
<1>2. /\ carries' = carries /\ Carrying' = Carrying /\ Detected' = Detected
      /\ Loaded' = Loaded /\ (KeysApart' <=> KeysApart)
      /\ \A S : Peers(S)' = Peers(S)
      /\ \A u : Shown(u)' = Shown(u)
      /\ \A u, context : GroupsOf(u, context)' = GroupsOf(u, context)
  BY <1>1, MachineSame, SetupStays DEF machine
<1>3. PICK g \in GroupsOf(t, read.context) :
        read' = [read EXCEPT !.rows = Append(@,
                   [tunnel |-> t, group |-> g, health |-> Health(peer), peer |-> peer])]
  BY DEF Locate
<1> DEFINE row == [tunnel |-> t, group |-> g, health |-> Health(peer), peer |-> peer]
<1>4. /\ DOMAIN read' = DOMAIN read /\ read.at = "locating" /\ read'.at = "locating"
      /\ read'.left = read.left /\ read'.state = read.state /\ read'.context = read.context
      /\ read'.rows = Append(read.rows, row) /\ read'.moved = read.moved
  BY <1>3 DEF Locate, ReadInv, ReadTypes
<1>5. row.tunnel = t /\ row.group = g /\ row.health = Health(peer) /\ row.peer = peer
  OBVIOUS
<1>6. n < Len(Loaded) /\ n \in Nat /\ Len(Loaded) \in Nat /\ t \in Range(Loaded)
  <2>1. n < Len(Loaded) /\ IsSequence(read.rows) /\ IsSequence(Loaded)
    BY LoadedIs DEF Locate, ReadInv, ReadTypes, IsSequence
  <2>2. n \in Nat /\ Len(Loaded) \in Nat /\ Range(Loaded) = {Loaded[i] : i \in 1..Len(Loaded)}
    BY <2>1, SeqElements
  <2> QED BY <2>1, <2>2
<1> HIDE DEF row, t, peer
<1>7. /\ IsSequence(read'.rows) /\ Len(read'.rows) = n + 1
      /\ \A i \in 1..n : read'.rows[i] = read.rows[i]
      /\ read'.rows[n + 1] = row
  BY <1>4, AppendIs DEF ReadInv, ReadTypes
<1> HIDE DEF n
<1>8. ReadTypes'
  BY <1>1, <1>4, <1>7 DEF ReadTypes, ReadInv
<1>9. \A i \in 1..Len(read'.rows) : i \in 1..n \/ i = n + 1
  BY <1>6, <1>7
<1>10. RowsAreFiles'
  <2>1. /\ \A i \in 1..n : read.rows[i].group \in GroupsOf(read.rows[i].tunnel, read.context)
        /\ \A i \in 1..n : read.rows[i].tunnel = Loaded[i]
    BY <1>4 DEF ReadInv, RowsAreFiles, n
  <2>2. \A i \in 1..Len(read'.rows) :
           read'.rows[i].group \in GroupsOf(read'.rows[i].tunnel, read'.context)
    BY <1>3, <1>4, <1>5, <1>7, <1>9, <2>1
  <2>3. \A i \in 1..Len(read'.rows) : read'.rows[i].tunnel = Loaded[i]
    BY <1>5, <1>7, <1>9, <2>1 DEF t, n
  <2> QED BY <1>2, <1>4, <1>6, <1>7, <2>2, <2>3 DEF RowsAreFiles
<1>11. ASSUME ~read.moved PROVE StillTrue'
  <2>1. /\ -1 \notin Range(carries) /\ Detected # "failed"
        /\ Range(read.state) = Peers(Carrying) /\ RowsAreShown
    BY <1>4, <1>11 DEF ReadInv, StillTrue
  <2>2. setup.runDir \/ KeysApart => peer = Shown(t)
    <3>1. IsSequence(read.state)
      BY DEF ReadInv, ReadTypes
    <3> QED BY <1>6, <2>1, <3>1, ResolveIsShown DEF peer
  <2>3. RowsAreShown'
    <3>1. ASSUME NEW i \in 1..Len(read'.rows)
          PROVE  /\ read'.rows[i].health = Health(read'.rows[i].peer)
                 /\ setup.runDir \/ KeysApart => read'.rows[i].peer = Shown(read'.rows[i].tunnel)
      <4>1. CASE i \in 1..n
        BY <1>7, <2>1, <4>1 DEF RowsAreShown, n
      <4>2. CASE i = n + 1
        BY <1>5, <1>7, <2>2, <4>2
      <4> QED BY <1>9, <4>1, <4>2
    <3> QED BY <1>1, <1>2, <3>1 DEF RowsAreShown
  <2>4. Peers(Carrying)' = Peers(Carrying)
    BY <1>2 DEF Peers
  <2> QED BY <1>2, <1>4, <2>1, <2>3, <2>4 DEF StillTrue
<1> QED BY <1>4, <1>8, <1>10, <1>11 DEF ReadInv

LEMMA SortRowsKeeps ==
  ASSUME MachineInv, ReadInv, SortRows
  PROVE  ReadInv'
<1> DEFINE n == Len(read.rows)
<1>1. setup' = setup /\ UNCHANGED machine
  BY DEF SortRows, Reads
<1>2. /\ carries' = carries /\ Detected' = Detected
      /\ Loaded' = Loaded /\ (KeysApart' <=> KeysApart)
      /\ \A u : Shown(u)' = Shown(u)
      /\ \A u, context : GroupsOf(u, context)' = GroupsOf(u, context)
  BY <1>1, MachineSame, SetupStays DEF machine
<1>3. IsSequence(read.rows) /\ n \in Nat /\ DOMAIN read.rows = 1..n /\ n = Len(Loaded)
  BY SeqElements DEF SortRows, ReadInv, ReadTypes
<1>4. PICK order \in Bijection(1..n, 1..n) :
        read' = [read EXCEPT !.at = "done", !.rows = [i \in 1..n |-> read.rows[order[i]]]]
  BY <1>3 DEF SortRows
<1>5. /\ \A i \in 1..n : order[i] \in 1..n
      /\ \A j \in 1..n : \E i \in 1..n : order[i] = j
  BY <1>4 DEF Bijection, Surjection, Injection
<1> DEFINE sorted == [i \in 1..n |-> read.rows[order[i]]]
<1>6. /\ DOMAIN read' = DOMAIN read /\ read.at = "locating" /\ read'.at = "done"
      /\ read'.left = read.left /\ read'.state = read.state /\ read'.context = read.context
      /\ read'.rows = sorted /\ read'.moved = read.moved
  BY <1>4 DEF SortRows, ReadInv, ReadTypes
<1>7. IsSequence(sorted) /\ Len(sorted) = n /\ \A i \in 1..n : sorted[i] = read.rows[order[i]]
  BY <1>3, MappedIs
<1> HIDE DEF sorted, n
<1>8. ReadTypes'
  BY <1>1, <1>6, <1>7 DEF ReadTypes, ReadInv
<1>9. RowsAreFiles'
  <2>1. /\ \A i \in 1..n : read.rows[i].group \in GroupsOf(read.rows[i].tunnel, read.context)
        /\ \A i \in 1..n : read.rows[i].tunnel = Loaded[i]
    BY <1>6 DEF ReadInv, RowsAreFiles, n
  <2>2. \A i \in 1..n : read'.rows[i].group \in GroupsOf(read'.rows[i].tunnel, read'.context)
    BY <1>3, <1>5, <1>6, <1>7, <2>1
  <2>3. Range(Loaded) = {Loaded[i] : i \in 1..n}
    BY <1>3, LoadedIs, SeqElements DEF IsSequence
  <2>4. {read'.rows[i].tunnel : i \in 1..n} = Range(Loaded)
    <3>1. \A i \in 1..n : read'.rows[i].tunnel = Loaded[order[i]]
      BY <1>3, <1>5, <1>6, <1>7, <2>1
    <3>2. \A i \in 1..n : read'.rows[i].tunnel \in Range(Loaded)
      BY <1>5, <2>3, <3>1
    <3>3. ASSUME NEW e \in Range(Loaded) PROVE \E i \in 1..n : read'.rows[i].tunnel = e
      <4>1. PICK j \in 1..n : e = Loaded[j]
        BY <2>3
      <4>2. PICK i \in 1..n : order[i] = j
        BY <1>5
      <4> QED BY <3>1, <4>1, <4>2
    <3> QED BY <3>2, <3>3
  <2> QED BY <1>2, <1>3, <1>6, <1>7, <2>2, <2>4 DEF RowsAreFiles
<1>10. ASSUME ~read.moved PROVE StillTrue'
  <2>1. -1 \notin Range(carries) /\ Detected # "failed" /\ RowsAreShown
    BY <1>6, <1>10 DEF ReadInv, StillTrue
  <2>2. RowsAreShown'
    <3>1. \A j \in 1..n :
             /\ read.rows[j].health = Health(read.rows[j].peer)
             /\ setup.runDir \/ KeysApart => read.rows[j].peer = Shown(read.rows[j].tunnel)
      BY <2>1 DEF RowsAreShown, n
    <3>2. \A i \in 1..n : read'.rows[i] = read.rows[order[i]] /\ order[i] \in 1..n
      BY <1>3, <1>5, <1>6, <1>7
    <3>3. \A i \in 1..n :
             /\ read'.rows[i].health = Health(read'.rows[i].peer)
             /\ setup.runDir \/ KeysApart => read'.rows[i].peer = Shown(read'.rows[i].tunnel)
      BY <3>1, <3>2
    <3>4. Len(read'.rows) = n
      BY <1>6, <1>7
    <3> QED BY <1>1, <1>2, <3>3, <3>4 DEF RowsAreShown
  <2> QED BY <1>2, <1>6, <2>1, <2>2 DEF StillTrue
<1> QED BY <1>6, <1>8, <1>9, <1>10 DEF ReadInv

-----------------------------------------------------------------------------
(* Who steps: the machine, the interface or a command. *)

\* A command's own steps are few to the rest of the system.
LEMMA CommandMoves ==
  ASSUME CommandTypes, [CommandNext]_<<vars, command>>
  PROVE  \/ Next
         \/ BeginRead
         \/ Stands /\ Quiet /\ (read' = read \/ read' = NoRead)
         \/ /\ Stands /\ read' = read /\ read.at = "idle"
            /\ \E t \in Range(Loaded) : BringUp(t) \/ BringDown(t)
<1>1. CASE UNCHANGED <<vars, command>>
  BY <1>1 DEF vars, Stands, Quiet
<1>2. CASE Meanwhile \/ Call
  BY <1>2 DEF Meanwhile, Call
<1>3. CASE TakeView
  BY <1>3 DEF TakeView
<1>4. CASE Skip \/ RefuseToRun \/ RunWgQuick \/ Interrupt \/ WriteResults \/ Exit
  BY <1>4 DEF Skip, RefuseToRun, RunWgQuick, Interrupt, WriteResults, Exit
<1>5. CASE WgQuickEnds \/ WgQuickFails
  <2>1. command.at = "running" /\ read' = read /\ Stands /\ (Quiet \/ Changes(Step))
    BY <1>5 DEF WgQuickEnds, WgQuickFails
  <2>2. command.steps # <<>> /\ IsSequence(command.steps) /\ Range(command.steps) \subseteq Range(Loaded)
    BY <2>1 DEF CommandTypes
  <2>3. Step \in Range(Loaded)
    BY <2>2, TailIs DEF Step
  <2>4. read.at = "idle"
    BY <2>1 DEF CommandTypes
  <2> QED BY <2>1, <2>3, <2>4 DEF Changes
<1> QED BY <1>1, <1>2, <1>3, <1>4, <1>5 DEF CommandNext

LEMMA MachineKeeps ==
  ASSUME MachineInv, CommandTypes, [CommandNext]_<<vars, command>>
  PROVE  MachineInv' /\ setup' = setup
<1>1. CASE Next
  BY <1>1, NextOfMachine, NextKeepsMachine
<1>2. CASE BeginRead
  BY <1>2, StandingKeeps DEF BeginRead, Reads, MachineStands
<1>3. CASE Stands /\ Quiet
  BY <1>3, StandingKeeps DEF Stands, Quiet, MachineStands
<1>4. ASSUME Stands, NEW t \in Range(Loaded), BringUp(t) \/ BringDown(t)
      PROVE  MachineInv' /\ setup' = setup
  BY <1>4, BringUpKeeps, BringDownKeeps, LoadedIs DEF Stands
<1> QED BY <1>1, <1>2, <1>3, <1>4, CommandMoves

LEMMA NextOfRead ==
  ASSUME Next
  PROVE  /\ setup' = setup
         /\ \/ UNCHANGED <<machine, read>>
            \/ Moves
            \/ StartRead \/ ListDevices \/ ReadDevice \/ DetectNetwork \/ Locate \/ SortRows
            \/ read' = NoRead
<1>1. CASE \E t \in Tunnels : WgUp(t) \/ WgDown(t)
  BY <1>1 DEF WgUp, WgDown, Elsewhere
<1>2. CASE \E d \in Devices : Die(d) \/ Handshake(d) \/ Carry(d)
  BY <1>2 DEF Die, Handshake, Carry, Elsewhere
<1>3. CASE ChangeNetwork \/ Second
  BY <1>3 DEF ChangeNetwork, Second, Elsewhere
<1>4. CASE \/ StartRead \/ ListDevices \/ ReadDevice \/ DetectNetwork \/ Locate \/ SortRows
  BY <1>4 DEF StartRead, BeginRead, ListDevices, ReadDevice, DetectNetwork, Locate, SortRows, Reads
<1>5. CASE OnView \/ AskPings \/ OnPing
  BY <1>5 DEF OnView, AskPings, OnPing
<1>6. CASE KeyUp \/ KeyDown \/ KeyGraph
  BY <1>6 DEF KeyUp, KeyDown, KeyGraph, Idles
<1>7. CASE \E c \in 1..MaxChains : Sample(c) \/ OnSample(c) \/ SampleTick(c)
  BY <1>7 DEF Sample, OnSample, SampleTick, Idles
<1> QED BY <1>1, <1>2, <1>3, <1>4, <1>5, <1>6, <1>7 DEF Next

LEMMA ReadKeeps ==
  ASSUME MachineInv, ReadInv, CommandTypes, [CommandNext]_<<vars, command>>
  PROVE  ReadInv'
<1>1. CASE Next
  BY <1>1, NextOfRead, ReadStands, ReadIsMoved, BeginReadKeeps, ListDevicesKeeps, ReadDeviceKeeps,
     DetectNetworkKeeps, LocateKeeps, SortRowsKeeps, ReadIsOver DEF StartRead
<1>2. CASE BeginRead
  BY <1>2, BeginReadKeeps
<1>3. CASE Stands /\ Quiet /\ (read' = read \/ read' = NoRead)
  BY <1>3, ReadStands, ReadIsOver DEF Stands, Quiet
<1>4. CASE Stands /\ read' = read /\ read.at = "idle"
  BY <1>4, ReadStands DEF Stands
<1> QED BY <1>1, <1>2, <1>3, <1>4, CommandMoves

-----------------------------------------------------------------------------
(* The table. *)

LEMMA MaxOfTwo ==
  ASSUME NEW a \in Int, NEW b \in Int
  PROVE  Max({a, b}) = IF a >= b THEN a ELSE b
BY DEF Max

LEMMA MinOfTwo ==
  ASSUME NEW a \in Int, NEW b \in Int
  PROVE  Min({a, b}) = IF a <= b THEN a ELSE b
BY DEF Min

LEMMA NextOfView ==
  ASSUME Next
  PROVE  /\ setup' = setup
         /\ \/ UNCHANGED <<view, cursor, probing>>
            \/ OnView \/ AskPings \/ OnPing \/ KeyUp \/ KeyDown
<1>1. CASE \E t \in Tunnels : WgUp(t) \/ WgDown(t)
  BY <1>1 DEF WgUp, WgDown, Elsewhere
<1>2. CASE \E d \in Devices : Die(d) \/ Handshake(d) \/ Carry(d)
  BY <1>2 DEF Die, Handshake, Carry, Elsewhere
<1>3. CASE ChangeNetwork \/ Second
  BY <1>3 DEF ChangeNetwork, Second, Elsewhere
<1>4. CASE \/ StartRead \/ ListDevices \/ ReadDevice \/ DetectNetwork \/ Locate \/ SortRows
  BY <1>4 DEF StartRead, BeginRead, ListDevices, ReadDevice, DetectNetwork, Locate, SortRows, Reads
<1>5. CASE OnView \/ AskPings \/ OnPing
  BY <1>5 DEF OnView, AskPings, OnPing
<1>6. CASE KeyUp \/ KeyDown \/ KeyGraph
  BY <1>6 DEF KeyUp, KeyDown, KeyGraph, Idles
<1>7. CASE \E c \in 1..MaxChains : Sample(c) \/ OnSample(c) \/ SampleTick(c)
  BY <1>7 DEF Sample, OnSample, SampleTick, Idles
<1> QED BY <1>1, <1>2, <1>3, <1>4, <1>5, <1>6, <1>7 DEF Next

\* What Made and Listed say of rows that are a sequence.
LEMMA RowsOf ==
  ASSUME NEW v, IsSequence(v.rows)
  PROVE  /\ Len(v.rows) \in Nat /\ DOMAIN v.rows = 1..Len(v.rows)
         /\ Listed(v) = {v.rows[i].tunnel : i \in 1..Len(v.rows)}
         /\ Made(v) <=> \A i \in 1..Len(v.rows) :
                           /\ v.rows[i].tunnel \in Range(Loaded)
                           /\ v.rows[i].group \in GroupsOf(v.rows[i].tunnel, v.context)
         /\ Made(v) => Listed(v) \subseteq Range(Loaded)
         /\ Live(v) \subseteq Listed(v)
BY SeqElements DEF Listed, Made, Live

LEMMA ViewInit == Init => ViewInv
<1> SUFFICES ASSUME Init PROVE ViewInv
  OBVIOUS
<1>1. IsSequence(view.rows) /\ Made(view)
  BY SetupIs DEF Init
<1>2. Len(view.rows) \in Nat
  BY <1>1, RowsOf
<1>3. cursor \in -1..Max({0, Len(view.rows) - 1})
  <2>1. PICK n : n = Len(view.rows) - 1 /\ n \in Int
    BY <1>2
  <2>2. Max({0, n}) \in Nat
    BY <2>1, MaxOfTwo
  <2>3. cursor = 0
    BY DEF Init
  <2> QED BY <2>1, <2>2, <2>3
<1>4. round.asked = {} /\ pings.asked = {} /\ pings.made = {}
  BY DEF Init, NoRound
<1> QED BY <1>1, <1>3, <1>4 DEF ViewInv

LEMMA ViewStands ==
  ASSUME ViewInv, setup' = setup, UNCHANGED <<view, cursor, probing>>
  PROVE  ViewInv'
<1>1. Loaded' = Loaded /\ (\A t : Conf(t)' = Conf(t)) /\ \A t, c : GroupsOf(t, c)' = GroupsOf(t, c)
  BY SetupStays
<1>2. Made(view)' = Made(view)
  BY <1>1 DEF Made
<1>3. Listed(view)' = Listed(view)
  BY DEF Listed
<1> QED BY <1>1, <1>2, <1>3 DEF ViewInv, probing

LEMMA OnViewKeeps ==
  ASSUME MachineInv, ReadInv, ViewInv, OnView
  PROVE  ViewInv'
<1>1. setup' = setup /\ round' = round /\ pings' = pings
  BY DEF OnView, probing
<1>2. Loaded' = Loaded /\ (\A t : Conf(t)' = Conf(t)) /\ \A t, c : GroupsOf(t, c)' = GroupsOf(t, c)
  BY <1>1, SetupStays
<1>3. IsSequence(view.rows) /\ Made(view) /\ round.asked \subseteq Listed(view)
  BY DEF ViewInv
<1>4. Len(view.rows) \in Nat
  BY <1>3, RowsOf
<1>5. CASE read.at = "failed"
  <2>1. view' = view /\ cursor' = cursor
    BY <1>5 DEF OnView
  <2> QED BY <1>1, <2>1, ViewStands DEF probing
<1>6. CASE read.at = "done"
  <2>1. /\ view'.rows = read.rows /\ view'.context = read.context
        /\ cursor' = IF cursor >= Len(read.rows) THEN Max({0, Len(read.rows) - 1}) ELSE cursor
    BY <1>6 DEF OnView
  <2>2. /\ IsSequence(read.rows) /\ Len(read.rows) \in Nat
        /\ \A i \in 1..Len(read.rows) : read.rows[i].group \in GroupsOf(read.rows[i].tunnel, read.context)
        /\ {read.rows[i].tunnel : i \in 1..Len(read.rows)} = Range(Loaded)
    BY <1>6, SeqElements DEF ReadInv, ReadTypes, RowsAreFiles
  <2>3. Listed(view)' = Range(Loaded)
    <3>1. DOMAIN read.rows = 1..Len(read.rows)
      BY <2>2, SeqElements
    <3> QED BY <2>1, <2>2, <3>1 DEF Listed
  <2>4. Made(view)'
    <3>1. DOMAIN read.rows = 1..Len(read.rows)
      BY <2>2, SeqElements
    <3>2. \A i \in 1..Len(read.rows) : read.rows[i].tunnel \in Range(Loaded)
      BY <2>2
    <3> QED BY <1>2, <2>1, <2>2, <3>1, <3>2 DEF Made
  <2>5. round'.asked \subseteq Listed(view)'
    BY <1>1, <1>3, <2>3, RowsOf
  <2>6. cursor' \in -1..Max({0, Len(view'.rows) - 1})
    <3>1. cursor \in -1..Max({0, Len(view.rows) - 1})
      BY DEF ViewInv
    <3>2. cursor \in Int /\ cursor >= -1
      BY <1>4, <3>1, MaxOfTwo
    <3> QED BY <2>1, <2>2, <3>2, MaxOfTwo
  <2> QED BY <1>1, <1>2, <2>1, <2>2, <2>4, <2>5, <2>6 DEF ViewInv
<1> QED BY <1>5, <1>6 DEF OnView

LEMMA AskPingsKeeps ==
  ASSUME ViewInv, AskPings
  PROVE  ViewInv'
<1>1. setup' = setup /\ view' = view /\ cursor' = cursor /\ pings' = pings
  BY DEF AskPings
<1>2. Loaded' = Loaded /\ (\A t : Conf(t)' = Conf(t)) /\ \A t, c : GroupsOf(t, c)' = GroupsOf(t, c)
  BY <1>1, SetupStays
<1>3. Made(view)' = Made(view) /\ Listed(view)' = Listed(view)
  BY <1>1, <1>2 DEF Made, Listed
<1>4. PICK who \in {Live(view)} \cup {{t} : t \in Listed(view)} :
         round' = [asked |-> {t \in who : Conf(t).check \in CheckIPs(view)}, hosts |-> CheckIPs(view)]
  BY DEF AskPings
<1>5. round'.asked \subseteq Listed(view) /\ \A t \in round'.asked : Conf(t).check \in round'.hosts
  BY <1>4, RowsOf DEF ViewInv
<1> QED BY <1>1, <1>2, <1>3, <1>5 DEF ViewInv

LEMMA OnPingKeeps ==
  ASSUME ViewInv, OnPing
  PROVE  ViewInv'
<1>1. setup' = setup /\ view' = view /\ cursor' = cursor /\ round'.asked = {}
  BY DEF OnPing, NoRound
<1>2. Loaded' = Loaded /\ (\A t : Conf(t)' = Conf(t)) /\ \A t, c : GroupsOf(t, c)' = GroupsOf(t, c)
  BY <1>1, SetupStays
<1>3. Made(view)' = Made(view) /\ Listed(view)' = Listed(view)
  BY <1>1, <1>2 DEF Made, Listed
<1>4. /\ pings'.asked = round.asked /\ pings'.hosts = round.hosts
      /\ pings'.made = {t \in Listed(view) : Conf(t).check \in {Conf(u).check : u \in round.asked}}
  BY DEF OnPing, PingsOf
<1>5. /\ round.asked \subseteq Listed(view) /\ Listed(view) \subseteq Range(Loaded)
      /\ \A t \in round.asked : Conf(t).check \in round.hosts
  BY RowsOf DEF ViewInv
<1>6. pings'.asked \subseteq pings'.made /\ pings'.made \subseteq Range(Loaded)
  BY <1>4, <1>5
<1>7. \A t \in pings'.made : /\ Conf(t).check \in pings'.hosts
                            /\ \E u \in pings'.asked : Conf(t).check = Conf(u).check
  BY <1>4, <1>5
<1> QED BY <1>1, <1>2, <1>3, <1>6, <1>7 DEF ViewInv

LEMMA CursorKeeps ==
  ASSUME ViewInv, KeyUp \/ KeyDown
  PROVE  ViewInv'
<1>1. setup' = setup /\ view' = view /\ UNCHANGED probing
  BY DEF KeyUp, KeyDown, Idles
<1>2. Loaded' = Loaded /\ (\A t : Conf(t)' = Conf(t)) /\ \A t, c : GroupsOf(t, c)' = GroupsOf(t, c)
  BY <1>1, SetupStays
<1>3. Made(view)' = Made(view) /\ Listed(view)' = Listed(view)
  BY <1>1, <1>2 DEF Made, Listed
<1>4. Len(view.rows) \in Nat /\ cursor \in -1..Max({0, Len(view.rows) - 1})
  BY RowsOf DEF ViewInv
<1>5. cursor \in Int /\ -1 <= cursor /\ cursor <= Max({0, Len(view.rows) - 1})
  BY <1>4, MaxOfTwo
<1>6. cursor' = Max({0, cursor - 1}) \/ cursor' = Min({Len(view.rows) - 1, cursor + 1})
  BY DEF KeyUp, KeyDown
<1>7. cursor' \in -1..Max({0, Len(view.rows) - 1})
  BY <1>4, <1>5, <1>6, MaxOfTwo, MinOfTwo
<1> QED BY <1>1, <1>2, <1>3, <1>7 DEF ViewInv, probing

LEMMA ViewKeeps ==
  ASSUME MachineInv, ReadInv, ViewInv, CommandTypes, [CommandNext]_<<vars, command>>
  PROVE  ViewInv'
<1>1. CASE Next
  BY <1>1, NextOfView, ViewStands, OnViewKeeps, AskPingsKeeps, OnPingKeeps, CursorKeeps
<1>2. CASE BeginRead
  BY <1>2, ViewStands DEF BeginRead, Reads
<1>3. CASE Stands
  BY <1>3, ViewStands DEF Stands
<1> QED BY <1>1, <1>2, <1>3, CommandMoves

-----------------------------------------------------------------------------
(* The graph. *)

LEMMA NextOfGraph ==
  ASSUME Next
  PROVE  \/ UNCHANGED graph
         \/ UNCHANGED <<setup, machine, read, view, traffic>>
            /\ (KeyGraph \/ \E c \in 1..MaxChains : Sample(c) \/ OnSample(c) \/ SampleTick(c))
<1>1. CASE \E t \in Tunnels : WgUp(t) \/ WgDown(t)
  BY <1>1 DEF WgUp, WgDown, Elsewhere
<1>2. CASE \E d \in Devices : Die(d) \/ Handshake(d) \/ Carry(d)
  BY <1>2 DEF Die, Handshake, Carry, Elsewhere
<1>3. CASE ChangeNetwork \/ Second
  BY <1>3 DEF ChangeNetwork, Second, Elsewhere
<1>4. CASE \/ StartRead \/ ListDevices \/ ReadDevice \/ DetectNetwork \/ Locate \/ SortRows
  BY <1>4 DEF StartRead, BeginRead, ListDevices, ReadDevice, DetectNetwork, Locate, SortRows, Reads
<1>5. CASE OnView \/ AskPings \/ OnPing
  BY <1>5 DEF OnView, AskPings, OnPing
<1>6. CASE KeyUp \/ KeyDown \/ KeyGraph
  BY <1>6 DEF KeyUp, KeyDown, KeyGraph, Idles
<1>7. CASE \E c \in 1..MaxChains : Sample(c) \/ OnSample(c) \/ SampleTick(c)
  BY <1>7 DEF Sample, OnSample, SampleTick, Idles
<1> QED BY <1>1, <1>2, <1>3, <1>4, <1>5, <1>6, <1>7 DEF Next

LEMMA TuplesDiffer == \A x : <<x>> # <<>> /\ <<x>>[1] = x /\ DOMAIN <<x>> = {1}
<1> SUFFICES ASSUME NEW x PROVE <<x>> # <<>> /\ <<x>>[1] = x /\ DOMAIN <<x>> = {1}
  OBVIOUS
<1>1. Len(<<x>>) = 1 /\ Len(<<>>) = 0
  OBVIOUS
<1>2. DOMAIN <<x>> = 1..1 /\ <<x>>[1] = x
  OBVIOUS
<1> QED BY <1>1, <1>2

LEMMA NoChainIs ==
  /\ DOMAIN NoChain = {"at", "tunnel", "reading", "due"}
  /\ NoChain.at = "off" /\ NoChain.tunnel = 0 /\ NoChain.reading = <<>>
BY DEF NoChain

LEMMA AskedIs ==
  ASSUME ViewInv
  PROVE  /\ DOMAIN Asked = {"at", "tunnel", "reading", "due"}
         /\ Asked.at = "asked" /\ Asked.tunnel \in {0} \cup Tunnels /\ Asked.reading = <<>>
<1>1. Current \in {0} \cup Tunnels
  <2>1. Len(view.rows) \in Nat /\ \A i \in 1..Len(view.rows) : view.rows[i].tunnel \in Tunnels
    BY RowsOf, LoadedIs DEF ViewInv
  <2>2. cursor \in 0..(Len(view.rows) - 1) => cursor + 1 \in 1..Len(view.rows)
    BY <2>1
  <2> QED BY <2>1, <2>2 DEF Current
<1> QED BY <1>1, NoChainIs DEF Asked

LEMMA GraphInit == Init => GraphInv
<1> SUFFICES ASSUME Init PROVE GraphInv
  OBVIOUS
<1>1. ChainInv
  BY NoChainIs DEF Init, ChainInv, AtMostOne
<1>2. \A t \in Tunnels : \A k \in Holders : Held(k, t) = <<>>
  BY NoChainIs DEF Init, Holders, Held
<1>3. GraphIsFed /\ RateIsEarned
  BY EmptyIs DEF Init, GraphIsFed, RateIsEarned
<1> QED BY <1>1, <1>2, <1>3 DEF GraphInv, RateInv

\* What is so of a reading stays so: the clock and what a tunnel carried only
\* grow, and an interface starts from zero.
LEMMA PastKeeps ==
  ASSUME MachineInv, CommandTypes, [CommandNext]_<<vars, command>>,
         NEW t \in Tunnels, NEW r, Reading(r), Past(t, r)
  PROVE  Past(t, r)'
<1> SUFFICES ASSUME r.own
             PROVE  /\ r.at <= clock' /\ r.carried[t] <= carried'[t]
                    /\ \A d \in Devices : carries'[d] = t => rx'[d] - r.rx <= carried'[t] - r.carried[t]
  BY DEF Past
<1>1. /\ r.at \in Nat /\ r.rx \in Nat /\ r.carried[t] \in Nat
      /\ r.at <= clock /\ r.carried[t] <= carried[t]
      /\ \A d \in Devices : carries[d] = t => rx[d] - r.rx <= carried[t] - r.carried[t]
  BY DEF Past, Reading
<1>2. carried[t] \in Nat /\ clock \in Nat /\ t > 0 /\ \A d \in Devices : rx[d] \in Nat /\ carries[d] \in Int
  <2>1. carried[t] \in 0..MaxBytes /\ clock \in 0..MaxTime
    BY DEF MachineInv
  <2>2. Range(Loaded) \subseteq Tunnels
    BY LoadedIs
  <2> QED BY <2>1, <2>2, Numbers DEF MachineInv, Tunnels
<1>3. CASE MachineStands
  BY <1>1, <1>3 DEF MachineStands, machine, traffic
<1>4. ASSUME NEW u \in Tunnels, BringUp(u)
      PROVE  /\ clock' = clock /\ carried' = carried
             /\ \A d \in Devices : carries'[d] = t => rx'[d] - r.rx <= carried[t] - r.carried[t]
  <2>1. PICK e \in Devices :
          carries' = [carries EXCEPT ![e] = u] /\ rx' = [rx EXCEPT ![e] = 0]
    BY <1>4 DEF BringUp
  <2>2. ASSUME NEW d \in Devices, carries'[d] = t PROVE rx'[d] - r.rx <= carried[t] - r.carried[t]
    <3>1. CASE d = e
      BY <1>1, <1>2, <2>1, <3>1 DEF MachineInv
    <3>2. CASE d # e
      BY <1>1, <2>1, <2>2, <3>2 DEF MachineInv
    <3> QED BY <3>1, <3>2
  <2> QED BY <1>4, <2>2 DEF BringUp
<1>5. ASSUME NEW u \in Tunnels, BringDown(u)
      PROVE  /\ clock' = clock /\ carried' = carried /\ rx' = rx
             /\ \A d \in Devices : carries'[d] = t => carries[d] = t
  BY <1>2, <1>5 DEF BringDown, traffic, MachineInv
<1>6. ASSUME NEW d \in Devices, Die(d)
      PROVE  /\ clock' = clock /\ carried' = carried /\ rx' = rx
             /\ \A e \in Devices : carries'[e] = t => carries[e] = t
  BY <1>2, <1>6 DEF Die, traffic, MachineInv
<1>7. ASSUME NEW d \in Devices, Handshake(d) PROVE UNCHANGED <<clock, carried, rx, carries>>
  BY <1>7 DEF Handshake, traffic
<1>8. ASSUME NEW d \in Devices, Carry(d)
      PROVE  /\ r.at <= clock' /\ r.carried[t] <= carried'[t]
             /\ \A e \in Devices : carries'[e] = t => rx'[e] - r.rx <= carried'[t] - r.carried[t]
  <2>1. /\ clock' = clock /\ carries' = carries /\ carries[d] \in Tunnels
        /\ rx' = [rx EXCEPT ![d] = @ + 1] /\ carried' = [carried EXCEPT ![carries[d]] = @ + 1]
    <3>1. carries[d] > 0 /\ UNCHANGED <<machine, clock>>
      BY <1>8 DEF Carry
    <3>2. carries[d] \in Tunnels
      BY <3>1, CarriedIsLoaded
    <3> QED BY <1>8, <3>1, <3>2 DEF Carry, machine
  <2>2. CASE carries[d] = t
    <3>1. carried'[t] = carried[t] + 1 /\ \A e \in Devices : rx'[e] <= rx[e] + 1
      BY <1>2, <2>1, <2>2 DEF MachineInv
    <3>2. \A e \in Devices : rx'[e] \in Nat
      BY <1>2, <2>1 DEF MachineInv
    <3> QED BY <1>1, <1>2, <2>1, <3>1, <3>2
  <2>3. CASE carries[d] # t
    <3>1. carried'[t] = carried[t] /\ \A e \in Devices : carries[e] = t => rx'[e] = rx[e]
      BY <1>2, <2>1, <2>3 DEF MachineInv
    <3> QED BY <1>1, <2>1, <3>1
  <2> QED BY <2>2, <2>3
<1>9. CASE ChangeNetwork
  BY <1>1, <1>9 DEF ChangeNetwork, traffic
<1>10. CASE Second
  BY <1>1, <1>2, <1>10 DEF Second, machine
<1>11. CASE Next
  BY <1>1, <1>3, <1>4, <1>5, <1>6, <1>7, <1>8, <1>9, <1>10, <1>11, NextOfMachine DEF WgUp, WgDown
<1>12. CASE BeginRead
  BY <1>3, <1>12 DEF BeginRead, Reads, MachineStands
<1>13. CASE Stands /\ Quiet
  BY <1>3, <1>13 DEF Quiet, MachineStands
<1>14. ASSUME NEW u \in Range(Loaded), BringUp(u) \/ BringDown(u)
       PROVE  /\ r.at <= clock' /\ r.carried[t] <= carried'[t]
              /\ \A d \in Devices : carries'[d] = t => rx'[d] - r.rx <= carried'[t] - r.carried[t]
  BY <1>1, <1>4, <1>5, <1>14, LoadedIs
<1> QED BY <1>11, <1>12, <1>13, <1>14, CommandMoves

\* The readings of a step are those of before, but perhaps one.
LEMMA RatePasses ==
  ASSUME ChainInv, RateInv, MachineInv, CommandTypes, [CommandNext]_<<vars, command>>,
         \A t \in Tunnels : \A k \in Holders :
           Held(k, t)' # <<>> => \E j \in Holders : Held(j, t) # <<>> /\ Held(j, t)[1] = Held(k, t)'[1]
  PROVE  RateInv'
<1>1. \A t \in Tunnels : \A j \in Holders : Held(j, t) # <<>> => Reading(Held(j, t)[1])
  BY TuplesDiffer DEF Held, Holders, ChainInv, AtMostOne
<1>2. ASSUME NEW t \in Tunnels, NEW k \in Holders, Held(k, t)' # <<>>
      PROVE  /\ Past(t, Held(k, t)[1])'
             /\ \A i \in Holders : Held(i, t)' # <<>> => Between(t, Held(k, t)[1], Held(i, t)[1])'
  <2>1. PICK j \in Holders : Held(j, t) # <<>> /\ Held(j, t)[1] = Held(k, t)'[1]
    BY <1>2
  <2>2. PICK a : a = Held(j, t)[1]
    OBVIOUS
  <2>3. Reading(a) /\ Past(t, a)
    BY <1>1, <2>1, <2>2 DEF RateInv
  <2>4. Past(t, a)'
    BY <2>3, PastKeeps
  <2>5. Past(t, Held(k, t)[1])'
    BY <2>1, <2>2, <2>4 DEF Past
  <2>6. ASSUME NEW i \in Holders, Held(i, t)' # <<>> PROVE Between(t, Held(k, t)[1], Held(i, t)[1])'
    <3>1. PICK h \in Holders : Held(h, t) # <<>> /\ Held(h, t)[1] = Held(i, t)'[1]
      BY <2>6
    <3>2. Between(t, Held(j, t)[1], Held(h, t)[1])
      BY <2>1, <3>1 DEF RateInv
    <3> QED BY <2>1, <3>1, <3>2 DEF Between
  <2> QED BY <2>5, <2>6
<1> QED BY <1>2 DEF RateInv

LEMMA GraphStands ==
  ASSUME GraphInv, MachineInv, CommandTypes, [CommandNext]_<<vars, command>>, UNCHANGED graph
  PROVE  GraphInv'
<1>1. showGraph' = showGraph /\ chain' = chain /\ series' = series
  BY DEF graph
<1>2. ChainInv' /\ GraphIsFed' /\ RateIsEarned'
  BY <1>1 DEF GraphInv, ChainInv, GraphIsFed, RateIsEarned
<1>3. \A t \in Tunnels : \A k \in Holders : Held(k, t)' = Held(k, t)
  BY <1>1 DEF Held
<1>4. RateInv'
  BY <1>3, RatePasses DEF GraphInv
<1> QED BY <1>2, <1>4 DEF GraphInv

LEMMA KeyGraphKeeps ==
  ASSUME GraphInv, ViewInv, MachineInv, CommandTypes, [CommandNext]_<<vars, command>>, KeyGraph
  PROVE  GraphInv'
<1>0. /\ showGraph \in BOOLEAN /\ showGraph' = ~showGraph
      /\ DOMAIN chain = 1..MaxChains /\ DOMAIN series = Tunnels
      /\ ChainInv /\ GraphIsFed /\ RateInv /\ RateIsEarned
  BY DEF KeyGraph, GraphInv, ChainInv
<1>1. CASE showGraph
  <2>1. series' = [t \in Tunnels |-> NoSeries] /\ chain' = chain
    BY <1>1 DEF KeyGraph
  <2>2. DOMAIN NoSeries = {"last", "points"} /\ NoSeries.last = <<>> /\ NoSeries.points = <<>>
    BY DEF NoSeries
  <2>3. ChainInv'
    BY <1>0, <2>1, <2>2 DEF ChainInv, AtMostOne
  <2>4. \A t \in Tunnels : \A k \in Holders : Held(k, t)' # <<>> => Held(k, t)' = Held(k, t)
    BY <2>1, <2>2 DEF Held
  <2>5. RateInv'
    BY <1>0, <2>4, RatePasses
  <2>6. GraphIsFed' /\ RateIsEarned'
    BY <1>0, <1>1, <2>1, <2>2, EmptyIs DEF GraphIsFed, RateIsEarned
  <2> QED BY <2>3, <2>5, <2>6 DEF GraphInv
<1>2. CASE ~showGraph
  <2>0. series' = series
    BY <1>2 DEF KeyGraph
  <2>1. PICK c \in 1..MaxChains : chain' = [chain EXCEPT ![c] = Asked]
    BY <1>0, <1>2 DEF KeyGraph
  <2>2. chain'[c] = Asked /\ \A k \in 1..MaxChains : k # c => chain'[k] = chain[k]
    BY <1>0, <2>1
  <2>3. ChainInv'
    <3>1. ASSUME NEW k \in 1..MaxChains
          PROVE  /\ DOMAIN chain'[k] = {"at", "tunnel", "reading", "due"}
                 /\ chain'[k].at \in {"off", "asked", "read", "ticking"}
                 /\ chain'[k].tunnel \in {0} \cup Tunnels
                 /\ AtMostOne(chain'[k].reading)
                 /\ chain'[k].reading # <<>> => chain'[k].tunnel # 0
      BY <1>0, <2>2, AskedIs DEF ChainInv, AtMostOne
    <3> QED BY <1>0, <2>0, <2>1, <3>1 DEF ChainInv, AtMostOne, Reading
  <2>4. \A t \in Tunnels : \A k \in Holders : Held(k, t)' # <<>> => Held(k, t)' = Held(k, t)
    BY <2>0, <2>2, AskedIs DEF Held, Holders
  <2>5. RateInv'
    BY <1>0, <2>4, RatePasses
  <2>6. GraphIsFed' /\ RateIsEarned'
    BY <1>0, <2>0, <2>1, <2>2, AskedIs DEF GraphIsFed, RateIsEarned
  <2> QED BY <2>3, <2>5, <2>6 DEF GraphInv
<1> QED BY <1>0, <1>1, <1>2

\* The peers a reading is taken among.
LEMMA SampledPeers ==
  ASSUME MachineInv
  PROVE  LET on == Only([d \in Devices |-> d], {d \in Devices : carries[d] > 0})
             state == [i \in DOMAIN on |-> PeerOf(on[i])]
         IN  IsSequence(state) /\ Range(state) = Peers(Carrying)
<1> DEFINE all == [d \in Devices |-> d]
           on == Only(all, {d \in Devices : carries[d] > 0})
           state == [i \in DOMAIN on |-> PeerOf(on[i])]
<1>1. D \in Nat
  BY Numbers
<1>2. IsSequence(all) /\ Range(all) = Devices
  <2>1. all \in Seq(Devices)
    BY <1>1 DEF Devices
  <2> QED BY <2>1, SeqIs DEF Range
<1> HIDE DEF all
<1>3. on \in Seq(Range(all) \cap Carrying) /\ Range(on) = Range(all) \cap Carrying
  BY <1>2, OnlyIs DEF Carrying
<1>4. IsSequence(on) /\ Range(on) = Carrying
  BY <1>2, <1>3, SeqIs DEF Carrying
<1> HIDE DEF on
<1>5. Len(on) \in Nat /\ DOMAIN on = 1..Len(on) /\ Carrying = {on[i] : i \in 1..Len(on)}
  BY <1>4, SeqElements
<1>6. IsSequence(state) /\ Range(state) = {state[i] : i \in 1..Len(on)}
  BY <1>5, MappedIs
<1>7. Range(state) = Peers(Carrying)
  BY <1>5, <1>6 DEF Peers
<1> QED BY <1>6, <1>7 DEF on, all

\* A reading is of an interface that is on, and its own when the tunnel asked
\* about is the one that is there.
LEMMA SampleIs ==
  ASSUME MachineInv, NEW c \in 1..MaxChains, DOMAIN chain = 1..MaxChains,
         DOMAIN chain[c] = {"at", "tunnel", "reading", "due"}, Sample(c)
  PROVE  /\ chain[c].at = "asked" /\ \A k \in 1..MaxChains : k # c => chain'[k] = chain[k]
         /\ DOMAIN chain' = 1..MaxChains /\ DOMAIN chain'[c] = DOMAIN chain[c]
         /\ chain'[c].at = "read" /\ chain'[c].tunnel = chain[c].tunnel
         /\ \/ chain'[c].reading = <<>>
            \/ \E d \in Devices :
                 /\ carries[d] > 0 /\ chain[c].tunnel # 0
                 /\ chain'[c].reading = <<[at |-> clock, rx |-> rx[d], own |-> carries[d] = chain[c].tunnel,
                                           carried |-> carried]>>
<1> DEFINE t == chain[c].tunnel
           on == Only([d \in Devices |-> d], {d \in Devices : carries[d] > 0})
           state == [i \in DOMAIN on |-> PeerOf(on[i])]
           peer == IF t = 0 \/ -1 \in Range(carries) THEN NoPeer ELSE Resolve(state, t)
           reading == IF peer = NoPeer THEN <<>>
                      ELSE <<[at |-> clock, rx |-> rx[peer.device], own |-> peer.owner = t,
                              carried |-> carried]>>
<1>1. chain[c].at = "asked" /\ chain' = [chain EXCEPT ![c] = [@ EXCEPT !.at = "read", !.reading = reading]]
  BY DEF Sample
<1>2. IsSequence(state) /\ Range(state) = Peers(Carrying)
  BY SampledPeers
<1> HIDE DEF state
<1>3. Resolve(state, t) \in Peers(Carrying) \cup {NoPeer}
  BY <1>2, ResolveFindsPeers
<1>4. peer # NoPeer => t # 0 /\ \E d \in Carrying : peer = PeerOf(d)
  BY <1>3 DEF Peers
<1> HIDE DEF peer
<1>5. reading = <<>> \/ \E d \in Devices :
        /\ carries[d] > 0 /\ t # 0
        /\ reading = <<[at |-> clock, rx |-> rx[d], own |-> carries[d] = t, carried |-> carried]>>
  <2>1. CASE peer = NoPeer
    BY <2>1
  <2>2. CASE peer # NoPeer
    <3>1. PICK d \in Carrying : peer = PeerOf(d)
      BY <1>4, <2>2
    <3>2. peer.device = d /\ peer.owner = carries[d] /\ d \in Devices /\ carries[d] > 0
      BY <3>1 DEF PeerOf, Carrying
    <3> QED BY <1>4, <2>2, <3>2
  <2> QED BY <2>1, <2>2
<1> HIDE DEF reading
<1>6. /\ DOMAIN chain'[c] = DOMAIN chain[c] /\ chain'[c].at = "read"
      /\ chain'[c].tunnel = chain[c].tunnel /\ chain'[c].reading = reading
  BY <1>1
<1>7. \A k \in 1..MaxChains : k # c => chain'[k] = chain[k]
  BY <1>1
<1> QED BY <1>1, <1>5, <1>6, <1>7

LEMMA SampleKeeps ==
  ASSUME GraphInv, MachineInv, CommandTypes, [CommandNext]_<<vars, command>>,
         UNCHANGED <<setup, machine, read, view, traffic>>, NEW c \in 1..MaxChains, Sample(c)
  PROVE  GraphInv'
<1>5. PICK t : t = chain[c].tunnel
  OBVIOUS
<1>0. /\ ChainInv /\ GraphIsFed /\ RateInv /\ RateIsEarned
      /\ showGraph' = showGraph /\ series' = series
      /\ carries' = carries /\ clock' = clock /\ rx' = rx /\ carried' = carried
  BY DEF GraphInv, Sample, machine, traffic
<1>1. /\ chain[c].at = "asked" /\ \A k \in 1..MaxChains : k # c => chain'[k] = chain[k]
      /\ DOMAIN chain' = 1..MaxChains /\ DOMAIN chain'[c] = DOMAIN chain[c]
      /\ chain'[c].at = "read" /\ chain'[c].tunnel = t
      /\ \/ chain'[c].reading = <<>>
         \/ \E d \in Devices :
              /\ carries[d] > 0 /\ t # 0
              /\ chain'[c].reading = <<[at |-> clock, rx |-> rx[d], own |-> carries[d] = t,
                                        carried |-> carried]>>
  BY <1>0, <1>5, SampleIs DEF ChainInv
<1>2. GraphIsFed' /\ RateIsEarned'
  BY <1>0, <1>1 DEF GraphIsFed, RateIsEarned, ChainInv
<1>3. CASE chain'[c].reading = <<>>
  <2>1. ChainInv'
    <3>1. ASSUME NEW k \in 1..MaxChains
          PROVE  /\ DOMAIN chain'[k] = {"at", "tunnel", "reading", "due"}
                 /\ chain'[k].at \in {"off", "asked", "read", "ticking"}
                 /\ chain'[k].tunnel \in {0} \cup Tunnels
                 /\ AtMostOne(chain'[k].reading)
                 /\ chain'[k].reading # <<>> => chain'[k].tunnel # 0
      BY <1>0, <1>1, <1>3, <1>5 DEF ChainInv, AtMostOne
    <3> QED BY <1>0, <1>1, <3>1 DEF ChainInv, AtMostOne, Reading
  <2>2. \A u \in Tunnels : \A k \in Holders : Held(k, u)' # <<>> => Held(k, u)' = Held(k, u)
    BY <1>0, <1>1, <1>3 DEF Held, Holders
  <2>3. RateInv'
    BY <1>0, <2>2, RatePasses
  <2> QED BY <1>2, <2>1, <2>3 DEF GraphInv
<1>4. CASE chain'[c].reading # <<>>
  <2>1. PICK d \in Devices :
          /\ carries[d] > 0 /\ t # 0
          /\ chain'[c].reading = <<[at |-> clock, rx |-> rx[d], own |-> carries[d] = t, carried |-> carried]>>
    BY <1>1, <1>4
  <2>2. PICK r : /\ r.at = clock /\ r.rx = rx[d] /\ r.own = (carries[d] = t) /\ r.carried = carried
                 /\ chain'[c].reading = <<r>>
    <3> DEFINE r == [at |-> clock, rx |-> rx[d], own |-> carries[d] = t, carried |-> carried]
    <3>1. r.at = clock /\ r.rx = rx[d] /\ r.own = (carries[d] = t) /\ r.carried = carried
      OBVIOUS
    <3> QED BY <2>1, <3>1
  <2>3. t \in Tunnels
    BY <1>0, <1>5, <2>1 DEF ChainInv
  <2>4. clock \in Nat /\ carried \in [Tunnels -> Nat] /\ \A e \in Devices : rx[e] \in Nat
    <3>1. clock \in 0..MaxTime /\ carried \in [Tunnels -> 0..MaxBytes]
      BY DEF MachineInv
    <3> QED BY <3>1, Numbers DEF MachineInv
  <2>5. Reading(r)
    BY <2>2, <2>4 DEF Reading
  <2>6. chain'[c].reading = <<r>> /\ chain'[c].reading[1] = r
    BY <2>2, TuplesDiffer
  <2>7. ChainInv'
    <3>1. ASSUME NEW k \in 1..MaxChains
          PROVE  /\ DOMAIN chain'[k] = {"at", "tunnel", "reading", "due"}
                 /\ chain'[k].at \in {"off", "asked", "read", "ticking"}
                 /\ chain'[k].tunnel \in {0} \cup Tunnels
                 /\ AtMostOne(chain'[k].reading)
                 /\ chain'[k].reading # <<>> => chain'[k].tunnel # 0
      <4>1. CASE k = c
        <5>1. AtMostOne(chain'[c].reading)
          BY <2>5, <2>6 DEF AtMostOne
        <5> QED BY <1>0, <1>1, <1>5, <2>1, <2>3, <4>1, <5>1 DEF ChainInv
      <4>2. CASE k # c
        BY <1>0, <1>1, <4>2 DEF ChainInv
      <4> QED BY <4>1, <4>2
    <3> QED BY <1>0, <1>1, <3>1 DEF ChainInv, AtMostOne, Reading
  <2>8. /\ Held(c, t)' = <<r>> /\ Held(c, t)'[1] = r
        /\ \A u \in Tunnels : \A k \in Holders :
             Held(k, u)' # <<>> => (k = c /\ u = t) \/ Held(k, u)' = Held(k, u)
    BY <1>0, <1>1, <2>6 DEF Held, Holders
  <2>9. \A u \in Tunnels : \A k \in Holders : Held(k, u) # <<>> => Reading(Held(k, u)[1])
    BY <1>0 DEF Held, Holders, ChainInv, AtMostOne
  <2>10. \A e \in Devices : carries[e] = t /\ r.own => e = d
    <3>1. \A e \in Devices : carries[e] = t => name[t] = e
      BY <2>3 DEF MachineInv, Tunnels
    <3> QED BY <2>2, <3>1
  <2>11. Past(t, r)
    BY <2>2, <2>3, <2>4, <2>10 DEF Past
  <2>12. ASSUME NEW a, Reading(a), Past(t, a) PROVE Between(t, a, r) /\ Between(t, r, a)
    <3>1. a.at \in Nat /\ a.rx \in Nat /\ a.carried[t] \in Nat
      BY <2>3, <2>12 DEF Reading
    <3>2. r.own => carries[d] = t
      BY <2>2
    <3>3. Between(t, a, r)
      <4> SUFFICES ASSUME a.own, r.own
                   PROVE  a.carried[t] <= r.carried[t] /\ r.rx - a.rx <= r.carried[t] - a.carried[t]
        BY DEF Between
      <4> QED BY <2>2, <2>12, <3>2 DEF Past
    <3>4. Between(t, r, a)
      <4> SUFFICES ASSUME a.own, r.own PROVE ~(r.at < a.at)
        BY DEF Between
      <4> QED BY <2>2, <2>4, <2>12, <3>1 DEF Past
    <3> QED BY <3>3, <3>4
  <2>13. \A u \in Tunnels : \A a : Past(u, a)' = Past(u, a)
    BY <1>0 DEF Past
  <2>14. Between(t, r, r)
    BY <2>2, <2>4 DEF Between
  <2>15. ASSUME NEW u \in Tunnels, NEW k \in Holders, Held(k, u)' # <<>>
         PROVE  /\ Past(u, Held(k, u)[1])'
                /\ \A j \in Holders : Held(j, u)' # <<>> => Between(u, Held(k, u)[1], Held(j, u)[1])'
    <3>1. Past(u, Held(k, u)'[1])
      <4>1. CASE k = c /\ u = t
        BY <2>8, <2>11, <4>1
      <4>2. CASE Held(k, u)' = Held(k, u)
        BY <1>0, <2>15, <4>2 DEF RateInv
      <4> QED BY <2>8, <2>15, <4>1, <4>2
    <3>2. ASSUME NEW j \in Holders, Held(j, u)' # <<>> PROVE Between(u, Held(k, u)'[1], Held(j, u)'[1])
      <4>1. CASE (k = c /\ u = t) /\ (j = c /\ u = t)
        BY <2>8, <2>14, <4>1
      <4>2. CASE (k = c /\ u = t) /\ Held(j, u)' = Held(j, u)
        <5>1. Reading(Held(j, t)[1]) /\ Past(t, Held(j, t)[1])
          BY <1>0, <2>3, <2>9, <3>2, <4>2 DEF RateInv
        <5> QED BY <2>8, <2>12, <4>2, <5>1
      <4>3. CASE (j = c /\ u = t) /\ Held(k, u)' = Held(k, u)
        <5>1. Reading(Held(k, t)[1]) /\ Past(t, Held(k, t)[1])
          BY <1>0, <2>3, <2>9, <2>15, <4>3 DEF RateInv
        <5> QED BY <2>8, <2>12, <4>3, <5>1
      <4>4. CASE Held(k, u)' = Held(k, u) /\ Held(j, u)' = Held(j, u)
        BY <1>0, <2>15, <3>2, <4>4 DEF RateInv
      <4> QED BY <2>8, <2>15, <3>2, <4>1, <4>2, <4>3, <4>4
    <3>3. Past(u, Held(k, u)[1])'
      BY <1>0, <3>1 DEF Past
    <3> QED BY <3>2, <3>3 DEF Between
  <2>16. RateInv'
    BY <2>15 DEF RateInv
  <2> QED BY <1>2, <2>7, <2>16 DEF GraphInv
<1> QED BY <1>3, <1>4

LEMMA OnSampleKeeps ==
  ASSUME GraphInv, MachineInv, CommandTypes, [CommandNext]_<<vars, command>>,
         NEW c \in 1..MaxChains, OnSample(c)
  PROVE  GraphInv'
<1>1. PICK t : t = chain[c].tunnel
  OBVIOUS
<1>2. PICK reading : reading = chain[c].reading
  OBVIOUS
<1>0. PICK after : after = IF showGraph THEN [NoChain EXCEPT !.at = "ticking", !.due = clock + 1]
                           ELSE NoChain
  OBVIOUS
<1>3. /\ ChainInv /\ GraphIsFed /\ RateInv /\ RateIsEarned
      /\ showGraph' = showGraph /\ chain[c].at = "read" /\ chain' = [chain EXCEPT ![c] = after]
      /\ \/ series' = series
         \/ reading # <<>> /\ series' = [series EXCEPT ![t] = Add(t, @, reading[1])]
  BY <1>0, <1>1, <1>2 DEF GraphInv, OnSample
<1>4. /\ DOMAIN after = {"at", "tunnel", "reading", "due"} /\ after.tunnel = 0 /\ after.reading = <<>>
      /\ after.at \in {"off", "ticking"}
      /\ showGraph => after.at = "ticking"
  BY <1>0, NoChainIs
<1>5. DOMAIN chain = 1..MaxChains /\ DOMAIN series = Tunnels /\ showGraph \in BOOLEAN
  BY <1>3 DEF ChainInv
<1>6. chain'[c] = after /\ DOMAIN chain' = 1..MaxChains
      /\ \A k \in 1..MaxChains : k # c => chain'[k] = chain[k]
  BY <1>3, <1>5
<1>7. GraphIsFed'
  BY <1>3, <1>4, <1>5, <1>6 DEF GraphIsFed
<1>8. ASSUME NEW k \in 1..MaxChains
      PROVE  /\ DOMAIN chain'[k] = {"at", "tunnel", "reading", "due"}
             /\ chain'[k].at \in {"off", "asked", "read", "ticking"}
             /\ chain'[k].tunnel \in {0} \cup Tunnels
             /\ AtMostOne(chain'[k].reading)
             /\ chain'[k].reading # <<>> => chain'[k].tunnel # 0
  <2>1. CASE k = c
    BY <1>4, <1>6,   <2>1 DEF AtMostOne
  <2>2. CASE k # c
    BY <1>3, <1>6,   <2>2 DEF ChainInv
  <2> QED BY   <2>1,   <2>2
<1>9. CASE series' = series
  <2>1. ChainInv'
    BY <1>3, <1>5, <1>6, <1>8, <1>9 DEF ChainInv, AtMostOne, Reading
  <2>2. \A u \in Tunnels : \A k \in Holders : Held(k, u)' # <<>> => Held(k, u)' = Held(k, u)
    BY <1>4, <1>6, <1>9 DEF Held, Holders
  <2>3. RateInv'
    BY <1>3, <2>2, RatePasses
  <2> QED BY <1>3, <1>7, <1>9, <2>1, <2>3 DEF GraphInv, RateIsEarned
<1>10. CASE reading # <<>> /\ series' = [series EXCEPT ![t] = Add(t, @, reading[1])]
  <2>1. PICK next : next = reading[1]
    OBVIOUS
  <2>2. t \in Tunnels /\ reading = <<next>> /\ Reading(next)
    BY <1>1, <1>2, <1>3, <1>10, <2>1 DEF ChainInv, AtMostOne
  <2>3. PICK old : old = series[t]
    OBVIOUS
  <2>4. series'[t] = Add(t, old, next) /\ DOMAIN series' = Tunnels
        /\ \A u \in Tunnels : u # t => series'[u] = series[u]
    BY <1>5, <1>10, <2>1, <2>2, <2>3
  <2>5. /\ DOMAIN series'[t] = {"last", "points"} /\ series'[t].last = <<next>>
        /\ series'[t].points = IF old.last = <<>> \/ next.at <= old.last[1].at THEN old.points
                               ELSE <<PerSecond(t, old.last[1], next)>>
    BY <2>4 DEF Add
  <2>6. AtMostOne(series'[t].last)
    BY <2>2, <2>5, TuplesDiffer DEF AtMostOne
  <2>7. ChainInv'
    <3>1. ASSUME NEW u \in Tunnels
          PROVE  DOMAIN series'[u] = {"last", "points"} /\ AtMostOne(series'[u].last)
      <4>1. CASE u = t
        BY <2>5, <2>6, <4>1
      <4>2. CASE u # t
        BY <1>3, <2>4, <4>2 DEF ChainInv
      <4> QED BY <4>1, <4>2
    <3> QED BY <1>3, <1>5, <1>6, <1>8, <2>4, <3>1 DEF ChainInv, AtMostOne, Reading
  <2>8. c \in Holders /\ 0 \in Holders /\ Held(c, t) = <<next>> /\ Held(0, t) = old.last
    BY <1>1, <1>2, <1>3, <2>2, <2>3 DEF Holders, Held
  <2>9. ASSUME NEW u \in Tunnels, NEW k \in Holders, Held(k, u)' # <<>>
        PROVE  \E j \in Holders : Held(j, u) # <<>> /\ Held(j, u)[1] = Held(k, u)'[1]
    <3>1. CASE k = 0 /\ u = t
      <4>1. Held(k, u)' = <<next>>
        BY <2>5, <3>1 DEF Held
      <4> QED BY <2>8, <3>1, <4>1, TuplesDiffer
    <3>2. CASE ~(k = 0 /\ u = t)
      <4>1. Held(k, u)' = Held(k, u)
        BY <1>4, <1>6, <2>4, <2>9, <3>2 DEF Held, Holders
      <4> QED BY <2>9, <4>1
    <3> QED BY <3>1, <3>2
  <2>10. RateInv'
    BY <1>3, <2>9, RatePasses
  <2>11. RateIsEarned'
    <3>1. ASSUME NEW i \in DOMAIN series'[t].points
          PROVE  LET p == series'[t].points[i] IN p.own => p.bytes <= p.earned /\ p.seconds > 0
      <4>1. CASE old.last = <<>> \/ next.at <= old.last[1].at
        BY <1>3, <2>2, <2>3, <2>5, <4>1 DEF RateIsEarned
      <4>2. CASE ~(old.last = <<>> \/ next.at <= old.last[1].at)
        <5>1. PICK prev : prev = old.last[1]
          OBVIOUS
        <5>2. Reading(prev) /\ Between(t, prev, next)
          <6>1. Held(0, t) # <<>> /\ Held(0, t)[1] = prev /\ Held(c, t) # <<>> /\ Held(c, t)[1] = next
            BY <2>8, <4>2, <5>1, TuplesDiffer
          <6>2. Reading(prev)
            BY <1>3, <2>2, <2>3, <4>2, <5>1 DEF ChainInv, AtMostOne
          <6> QED BY <1>3, <2>2, <2>8, <6>1, <6>2 DEF RateInv
        <5>3. series'[t].points = <<PerSecond(t, prev, next)>>
          BY <2>5, <4>2, <5>1
        <5>4. series'[t].points[i] = PerSecond(t, prev, next)
          BY <5>3, TuplesDiffer
        <5> DEFINE p == PerSecond(t, prev, next)
        <5>5. /\ p.bytes = Max({0, next.rx - prev.rx}) /\ p.seconds = next.at - prev.at
              /\ p.own = (prev.own /\ next.own) /\ p.earned = next.carried[t] - prev.carried[t]
          BY DEF PerSecond
        <5> HIDE DEF p
        <5>6. /\ prev.at \in Nat /\ next.at \in Nat /\ prev.rx \in Nat /\ next.rx \in Nat
              /\ prev.carried[t] \in Nat /\ next.carried[t] \in Nat
          BY <2>2, <5>2 DEF Reading
        <5>7. p.own => p.bytes <= p.earned /\ p.seconds > 0
          <6> SUFFICES ASSUME prev.own /\ next.own PROVE p.bytes <= p.earned /\ p.seconds > 0
            BY <5>5
          <6>1. prev.at < next.at
            BY <4>2, <5>1, <5>6
          <6>2. p.bytes = IF 0 >= next.rx - prev.rx THEN 0 ELSE next.rx - prev.rx
            BY <5>5, <5>6, MaxOfTwo
          <6>3. prev.carried[t] <= next.carried[t]
                /\ next.rx - prev.rx <= next.carried[t] - prev.carried[t]
            BY <5>2, <6>1 DEF Between
          <6> QED BY <5>5, <5>6, <6>1, <6>2, <6>3
        <5> QED BY <5>4, <5>7 DEF p
      <4> QED BY <4>1, <4>2
    <3>2. ASSUME NEW u \in Tunnels, u # t, NEW i \in DOMAIN series'[u].points
          PROVE  LET p == series'[u].points[i] IN p.own => p.bytes <= p.earned /\ p.seconds > 0
      BY <1>3, <2>4, <3>2 DEF RateIsEarned
    <3> QED BY <3>1, <3>2 DEF RateIsEarned
  <2> QED BY <1>7, <2>7, <2>10, <2>11 DEF GraphInv
<1> QED BY <1>3, <1>9, <1>10

LEMMA SampleTickKeeps ==
  ASSUME GraphInv, ViewInv, MachineInv, CommandTypes, [CommandNext]_<<vars, command>>,
         NEW c \in 1..MaxChains, SampleTick(c)
  PROVE  GraphInv'
<1>0. PICK after : after = IF showGraph THEN Asked ELSE NoChain
  OBVIOUS
<1>3. /\ ChainInv /\ GraphIsFed /\ RateInv /\ RateIsEarned
      /\ showGraph' = showGraph /\ series' = series /\ chain' = [chain EXCEPT ![c] = after]
  BY <1>0 DEF GraphInv, SampleTick
<1>4. /\ DOMAIN after = {"at", "tunnel", "reading", "due"} /\ after.tunnel \in {0} \cup Tunnels
      /\ after.reading = <<>> /\ after.at \in {"off", "asked"}
      /\ showGraph => after.at = "asked"
  BY <1>0, NoChainIs, AskedIs
<1>5. DOMAIN chain = 1..MaxChains /\ DOMAIN series = Tunnels /\ showGraph \in BOOLEAN
  BY <1>3 DEF ChainInv
<1>6. chain'[c] = after /\ DOMAIN chain' = 1..MaxChains
      /\ \A k \in 1..MaxChains : k # c => chain'[k] = chain[k]
  BY <1>3, <1>5
<1>7. GraphIsFed' /\ RateIsEarned'
  <2>1. GraphIsFed'
    BY <1>3, <1>4, <1>5, <1>6 DEF GraphIsFed
  <2> QED BY <1>3, <2>1 DEF RateIsEarned
<1>8. ASSUME NEW k \in 1..MaxChains
      PROVE  /\ DOMAIN chain'[k] = {"at", "tunnel", "reading", "due"}
             /\ chain'[k].at \in {"off", "asked", "read", "ticking"}
             /\ chain'[k].tunnel \in {0} \cup Tunnels
             /\ AtMostOne(chain'[k].reading)
             /\ chain'[k].reading # <<>> => chain'[k].tunnel # 0
  <2>1. CASE k = c
    BY <1>4, <1>6,   <2>1 DEF AtMostOne
  <2>2. CASE k # c
    BY <1>3, <1>6,   <2>2 DEF ChainInv
  <2> QED BY   <2>1,   <2>2
<1>9. ChainInv'
  BY <1>3, <1>5, <1>6, <1>8 DEF ChainInv, AtMostOne, Reading
<1>10. \A u \in Tunnels : \A k \in Holders : Held(k, u)' # <<>> => Held(k, u)' = Held(k, u)
  <2> SUFFICES ASSUME NEW u \in Tunnels, NEW k \in Holders, Held(k, u)' # <<>>
               PROVE  Held(k, u)' = Held(k, u)
    OBVIOUS
  <2>1. CASE k = c
    BY <1>3, <1>4, <1>6, <2>1 DEF Held, Holders
  <2>2. CASE k # c
    BY <1>3, <1>6, <2>2 DEF Held, Holders
  <2> QED BY <2>1, <2>2
<1>11. RateInv'
  BY <1>3, <1>10, RatePasses
<1> QED BY <1>7, <1>9, <1>11 DEF GraphInv

LEMMA GraphKeeps ==
  ASSUME GraphInv, ViewInv, MachineInv, CommandTypes, [CommandNext]_<<vars, command>>
  PROVE  GraphInv'
<1>1. CASE Next
  BY <1>1, NextOfGraph, GraphStands, KeyGraphKeeps, SampleKeeps, OnSampleKeeps, SampleTickKeeps
<1>2. CASE BeginRead
  BY <1>2, GraphStands DEF BeginRead, Reads
<1>3. CASE Stands
  BY <1>3, GraphStands DEF Stands
<1> QED BY <1>1, <1>2, <1>3, CommandMoves

-----------------------------------------------------------------------------
(* Commands. *)

\* The members of a group: who is listed and not overridden, and whom an
\* override moves there.
LEMMA MembersAre ==
  ASSUME setup \in Setups, NEW g, NEW context
  PROVE  /\ IsSequence(Members(g, context)) /\ Range(Members(g, context)) \subseteq TunnelNames
         /\ g # "all" => \A t : t \in Range(Members(g, context)) <=>
                           \/ t \in Range(Listing(g)) /\ Overriding(t) = {}
                           \/ Overriding(t) # {} /\ g \in GroupsOf(t, context)
<1> DEFINE moved == [i \in DOMAIN setup.overrides |-> setup.overrides[i].tunnel]
           in == {t \in Range(moved) : g \in GroupsOf(t, context)}
           own == {t \in Range(Listing(g)) : Overriding(t) = {}}
<1>1. /\ \A h \in DOMAIN setup.groups : setup.groups[h] \in Seq(TunnelNames)
      /\ IsSequence(setup.overrides)
      /\ \A o \in Range(setup.overrides) : o.tunnel \in TunnelNames
  BY SetupIs
<1>2. /\ Len(setup.overrides) \in Nat /\ DOMAIN setup.overrides = 1..Len(setup.overrides)
      /\ Range(setup.overrides) = {setup.overrides[i] : i \in 1..Len(setup.overrides)}
  BY <1>1, SeqElements
<1>3. Listing(g) \in Seq(TunnelNames)
  BY <1>1 DEF Listing
<1>4. IsSequence(Listing(g)) /\ Range(Listing(g)) \subseteq TunnelNames
  BY <1>3, SeqIs, SeqElements
<1>5. IsSequence(moved) /\ Range(moved) = {moved[i] : i \in 1..Len(setup.overrides)}
  BY <1>2, MappedIs
<1>6. \A t : t \in Range(moved) <=> Overriding(t) # {}
  BY <1>2, <1>5 DEF Overriding
<1>7. Range(moved) \subseteq TunnelNames
  BY <1>1, <1>2, <1>5
<1> HIDE DEF moved
<1>8. MovedIn(g, context) = Only(moved, in)
  BY DEF MovedIn, moved
<1>9. /\ MovedIn(g, context) \in Seq(Range(moved) \cap in)
      /\ Range(MovedIn(g, context)) = Range(moved) \cap in
  BY <1>5, <1>8, OnlyIs
<1>10. /\ Only(Listing(g), own) \in Seq(Range(Listing(g)) \cap own)
       /\ Range(Only(Listing(g), own)) = Range(Listing(g)) \cap own
  BY <1>4, OnlyIs
<1>11. CASE g = "all"
  BY <1>4, <1>11 DEF Members
<1>12. CASE g # "all"
  <2>1. Members(g, context) = Only(Listing(g), own) \o MovedIn(g, context)
    BY <1>12 DEF Members
  <2>2. IsSequence(Only(Listing(g), own)) /\ IsSequence(MovedIn(g, context))
    BY <1>9, <1>10, SeqIs
  <2>3. /\ IsSequence(Members(g, context))
        /\ Range(Members(g, context)) = (Range(Listing(g)) \cap own) \cup (Range(moved) \cap in)
    <3> DEFINE a == Only(Listing(g), own)
               b == MovedIn(g, context)
    <3>1. IsSequence(a \o b) /\ Range(a \o b) = Range(a) \cup Range(b)
      <4> HIDE DEF a, b
      <4>1. IsSequence(a) /\ IsSequence(b)
        BY <2>2 DEF a, b
      <4> QED BY <4>1, ConcatIs
    <3> HIDE DEF own, in
    <3> QED BY <1>9, <1>10, <2>1, <3>1
  <2> QED BY <1>4, <1>6, <1>7, <2>3
<1> QED BY <1>11, <1>12

LEMMA NamesAre ==
  ASSUME setup \in Setups, command.typed \in setup.commands
  PROVE  IsSequence(Names) /\ Range(Names) \subseteq TunnelNames
<1>1. command.typed.names \in Seq(TunnelNames)
  BY SetupIs
<1>2. IsSequence(command.typed.names) /\ Range(command.typed.names) \subseteq TunnelNames
  BY <1>1, SeqIs, SeqElements
<1> QED BY <1>2, MembersAre DEF Names

\* The steps are names with a row, and every other name with a row has what the
\* row says of it.
LEMMA PlanIs ==
  ASSUME setup \in Setups, command.typed \in setup.commands
  PROVE  /\ IsSequence(PlanOf) /\ Range(PlanOf) \subseteq Known
         /\ \A t \in Range(Names) \cap Known : t \notin Range(PlanOf) =>
              \/ command.typed.verb = "up" /\ RowOf(t).health # "down"
              \/ command.typed.verb = "down" /\ RowOf(t).health = "down"
<1> DEFINE S == {t \in Known : command.typed.verb = IF RowOf(t).health = "down" THEN "up" ELSE "down"}
<1>1. PlanOf \in Seq(Range(Names) \cap S) /\ Range(PlanOf) = Range(Names) \cap S
  BY NamesAre, OnlyIs DEF PlanOf
<1>2. IsSequence(PlanOf)
  BY <1>1, SeqIs
<1>3. command.typed.verb \in {"up", "down"}
  BY SetupIs
<1> QED BY <1>1, <1>2, <1>3

\* A name that is not a step of a read nothing moved under has what was asked.
LEMMA ReadSatisfies ==
  ASSUME MachineInv, ReadInv, read.at = "done", ~read.moved, command.typed \in setup.commands,
         ~Refuses, NEW t \in Range(Names), t \notin Range(PlanOf)
  PROVE  Satisfied(t)
<1>1. /\ IsSequence(read.rows) /\ {read.rows[i].tunnel : i \in 1..Len(read.rows)} = Range(Loaded)
      /\ Range(read.rows) = {read.rows[i] : i \in 1..Len(read.rows)}
      /\ RowsAreShown
  BY SeqElements DEF ReadInv, ReadTypes, RowsAreFiles, StillTrue
<1>2. Known = Range(Loaded)
  BY <1>1 DEF Known
<1>3. Range(Loaded) \subseteq Tunnels
  BY LoadedIs
<1>4. \A d \in Devices : carries[d] > 0 => carries[d] \in Range(Loaded) /\ name[carries[d]] = d
  BY CarriedIsLoaded DEF MachineInv
<1>5. setup \in Setups
  BY DEF MachineInv
<1>6. CASE t \in Known
  <2>1. RowOf(t) \in Range(read.rows) /\ RowOf(t).tunnel = t
    BY <1>6 DEF RowOf, Known
  <2>2. PICK row : row = RowOf(t)
    OBVIOUS
  <2>3. row.health = Health(row.peer) /\ (setup.runDir \/ KeysApart => row.peer = Shown(t))
    BY <1>1, <2>1, <2>2 DEF RowsAreShown
  <2>4. \/ command.typed.verb = "up" /\ row.health # "down"
        \/ command.typed.verb = "down" /\ row.health = "down"
    BY <1>5, <1>6, <2>2, PlanIs
  <2>5. row.health = "down" <=> row.peer = NoPeer
    BY <2>3 DEF Health
  <2>6. CASE ~(setup.runDir \/ KeysApart)
    BY <2>6 DEF Satisfied
  <2>7. CASE setup.runDir \/ KeysApart
    <3>1. row.peer = Shown(t)
      BY <2>3, <2>7
    <3>2. CASE command.typed.verb = "up" /\ row.health # "down"
      <4>1. Shown(t) # NoPeer
        BY <2>5, <3>1, <3>2
      <4>2. name[t] # 0 /\ (setup.runDir \/ carries[name[t]] = t)
        BY <4>1 DEF Shown
      <4>3. name[t] \in Devices
        BY <1>2, <1>3, <1>6, <4>2 DEF MachineInv
      <4> QED BY <3>2, <4>2, <4>3 DEF Satisfied, Up
    <3>3. CASE command.typed.verb = "down" /\ row.health = "down"
      <4>1. Shown(t) = NoPeer
        BY <2>5, <3>1, <3>3
      <4>2. ASSUME NEW d \in Devices, carries[d] = t PROVE FALSE
        <5>1. carries[d] > 0
          BY <1>2, <1>3, <1>6, <4>2 DEF Tunnels
        <5>2. name[t] = d /\ name[t] # 0
          BY <1>4, <4>2, <5>1 DEF Devices
        <5>3. Shown(t) = PeerOf(d)
          BY <4>2, <5>1, <5>2 DEF Shown
        <5>4. PeerOf(d).owner = t /\ NoPeer.owner = 0
          BY <4>2 DEF PeerOf, NoPeer
        <5>5. t # 0
          BY <4>2, <5>1
        <5> QED BY <4>1, <5>3, <5>4, <5>5
      <4> QED BY <3>3, <4>2 DEF Satisfied, Up
    <3> QED BY <2>4, <3>2, <3>3
  <2> QED BY <2>6, <2>7
<1>7. CASE t \notin Known
  <2>1. command.typed.verb = "down"
    BY <1>7 DEF Refuses
  <2>2. t \in TunnelNames
    BY <1>5, NamesAre
  <2>3. \A d \in Devices : carries[d] # t
    BY <1>2, <1>4, <1>7, <2>2 DEF TunnelNames
  <2> QED BY <2>1, <2>3 DEF Satisfied, Up
<1> QED BY <1>6, <1>7

LEMMA SatisfiedStays ==
  ASSUME setup' = setup, UNCHANGED machine, command'.typed = command.typed
  PROVE  \A t : Satisfied(t)' <=> Satisfied(t)
<1>1. (KeysApart' <=> KeysApart) /\ carries' = carries /\ name' = name
  BY SetupStays DEF machine
<1> QED BY <1>1 DEF Satisfied, Up

\* What a step of the plan does to a command, whatever came of it.
LEMMA EndsIs ==
  ASSUME CommandTypes, command.steps # <<>>, NEW result, Ends(result)
  PROVE  /\ DOMAIN command' = DOMAIN command /\ command'.at = "next"
         /\ command'.typed = command.typed /\ command'.names = command.names
         /\ command'.alone = command.alone
         /\ IsSequence(command'.steps) /\ Range(command.steps) = {Step} \cup Range(command'.steps)
         /\ IsSequence(command'.results) /\ Range(command'.results) = Range(command.results) \cup {result}
         /\ SomeFailed \/ result[2] = "failed" => SomeFailed'
<1>1. /\ DOMAIN command' = DOMAIN command /\ command'.at = "next"
      /\ command'.typed = command.typed /\ command'.names = command.names
      /\ command'.alone = command.alone /\ command'.steps = Tail(command.steps)
      /\ command'.results = Append(command.results, result)
  BY DEF Ends, CommandTypes
<1>2. IsSequence(command.steps) /\ IsSequence(command.results)
  BY DEF CommandTypes
<1>3. IsSequence(command'.steps) /\ Range(command.steps) = {Step} \cup Range(command'.steps)
  BY <1>1, <1>2, TailIs DEF Step
<1>4. /\ IsSequence(command'.results) /\ Range(command'.results) = Range(command.results) \cup {result}
      /\ Len(command'.results) = Len(command.results) + 1 /\ Len(command.results) \in Nat
      /\ \A i \in 1..Len(command.results) : command'.results[i] = command.results[i]
      /\ command'.results[Len(command.results) + 1] = result
  BY <1>1, <1>2, AppendIs, SeqElements
<1>5. SomeFailed => SomeFailed'
  BY <1>4 DEF SomeFailed, Failed
<1>6. result[2] = "failed" => SomeFailed'
  BY <1>4 DEF SomeFailed, Failed
<1> QED BY <1>1, <1>3, <1>4, <1>5, <1>6

LEMMA NoCommandIs ==
  /\ DOMAIN NoCommand = {"at", "typed", "names", "steps", "results", "cancelled", "alone", "exit"}
  /\ NoCommand.at = "none" /\ NoCommand.steps = <<>> /\ NoCommand.results = <<>>
  /\ NoCommand.alone = TRUE /\ NoCommand.names = <<>>
BY DEF NoCommand

LEMMA CommandInvInit == CommandInit => CommandInv
<1> SUFFICES ASSUME CommandInit PROVE CommandInv
  OBVIOUS
<1>1. command = NoCommand /\ read = NoRead
  BY DEF CommandInit, Init
<1>2. CommandTypes
  BY <1>1, NoCommandIs, NoReadIs, EmptyIs DEF CommandTypes
<1>3. WorkInv
  BY <1>1, NoCommandIs DEF WorkInv
<1> QED BY <1>2, <1>3 DEF CommandInv

\* Nobody but the commands reads where there are commands.
LEMMA IdleStays ==
  ASSUME ReadInv, setup \in Setups, Next, setup.commands # {}, read.at = "idle"
  PROVE  read'.at = "idle"
<1>1. ~Does("read")
  BY SetupIs DEF Does
<1>2. CASE read' = read \/ read' = NoRead
  BY <1>2, NoReadIs
<1>3. CASE Moves
  BY <1>3 DEF Moves, ReadInv, ReadTypes
<1> QED BY <1>1, <1>2, <1>3, NextOfRead DEF StartRead, ListDevices, ReadDevice, DetectNetwork, Locate, SortRows

\* Whatever a read is told of did move.
LEMMA MovesMove ==
  ASSUME MachineInv, ReadInv, Next, UNCHANGED machine, ~read.moved
  PROVE  ~read'.moved
<1>0. carries' = carries /\ fresh' = fresh /\ host' = host
  BY DEF machine
<1>1. ASSUME NEW t \in Tunnels, WgUp(t) PROVE FALSE
  <2>1. PICK d \in Devices : carries' = [carries EXCEPT ![d] = t]
    BY <1>1 DEF WgUp, BringUp
  <2>2. carries'[d] = t
    BY <2>1 DEF MachineInv
  <2> QED BY <1>0, <1>1, <2>2 DEF WgUp, BringUp
<1>2. ASSUME NEW t \in Tunnels, WgDown(t) PROVE FALSE
  <2>1. /\ name[t] \in Devices /\ carries[name[t]] = t
        /\ carries' = [carries EXCEPT ![name[t]] = 0]
    BY <1>2 DEF WgDown, BringDown, MachineInv
  <2>2. carries'[name[t]] = 0
    BY <2>1 DEF MachineInv
  <2> QED BY <1>0, <2>1, <2>2, Numbers DEF Tunnels
<1>3. ASSUME NEW d \in Devices, Die(d) PROVE FALSE
  <2>1. PICK left \in {0, -1} : carries' = [carries EXCEPT ![d] = left]
    BY <1>3 DEF Die
  <2>2. carries'[d] = left /\ carries[d] > 0
    BY <1>3, <2>1 DEF Die, MachineInv
  <2> QED BY <1>0, <2>2
<1>4. ASSUME NEW d \in Devices, Handshake(d) PROVE FALSE
  <2>1. fresh'[d] = ~fresh[d] /\ fresh[d] \in BOOLEAN
    BY <1>4 DEF Handshake, MachineInv
  <2> QED BY <1>0, <2>1
<1>5. ~ChangeNetwork
  BY <1>0 DEF ChangeNetwork
<1>6. CASE read' = read
  BY <1>6
<1>7. CASE StartRead \/ OnView
  BY <1>7, NoReadIs DEF StartRead, BeginRead, OnView
<1>8. CASE ListDevices \/ ReadDevice \/ DetectNetwork \/ Locate \/ SortRows
  <2>1. "moved" \in DOMAIN read
    BY DEF ReadInv, ReadTypes
  <2> QED BY <1>8, <2>1 DEF ListDevices, ReadDevice, DetectNetwork, Locate, SortRows
<1>9. CASE \E d \in Devices : Carry(d)
  BY <1>9 DEF Carry
<1>10. CASE Second \/ AskPings \/ OnPing \/ KeyUp \/ KeyDown \/ KeyGraph
  BY <1>10 DEF Second, AskPings, OnPing, KeyUp, KeyDown, KeyGraph, Idles
<1>11. CASE \E c \in 1..MaxChains : Sample(c) \/ OnSample(c) \/ SampleTick(c)
  BY <1>11 DEF Sample, OnSample, SampleTick, Idles
<1> QED BY <1>1, <1>2, <1>3, <1>4, <1>5, <1>6, <1>7, <1>8, <1>9, <1>10, <1>11 DEF Next

LEMMA MeanwhileKeeps ==
  ASSUME MachineInv, ReadInv, CommandInv, Meanwhile
  PROVE  CommandInv'
<1>1. setup' = setup /\ Loaded' = Loaded
  BY NextOfMachine, SetupStays DEF Meanwhile
<1>2. CommandTypes /\ WorkInv /\ setup \in Setups
  BY DEF CommandInv, MachineInv
<1>3. setup.commands # {} /\ read.at = "idle" => read'.at = "idle"
  BY <1>2, IdleStays DEF Meanwhile
<1>4. CASE command = NoCommand
  <2>1. command' = NoCommand
    BY <1>4 DEF Meanwhile
  <2>2. setup.commands # {} => read'.at = "idle"
    BY <1>2, <1>3, <1>4, NoCommandIs DEF CommandTypes
  <2>3. CommandTypes'
    BY <1>1, <2>1, <2>2, NoCommandIs, EmptyIs DEF CommandTypes
  <2> QED BY <2>1, <2>3, NoCommandIs DEF CommandInv, WorkInv
<1>5. CASE command # NoCommand
  <2>1. /\ DOMAIN command' = DOMAIN command /\ command'.at = command.at
        /\ command'.typed = command.typed /\ command'.names = command.names
        /\ command'.steps = command.steps /\ command'.results = command.results
        /\ command'.exit = command.exit
        /\ command'.alone = (command.alone /\ machine' = machine)
    BY <1>2, <1>5 DEF Meanwhile, CommandTypes
  <2>2. command.at # "none"
    BY <1>2, <1>5 DEF CommandTypes
  <2>3. command'.at = "viewing" /\ command'.alone => ~read'.moved
    BY <1>2, <2>1, MovesMove DEF CommandTypes, Meanwhile
  <2>4. CommandTypes'
    BY <1>1, <1>2, <1>3, <2>1, <2>2, <2>3 DEF CommandTypes
  <2>5. ASSUME command'.alone PROVE WorkInv'
    <3>1. command.alone /\ UNCHANGED machine
      BY <2>1, <2>5
    <3>2. \A t : Satisfied(t)' <=> Satisfied(t)
      BY <1>1, <2>1, <3>1, SatisfiedStays
    <3>3. (\A t : Skipped(t)' <=> Skipped(t)) /\ (SomeFailed' <=> SomeFailed)
      BY <2>1 DEF Skipped, SomeFailed, Failed
    <3> QED BY <1>2, <2>1, <3>1, <3>2, <3>3 DEF WorkInv
  <2> QED BY <2>4, <2>5 DEF CommandInv, WorkInv
<1> QED BY <1>4, <1>5

LEMMA CallKeeps ==
  ASSUME CommandInv, Call
  PROVE  CommandInv'
<1>1. setup' = setup /\ Loaded' = Loaded
  BY SetupStays DEF Call, BeginRead, Reads
<1>2. PICK typed \in setup.commands : command' = [NoCommand EXCEPT !.at = "viewing", !.typed = typed]
  BY DEF Call
<1>3. /\ DOMAIN command' = DOMAIN NoCommand /\ command'.at = "viewing" /\ command'.typed = typed
      /\ command'.steps = <<>> /\ command'.results = <<>> /\ command'.alone = TRUE
      /\ command'.names = <<>>
  BY <1>2, NoCommandIs
<1>4. read'.moved = FALSE
  BY NoReadIs DEF Call, BeginRead
<1>5. CommandTypes'
  BY <1>1, <1>3, <1>4, NoCommandIs, EmptyIs DEF CommandTypes
<1>6. WorkInv'
  BY <1>3 DEF WorkInv
<1> QED BY <1>5, <1>6 DEF CommandInv

LEMMA TakeViewKeeps ==
  ASSUME MachineInv, ReadInv, CommandInv, TakeView
  PROVE  CommandInv'
<1>1. setup' = setup /\ Loaded' = Loaded /\ UNCHANGED machine
  BY SetupStays DEF TakeView, Stands, Quiet
<1>2. CommandTypes /\ WorkInv /\ setup \in Setups
  BY DEF CommandInv, MachineInv
<1>3. command.at = "viewing" /\ command.typed \in setup.commands /\ read' = NoRead
  BY <1>2 DEF TakeView, CommandTypes
<1>4. CASE read.at = "failed" \/ Refuses
  <2>1. /\ DOMAIN command' = DOMAIN command /\ command'.at = "over" /\ command'.exit = "failed"
        /\ command'.typed = command.typed /\ command'.alone = command.alone
        /\ command'.steps = command.steps /\ command'.results = command.results
        /\ command'.names = command.names
    BY <1>2, <1>4 DEF TakeView, CommandTypes
  <2>2. CommandTypes'
    BY <1>1, <1>2, <1>3, <2>1, NoReadIs DEF CommandTypes
  <2>3. WorkInv'
    BY <2>1 DEF WorkInv
  <2> QED BY <2>2, <2>3 DEF CommandInv
<1>5. CASE ~(read.at = "failed" \/ Refuses)
  <2>1. /\ DOMAIN command' = DOMAIN command /\ command'.at = "next"
        /\ command'.typed = command.typed /\ command'.alone = command.alone
        /\ command'.names = Names /\ command'.steps = PlanOf /\ command'.results = command.results
    BY <1>2, <1>5 DEF TakeView, CommandTypes
  <2>2. read.at = "done" /\ ~Refuses
    BY <1>5 DEF TakeView
  <2>3. Known = Range(Loaded)
    <3>1. {read.rows[i].tunnel : i \in 1..Len(read.rows)} = Range(Loaded)
      BY <2>2 DEF ReadInv, RowsAreFiles
    <3>2. Range(read.rows) = {read.rows[i] : i \in 1..Len(read.rows)}
      BY SeqElements DEF ReadInv, ReadTypes
    <3> QED BY <3>1, <3>2 DEF Known
  <2>4. IsSequence(PlanOf) /\ Range(PlanOf) \subseteq Range(Loaded)
    BY <1>2, <1>3, <2>3, PlanIs
  <2>9. /\ Range(Names) \subseteq TunnelNames
        /\ command.typed.verb = "up" => Range(Names) \subseteq Range(Loaded)
    BY <1>2, <1>3, <2>2, <2>3, NamesAre DEF Refuses
  <2>5. CommandTypes'
    BY <1>1, <1>2, <1>3, <2>1, <2>4, <2>9, NoReadIs DEF CommandTypes
  <2>6. ASSUME command.alone PROVE \A t \in Range(Names) : Satisfied(t) \/ t \in Range(PlanOf)
    <3>1. ~read.moved
      BY <1>2, <1>3, <2>6 DEF CommandTypes
    <3> QED BY <1>3, <2>2, <3>1, ReadSatisfies
  <2>7. \A t : Satisfied(t)' <=> Satisfied(t)
    BY <1>1, <2>1, SatisfiedStays
  <2>8. WorkInv'
    BY <2>1, <2>6, <2>7 DEF WorkInv
  <2> QED BY <2>5, <2>8 DEF CommandInv
<1> QED BY <1>4, <1>5

\* The frame of a step that ends: the read is idle, and stays so.
LEMMA EndsKeepsTypes ==
  ASSUME CommandInv, setup' = setup, read' = read, command.at \in {"next", "running"},
         command.steps # <<>>, NEW result, Ends(result)
  PROVE  CommandTypes'
<1>1. /\ DOMAIN command' = DOMAIN command /\ command'.at = "next"
      /\ command'.typed = command.typed /\ command'.alone = command.alone
      /\ command'.names = command.names
      /\ IsSequence(command'.steps) /\ Range(command.steps) = {Step} \cup Range(command'.steps)
      /\ IsSequence(command'.results)
  BY EndsIs DEF CommandInv
<1>2. Loaded' = Loaded
  BY SetupStays
<1>3. CommandTypes
  BY DEF CommandInv
<1> QED BY <1>1, <1>2, <1>3 DEF CommandTypes

\* A step that failed or was left out, and one that the machine stood for.
LEMMA QuietEndKeeps ==
  ASSUME CommandInv, Stands, Quiet, read' = read, command.at \in {"next", "running"},
         command.steps # <<>>, NEW what \in {"failed", "skipped"}, Ends(<<Step, what>>)
  PROVE  CommandInv'
<1>0. setup' = setup /\ UNCHANGED machine /\ CommandTypes /\ WorkInv
  BY DEF Stands, Quiet, CommandInv
<1>1. /\ command'.at = "next" /\ command'.typed = command.typed /\ command'.names = command.names
      /\ command'.alone = command.alone /\ Range(command.steps) = {Step} \cup Range(command'.steps)
      /\ Range(command'.results) = Range(command.results) \cup {<<Step, what>>}
      /\ SomeFailed \/ what = "failed" => SomeFailed'
  BY <1>0, EndsIs
<1>2. CommandTypes'
  BY <1>0, EndsKeepsTypes
<1>3. \A t : Satisfied(t)' <=> Satisfied(t)
  BY <1>0, <1>1, SatisfiedStays
<1>4. ASSUME command.alone, NEW t \in Range(command.names)
      PROVE  Satisfied(t)' \/ Skipped(t)' \/ t \in Range(command'.steps) \/ SomeFailed'
  <2>1. Satisfied(t) \/ Skipped(t) \/ t \in Range(command.steps) \/ SomeFailed
    BY <1>0, <1>4 DEF WorkInv
  <2>2. Skipped(t) => Skipped(t)'
    BY <1>1 DEF Skipped
  <2>3. t = Step => Skipped(t)' \/ SomeFailed'
    BY <1>1 DEF Skipped
  <2> QED BY <1>1, <1>3, <2>1, <2>2, <2>3
<1>5. WorkInv'
  BY <1>1, <1>4 DEF WorkInv
<1> QED BY <1>2, <1>5 DEF CommandInv

\* wg-quick has failed, and whatever it did nothing is claimed.
LEMMA FailedEndKeeps ==
  ASSUME CommandInv, Stands, read' = read, command.at = "running", Ends(<<Step, "failed">>)
  PROVE  CommandInv'
<1>0. setup' = setup /\ CommandTypes /\ command.steps # <<>>
  BY DEF Stands, CommandInv, CommandTypes
<1>1. command'.at = "next" /\ SomeFailed'
  BY <1>0, EndsIs
<1>2. CommandTypes'
  BY <1>0, EndsKeepsTypes
<1>3. WorkInv'
  BY <1>1 DEF WorkInv
<1> QED BY <1>2, <1>3 DEF CommandInv

\* wg-quick has done its step, and has undone none that was done before.
LEMMA DoneEndKeeps ==
  ASSUME MachineInv, CommandInv, Stands, read' = read, command.at = "running", Changes(Step),
         Ends(<<Step, "ok">>)
  PROVE  CommandInv'
<1>0. setup' = setup /\ CommandTypes /\ WorkInv /\ command.steps # <<>>
  BY DEF Stands, CommandInv, CommandTypes
<1>1. /\ command'.at = "next" /\ command'.typed = command.typed /\ command'.names = command.names
      /\ command'.alone = command.alone /\ Range(command.steps) = {Step} \cup Range(command'.steps)
      /\ Range(command'.results) = Range(command.results) \cup {<<Step, "ok">>}
      /\ SomeFailed => SomeFailed'
  BY <1>0, EndsIs
<1>2. CommandTypes'
  BY <1>0, EndsKeepsTypes
<1>3. PICK s : s = Step
  OBVIOUS
<1>4. s \in Range(Loaded) /\ s \in Tunnels
  BY <1>0, <1>1, <1>3, LoadedIs DEF CommandTypes
<1>5. KeysApart' <=> KeysApart
  BY <1>0, SetupStays
<1>6. command.typed.verb \in {"up", "down"}
  BY <1>0, SetupIs DEF CommandTypes, MachineInv
<1>7. ASSUME command.typed.verb = "up"
      PROVE  Satisfied(s)' /\ \A t \in Range(command.names) : t # s /\ Satisfied(t) => Satisfied(t)'
  <2>1. PICK d \in Devices : /\ carries[d] <= 0
                             /\ carries' = [carries EXCEPT ![d] = s] /\ name' = [name EXCEPT ![s] = d]
    BY <1>3, <1>7 DEF Changes, BringUp
  <2>2. /\ carries'[d] = s /\ \A e \in Devices : e # d => carries'[e] = carries[e]
        /\ \A u \in Tunnels : u # s => name'[u] = name[u]
    BY <2>1 DEF MachineInv
  <2>3. Satisfied(s)'
    BY <1>1, <1>7, <2>2 DEF Satisfied, Up
  <2>4. ASSUME NEW t \in Range(command.names), t # s, Satisfied(t) PROVE Satisfied(t)'
    <3>0. t \in Nat \ {0}
      BY <1>0 DEF CommandTypes, TunnelNames
    <3>1. CASE Up(t)
      <4>1. PICK e \in Devices : carries[e] = t
        BY <3>1 DEF Up
      <4>2. e # d
        BY <2>1, <3>0, <4>1
      <4>3. carries'[e] = t
        BY <2>2, <4>1, <4>2
      <4> QED BY <1>1, <1>7, <4>3 DEF Satisfied, Up
    <3>2. CASE setup.runDir /\ name[t] # 0 /\ carries[name[t]] # t
      BY <1>0, <1>1, <1>7, <2>1, <2>2, <2>4, <3>2 DEF Satisfied, MachineInv
    <3>3. CASE ~setup.runDir /\ ~KeysApart
      BY <1>0, <1>5, <3>3 DEF Satisfied
    <3> QED BY <1>7, <2>4, <3>1, <3>2, <3>3 DEF Satisfied
  <2> QED BY <2>3, <2>4
<1>8. ASSUME command.typed.verb = "down"
      PROVE  Satisfied(s)' /\ \A t \in Range(command.names) : t # s /\ Satisfied(t) => Satisfied(t)'
  <2>1. /\ name[s] \in Devices /\ carries[name[s]] = s
        /\ carries' = [carries EXCEPT ![name[s]] = 0]
    BY <1>3, <1>4, <1>8 DEF Changes, BringDown, MachineInv
  <2>2. \A e \in Devices : carries'[e] = IF e = name[s] THEN 0 ELSE carries[e]
    BY <2>1 DEF MachineInv
  <2>3. \A e \in Devices : carries[e] = s => e = name[s]
    BY <1>4, Numbers DEF MachineInv, Tunnels
  <2>4. \A e \in Devices : carries'[e] # s
    BY <1>4, <2>2, <2>3 DEF Tunnels
  <2>5. Satisfied(s)'
    BY <1>1, <1>8, <2>4 DEF Satisfied, Up
  <2>6. ASSUME NEW t \in Range(command.names), t # s, Satisfied(t) PROVE Satisfied(t)'
    <3>0. t # 0
      BY <1>0 DEF CommandTypes, TunnelNames
    <3>1. CASE ~Up(t)
      <4>1. \A e \in Devices : carries'[e] # t
        BY <2>2, <3>0, <3>1 DEF Up
      <4> QED BY <1>1, <1>8, <4>1 DEF Satisfied, Up
    <3>2. CASE ~setup.runDir /\ ~KeysApart
      BY <1>0, <1>5, <3>2 DEF Satisfied
    <3> QED BY <1>8, <2>6, <3>1, <3>2 DEF Satisfied
  <2> QED BY <2>5, <2>6
<1>9. ASSUME command.alone, NEW t \in Range(command.names)
      PROVE  Satisfied(t)' \/ Skipped(t)' \/ t \in Range(command'.steps) \/ SomeFailed'
  <2>1. Satisfied(t) \/ Skipped(t) \/ t \in Range(command.steps) \/ SomeFailed
    BY <1>0, <1>9 DEF WorkInv
  <2>2. Skipped(t) => Skipped(t)'
    BY <1>1 DEF Skipped
  <2> QED BY <1>1, <1>3, <1>6, <1>7, <1>8, <2>1, <2>2
<1>10. WorkInv'
  BY <1>1, <1>9 DEF WorkInv
<1> QED BY <1>2, <1>10 DEF CommandInv

LEMMA OtherStepsKeep ==
  ASSUME MachineInv, CommandInv, RunWgQuick \/ Interrupt \/ WriteResults \/ Exit
  PROVE  CommandInv'
<1>0. setup' = setup /\ read' = read /\ UNCHANGED machine /\ Loaded' = Loaded /\ CommandTypes /\ WorkInv
  BY SetupStays DEF RunWgQuick, Interrupt, WriteResults, Exit, Stands, Quiet, CommandInv
<1>1. CASE Exit
  <2>1. command' = NoCommand /\ command.at = "over"
    BY <1>1 DEF Exit
  <2>2. CommandTypes'
    BY <1>0, <2>1, NoCommandIs, EmptyIs DEF CommandTypes
  <2> QED BY <2>1, <2>2, NoCommandIs DEF CommandInv, WorkInv
<1>2. CASE RunWgQuick \/ Interrupt \/ WriteResults
  <2>1. /\ DOMAIN command' = DOMAIN command /\ command'.typed = command.typed
        /\ command'.names = command.names /\ command'.steps = command.steps
        /\ command'.results = command.results /\ command'.alone = command.alone
        /\ \/ command.at = "next" /\ command.steps # <<>> /\ command'.at = "running"
           \/ command.at \in {"viewing", "next", "running"} /\ command'.at = command.at
           \/ /\ command.at = "next" /\ command.steps = <<>> /\ command'.at = "over"
              /\ command'.exit = "ok" => \A i \in DOMAIN command.results : ~Failed(i)
    BY <1>0, <1>2 DEF RunWgQuick, Interrupt, WriteResults, CommandTypes
  <2>2. CommandTypes'
    BY <1>0, <2>1 DEF CommandTypes
  <2>3. \A t : Satisfied(t)' <=> Satisfied(t)
    BY <1>0, <2>1, SatisfiedStays
  <2>4. (\A t : Skipped(t)' <=> Skipped(t)) /\ (SomeFailed' <=> SomeFailed)
    BY <2>1 DEF Skipped, SomeFailed, Failed
  <2>6. CASE command'.at = "over"
    <3>1. /\ command.at = "next" /\ command.steps = <<>>
          /\ command'.exit = "ok" => \A i \in DOMAIN command.results : ~Failed(i)
      BY <2>1, <2>6
    <3>2. Range(command.steps) = {}
      BY <3>1, EmptyIs
    <3>3. DOMAIN command.results = 1..Len(command.results)
      BY <1>0, SeqElements DEF CommandTypes
    <3>4. command'.exit = "ok" => ~SomeFailed
      BY <3>1, <3>3 DEF SomeFailed
    <3>5. WorkInv'
      BY <1>0, <2>1, <2>3, <2>4, <2>6, <3>1, <3>2, <3>4 DEF WorkInv
    <3> QED BY <2>2, <3>5 DEF CommandInv
  <2>7. WorkInv' \/ command'.at = "over"
    BY <1>0, <2>1, <2>3, <2>4 DEF WorkInv
  <2> QED BY <2>2, <2>6, <2>7 DEF CommandInv
<1> QED BY <1>1, <1>2

LEMMA CommandKeeps ==
  ASSUME MachineInv, ReadInv, CommandInv, [CommandNext]_<<vars, command>>
  PROVE  CommandInv'
<1>1. CASE UNCHANGED <<vars, command>>
  <2>1. setup' = setup /\ UNCHANGED machine /\ read' = read /\ command' = command /\ Loaded' = Loaded
    BY <1>1, SetupStays DEF vars
  <2>2. \A t : Satisfied(t)' <=> Satisfied(t)
    BY <2>1, SatisfiedStays
  <2>3. (\A t : Skipped(t)' <=> Skipped(t)) /\ (SomeFailed' <=> SomeFailed)
    BY <2>1 DEF Skipped, SomeFailed, Failed
  <2>4. CommandTypes'
    BY <2>1 DEF CommandInv, CommandTypes
  <2>5. WorkInv'
    BY <2>1, <2>2, <2>3 DEF CommandInv, WorkInv
  <2> QED BY <2>4, <2>5 DEF CommandInv
<1>2. CASE Skip \/ RefuseToRun
  BY <1>2, QuietEndKeeps DEF Skip, RefuseToRun
<1>3. CASE WgQuickEnds
  BY <1>3, DoneEndKeeps DEF WgQuickEnds
<1>4. CASE WgQuickFails
  BY <1>4, FailedEndKeeps DEF WgQuickFails
<1> QED BY <1>1, <1>2, <1>3, <1>4, MeanwhileKeeps, CallKeeps, TakeViewKeeps, OtherStepsKeep DEF CommandNext

-----------------------------------------------------------------------------
(* The whole of it: where it starts, what every step keeps, and so what      *)
(* holds for ever, whatever the setups, the bounds and the numbers are.      *)

LEMMA Invariant == CommandSpec => []CommandInvs
<1>1. CommandInit => CommandInvs
  <2> SUFFICES ASSUME CommandInit PROVE CommandInvs
    OBVIOUS
  <2>1. Init /\ read = NoRead
    BY DEF CommandInit, Init
  <2> QED BY <2>1, MachineInit, ReadInit, ViewInit, GraphInit, CommandInvInit DEF CommandInvs
<1>2. CommandInvs /\ [CommandNext]_<<vars, command>> => CommandInvs'
  <2> SUFFICES ASSUME CommandInvs, [CommandNext]_<<vars, command>> PROVE CommandInvs'
    OBVIOUS
  <2>1. /\ MachineInv /\ ReadInv /\ ViewInv /\ GraphInv /\ CommandInv
        /\ CommandTypes
    BY DEF CommandInvs, CommandInv
  <2>2. MachineInv'
    BY <2>1, MachineKeeps
  <2>3. ReadInv'
    BY <2>1, ReadKeeps
  <2>4. ViewInv'
    BY <2>1, ViewKeeps
  <2>5. GraphInv'
    BY <2>1, GraphKeeps
  <2>6. CommandInv'
    BY <2>1, CommandKeeps
  <2> QED BY <2>2, <2>3, <2>4, <2>5, <2>6 DEF CommandInvs
<1> QED BY <1>1, <1>2, PTL DEF CommandSpec

\* The cursor is on a row of the table, the sockets, name files, counters and
\* readings are what they can be, and a round is asked for tunnels with a file,
\* in every behaviour of the machine, the interface and the commands
\* (update.go:237, 127-130).
THEOREM StateIsWellFormed == CommandSpec => []TypeOK
<1>1. CommandInvs => TypeOK
  <2> SUFFICES ASSUME CommandInvs PROVE TypeOK
    OBVIOUS
  <2>1. MachineInv /\ ReadInv /\ ViewInv /\ ChainInv
    BY DEF CommandInvs, GraphInv
  <2>2. Range(Loaded) \subseteq Tunnels
    BY LoadedIs
  <2>3. /\ setup \in Setups /\ host \in setup.hosts
        /\ carries \in [Devices -> {-1, 0} \cup Tunnels] /\ name \in [Tunnels -> {0} \cup Devices]
        /\ fresh \in [Devices -> BOOLEAN]
        /\ clock \in 0..MaxTime /\ \A t \in Tunnels : carried[t] \in 0..MaxBytes
    BY <2>1, <2>2 DEF MachineInv
  <2>4. read.at \in {"idle", "listing", "reading", "locating", "done", "failed"}
    BY <2>1 DEF ReadInv, ReadTypes
  <2>5. /\ cursor \in -1..Max({0, Len(view.rows) - 1})
        /\ round.asked \subseteq Tunnels /\ pings.made \subseteq Tunnels
    BY <2>1, <2>2 DEF ViewInv, Made, Listed
  <2>6. /\ showGraph \in BOOLEAN
        /\ \A c \in DOMAIN chain : chain[c].at \in {"off", "asked", "read", "ticking"}
    BY <2>1 DEF ChainInv
  <2> QED BY <2>3, <2>4, <2>5, <2>6 DEF TypeOK
<1> QED BY <1>1, Invariant, PTL

\* What a tunnel leads to is what the machine has of it, as long as tunnels can
\* be told apart (state.go:116-132).
LEMMA ShownIsTrue ==
  ASSUME MachineInv, TellsApart, NEW t \in Range(Loaded)
  PROVE  Health(Shown(t)) = Truth(t) /\ Shown(t).owner \in {0, t}
<1>1. t \in Tunnels /\ t # 0 /\ t > 0
  BY LoadedIs DEF Tunnels
<1>2. \A d \in Devices : d # 0 /\ (carries[d] = t => name[t] = d)
  BY <1>1 DEF MachineInv, Devices
<1>3. NoPeer.owner = 0
  BY DEF NoPeer
<1>4. CASE name[t] # 0 /\ carries[name[t]] = t
  <2>1. PICK d : d = name[t]
    OBVIOUS
  <2>2. d \in Devices /\ carries[d] = t
    BY <1>1, <1>4, <2>1 DEF MachineInv
  <2>3. Shown(t) = PeerOf(d)
    BY <1>1, <1>4, <2>1 DEF Shown
  <2>4. PeerOf(d).owner = t /\ PeerOf(d).fresh = fresh[d]
    BY <2>2 DEF PeerOf
  <2>5. (CHOOSE e \in Devices : carries[e] = t) = d
    BY <1>2, <2>1, <2>2
  <2>6. Up(t)
    BY <2>2 DEF Up
  <2>7. PeerOf(d) # NoPeer
    BY <1>1, <1>3, <2>4
  <2> QED BY <2>3, <2>4, <2>5, <2>6, <2>7 DEF Health, Truth
<1>5. CASE ~(name[t] # 0 /\ carries[name[t]] = t)
  <2>1. ~Up(t)
    BY <1>2, <1>5 DEF Up
  <2>2. Shown(t) = NoPeer
    BY <1>1, <1>5 DEF Shown, TellsApart
  <2> QED BY <1>3, <2>1, <2>2 DEF Health, Truth
<1> QED BY <1>4, <1>5

\* A read nothing moved under fails for a file, a rule or a socket and for
\* nothing else; one that does not fail has every tunnel once, and when tunnels
\* can be told apart each of its rows says what the machine has - for any number
\* of files and interfaces, any of the sockets refusing, and wg-quick, the network
\* and the handshakes free to move between any two of its calls (app.go:127-162,
\* state.go:116-132).
THEOREM RowsSayWhatIs == CommandSpec => []ReadIsTheMachine
<1>1. CommandInvs => ReadIsTheMachine
  <2> SUFFICES ASSUME CommandInvs PROVE ReadIsTheMachine
    OBVIOUS
  <2>1. MachineInv /\ ReadTypes /\ RowsAreFiles /\ (~read.moved => StillTrue) /\ setup \in Setups
    BY DEF CommandInvs, ReadInv, MachineInv
  <2>2. read.at = "failed" /\ ~read.moved => Broken \/ read.refused
    BY <2>1 DEF StillTrue
  <2>3. ASSUME read.at = "done", ~read.moved PROVE ~Broken
    <3>1. ~LoadFails(setup.files)
      BY <2>1, <2>3 DEF ReadTypes
    <3>2. -1 \notin Range(carries) /\ Detected # "failed"
      BY <2>1, <2>3 DEF StillTrue
    <3> QED BY <2>1, <3>1, <3>2, LoadFailsIs DEF Broken
  <2>4. ASSUME read.at = "done"
        PROVE  Len(read.rows) = Cardinality({f \in DOMAIN setup.files : ValidName(f)})
    BY <2>1, <2>4, LoadedIs DEF RowsAreFiles
  <2>5. ASSUME read.at = "done", ~read.moved, TellsApart, NEW i \in DOMAIN read.rows
        PROVE  /\ read.rows[i].health = Truth(read.rows[i].tunnel)
               /\ read.rows[i].peer.owner \in {0, read.rows[i].tunnel}
    <3>1. i \in 1..Len(read.rows)
      BY <2>1, <2>5, SeqElements DEF ReadTypes
    <3>2. PICK row : row = read.rows[i]
      OBVIOUS
    <3>3. row.tunnel \in Range(Loaded)
      BY <2>1, <2>5, <3>1, <3>2 DEF RowsAreFiles
    <3>4. setup.runDir \/ KeysApart
      BY <2>5 DEF TellsApart, KeysApart
    <3>5. row.health = Health(row.peer) /\ row.peer = Shown(row.tunnel)
      BY <2>1, <2>5, <3>1, <3>2, <3>4 DEF StillTrue, RowsAreShown
    <3> QED BY <2>1, <2>5, <3>2, <3>3, <3>5, ShownIsTrue
  <2> QED BY <2>2, <2>3, <2>4, <2>5 DEF ReadIsTheMachine
<1> QED BY <1>1, Invariant, PTL

\* Who GroupOf puts in a group is who Members lists for it (profile.go:336-384).
LEMMA MembersAreGrouped ==
  ASSUME setup \in Setups, NEW g \in DOMAIN setup.groups \ {"all", ""}, NEW t, NEW context
  PROVE  t \in Range(Members(g, context)) <=> g \in GroupsOf(t, context)
<1>1. t \in Range(Members(g, context)) <=>
        \/ t \in Range(Listing(g)) /\ Overriding(t) = {}
        \/ Overriding(t) # {} /\ g \in GroupsOf(t, context)
  BY MembersAre
<1>2. ASSUME Overriding(t) = {} PROVE t \in Range(Listing(g)) <=> g \in GroupsOf(t, context)
  <2>1. Listing(g) = setup.groups[g] /\ setup.groups[g] \in Seq(TunnelNames)
    BY SetupIs DEF Listing
  <2>2. PICK listed : listed = setup.groups[g]
    OBVIOUS
  <2>3. Range(listed) = {listed[i] : i \in 1..Len(listed)}
    <3>1. listed \in Seq(TunnelNames)
      BY <2>1, <2>2
    <3>2. IsSequence(listed)
      BY <3>1, SeqIs
    <3> QED BY <3>2, SeqElements
  <2>4. t \in Range(listed) <=> Contains(listed, t)
    BY <2>3 DEF Contains
  <2>5. g \in {h \in DOMAIN setup.groups \ {"all"} : Contains(setup.groups[h], t)} <=> Contains(listed, t)
    BY <2>2
  <2> QED BY <1>2, <2>1, <2>2, <2>4, <2>5 DEF GroupsOf
<1> QED BY <1>1, <1>2

LEMMA GroupsAreFinite ==
  ASSUME setup \in Setups, NEW t, NEW context, Cardinality(GroupsOf(t, context)) = 1
  PROVE  \E g : GroupsOf(t, context) = {g}
<1> DEFINE in == {g \in DOMAIN setup.groups \ {"all"} : Contains(setup.groups[g], t)}
<1>1. IsFiniteSet(DOMAIN setup.groups)
  BY SetupAssumption
<1>2. CASE Overriding(t) # {}
  BY <1>2 DEF GroupsOf
<1>3. CASE Overriding(t) = {}
  <2>1. GroupsOf(t, context) = IF in = {} THEN {""} ELSE in
    BY <1>3 DEF GroupsOf
  <2>2. in \in SUBSET DOMAIN setup.groups
    OBVIOUS
  <2> HIDE DEF in
  <2>3. IsFiniteSet(in)
    BY <1>1, <2>2, FS_Subset
  <2> QED BY <2>1, <2>3, FS_Singleton
<1> QED BY <1>2, <1>3

\* What the GRP column says and what "up needed" and the n key start is the same
\* set, for every list of groups and of overrides that puts a tunnel in one group
\* (profile.go:336-384, model.go:305-310).
THEOREM GroupsAgree == CommandSpec => []GroupsAreMembers
<1>1. CommandInvs => GroupsAreMembers
  <2> SUFFICES ASSUME CommandInvs,
                      \A t \in Range(Loaded) : Cardinality(GroupsOf(t, view.context)) = 1,
                      NEW g \in DOMAIN setup.groups \ {"all", ""}
               PROVE  {view.rows[i].tunnel : i \in {j \in DOMAIN view.rows : view.rows[j].group = g}}
                          = Range(Members(g, view.context)) \cap Listed(view)
    BY DEF GroupsAreMembers
  <2>1. setup \in Setups /\ Made(view)
    BY DEF CommandInvs, MachineInv, ViewInv
  <2>2. \A t : t \in Range(Members(g, view.context)) <=> g \in GroupsOf(t, view.context)
    BY <2>1, MembersAreGrouped
  <2>3. ASSUME NEW i \in DOMAIN view.rows
        PROVE  view.rows[i].group = g <=> g \in GroupsOf(view.rows[i].tunnel, view.context)
    <3>1. PICK t, h : t = view.rows[i].tunnel /\ h = view.rows[i].group
      OBVIOUS
    <3>2. t \in Range(Loaded) /\ h \in GroupsOf(t, view.context)
      BY <2>1, <3>1 DEF Made
    <3>3. PICK only : GroupsOf(t, view.context) = {only}
      BY <2>1, <3>2, GroupsAreFinite
    <3> QED BY <3>1, <3>2, <3>3
  <2> QED BY <2>2, <2>3 DEF Listed
<1> QED BY <1>1, Invariant, PTL

\* A round of probes answers for every tunnel it was asked for, one that went
\* down meanwhile too, and for none whose address no live tunnel had when it was
\* asked; where no two tunnels share an address, for nobody else than those it
\* was asked for.  That holds for any table, and whatever is read between the
\* question and the answer (model.go:206-218, app.go:70-83).
THEOREM RoundsAnswer == CommandSpec => []PingsAreExcused
<1>1. CommandInvs => PingsAreExcused
  <2> SUFFICES ASSUME CommandInvs PROVE PingsAreExcused
    OBVIOUS
  <2>1. /\ pings.asked \subseteq pings.made /\ pings.made \subseteq Range(Loaded)
        /\ \A t \in pings.made : /\ Conf(t).check \in pings.hosts
                                /\ \E u \in pings.asked : Conf(t).check = Conf(u).check
    BY DEF CommandInvs, ViewInv
  <2>2. ASSUME \A t, u \in Range(Loaded) : t # u => Conf(t).check # Conf(u).check
        PROVE  pings.made = pings.asked
    <3>1. ASSUME NEW t \in pings.made PROVE t \in pings.asked
      <4>1. PICK u \in pings.asked : Conf(t).check = Conf(u).check
        BY <2>1, <3>1
      <4> QED BY <2>1, <2>2, <3>1, <4>1
    <3> QED BY <2>1, <3>1
  <2> QED BY <2>1, <2>2 DEF PingsAreExcused
<1> QED BY <1>1, Invariant, PTL

\* An open graph pane has a reading on its way or a tick to come, whatever was
\* closed, reopened or down before (update.go:50-55, 156-166, 255-264).
THEOREM OpenPaneIsFed == CommandSpec => []GraphIsFed
<1>1. CommandInvs => GraphIsFed
  BY DEF CommandInvs, GraphInv
<1> QED BY <1>1, Invariant, PTL

\* No point of the graph shows more than the tunnel carried between its two
\* readings, however many chains of readings overlap and however often the
\* tunnel was restarted in between (rate.go:42-68, update.go:156-181).
THEOREM PointsAreEarned == CommandSpec => []RateIsEarned
<1>1. CommandInvs => RateIsEarned
  BY DEF CommandInvs, GraphInv
<1> QED BY <1>1, Invariant, PTL

\* A command that exits 0, and that nothing came across, has done what it was
\* asked, whatever the names, the group and the overrides of it, the steps it
\* met and the interrupts it heard (main.go:790-858, app.go:175-229,
\* results.go:12-47, control.go:62-96).
THEOREM ZeroMeansDone == CommandSpec => []SuccessIsTrue
<1>1. CommandInvs => SuccessIsTrue
  <2> SUFFICES ASSUME CommandInvs, command.at = "over", command.exit = "ok", command.alone, TellsApart,
                      NEW t \in Range(command.names)
               PROVE  \/ command.typed.verb = "down" /\ ~Up(t)
                      \/ command.typed.verb = "up" /\ Up(t)
                      \/ <<t, "skipped">> \in Range(command.results)
    BY DEF SuccessIsTrue
  <2>1. CommandTypes /\ WorkInv
    BY DEF CommandInvs, CommandInv
  <2>2. Satisfied(t) \/ Skipped(t)
    BY <2>1 DEF WorkInv
  <2>3. ASSUME command.typed.verb = "up", setup.runDir, name[t] # 0, carries[name[t]] # t PROVE FALSE
    <3>1. t \in Tunnels
      BY <2>1, <2>3, LoadedIs DEF CommandTypes
    <3> QED BY <2>3, <3>1 DEF TellsApart
  <2>4. ASSUME ~setup.runDir, ~KeysApart PROVE FALSE
    BY <2>4 DEF TellsApart, KeysApart
  <2> QED BY <2>2, <2>3, <2>4 DEF Satisfied, Skipped
<1> QED BY <1>1, Invariant, PTL
=============================================================================
