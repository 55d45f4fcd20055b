-------------------------- MODULE ElfObjectProofs --------------------------
(***************************************************************************)
(* Lemmas about the object model, numbers, lists and sequences, which the  *)
(* proofs about the linker, object files and the assembler cite.           *)
(***************************************************************************)
EXTENDS ElfObject, SequenceTheorems, WellFoundedInduction, TLAPS

(* A function on 1..n is a sequence of length n. *)
LEMMA FunctionIsSeq ==
  ASSUME NEW S, NEW n \in Nat, NEW f \in [1..n -> S]
  PROVE  f \in Seq(S) /\ Len(f) = n
<1>1. f \in Seq(S)
  BY SeqDef
<1>2. f \in [1..Len(f) -> S] /\ Len(f) \in Nat
  BY <1>1, LenProperties
<1> QED
  BY <1>1, <1>2

(* A non-empty set of natural numbers has a least element.                 *)
LEMMA LeastExists ==
  ASSUME NEW S \in SUBSET Nat, S # {}
  PROVE  \E x \in S : \A y \in S : x <= y
<1> DEFINE Less == {p \in Nat \X Nat : p[1] < p[2]}
<1>1. IsWellFoundedOn(Less, Nat)
  BY NatLessThanWellFounded, Zenon DEF OpToRel
<1>2. PICK x \in S : \A y \in S : ~ (<<y, x>> \in Less)
  <2> HIDE DEF Less
  <2> QED
    BY <1>1, WFMin
<1>3. ASSUME NEW y \in S PROVE x <= y
  <2>1. x \in Nat /\ y \in Nat
    OBVIOUS
  <2>2. y < x => <<y, x>> \in Less
    BY <2>1
  <2> QED
    BY <1>2, <2>1, <2>2
<1> QED
  BY <1>3

(* First picks the least index of a set that has one, and NULL otherwise.  *)
LEMMA FirstIsLeast ==
  ASSUME NEW S \in SUBSET (Nat \ {0})
  PROVE  /\ S = {} => First(S) = 0
         /\ S # {} => First(S) \in S /\ \A x \in S : First(S) <= x
<1>1. CASE S = {}
  BY <1>1 DEF First
<1>2. CASE S # {}
  <2>1. \E x \in S : \A y \in S : x <= y
    BY <1>2, LeastExists
  <2>2. First(S) = CHOOSE z \in S : \A y \in S : z <= y
    BY <1>2 DEF First, Min
  <2> QED
    BY <1>2, <2>1, <2>2
<1> QED
  BY <1>1, <1>2

(* What Object says of the two lists that make up an object. *)
LEMMA ObjectParts ==
  ASSUME NEW Names, NEW ss, NEW ys
  PROVE  [secs |-> ss, syms |-> ys] \in Object(Names) <=>
           /\ ss \in Seq(Section(Names))
           /\ ys \in Seq(Symbol(Names))
           /\ \A j \in DOMAIN ys : ys[j].sec \in 0..Len(ss)
           /\ \A d \in DOMAIN ss : \A q \in DOMAIN ss[d].relas :
                 ss[d].relas[q].sym \in 0..Len(ys)
BY DEF Object

(* An object stays one when a section gets an address.                      *)
LEMMA AddressKeepsObject ==
  ASSUME NEW Names, NEW ss, NEW ys, [secs |-> ss, syms |-> ys] \in Object(Names),
         NEW d \in DOMAIN ss, NEW v \in Nat,
         NEW new, new = [ss EXCEPT ![d].addr = v]
  PROVE  /\ [secs |-> new, syms |-> ys] \in Object(Names)
         /\ Len(new) = Len(ss) /\ DOMAIN new = DOMAIN ss
         /\ new[d].addr = v
         /\ \A e \in DOMAIN ss :
              /\ new[e].relas = ss[e].relas /\ new[e].name = ss[e].name
              /\ new[e].alloc = ss[e].alloc /\ new[e].data = ss[e].data
              /\ e # d => new[e] = ss[e]
<1>1. ss \in Seq(Section(Names)) /\ ss[d] \in Section(Names)
  BY ObjectParts
<1>2. /\ Len(new) = Len(ss) /\ DOMAIN new = DOMAIN ss
      /\ new[d] = [ss[d] EXCEPT !.addr = v]
      /\ \A e \in DOMAIN ss : e # d => new[e] = ss[e]
  BY <1>1
<1>3. /\ new[d] \in Section(Names)
      /\ new[d].addr = v
      /\ new[d].relas = ss[d].relas /\ new[d].name = ss[d].name
      /\ new[d].alloc = ss[d].alloc /\ new[d].data = ss[d].data
  BY <1>1, <1>2 DEF Section
<1>4. \A e \in DOMAIN ss :
        /\ new[e] \in Section(Names)
        /\ new[e].relas = ss[e].relas /\ new[e].name = ss[e].name
        /\ new[e].alloc = ss[e].alloc /\ new[e].data = ss[e].data
  BY <1>1, <1>2, <1>3
<1>5. new \in Seq(Section(Names))
  BY <1>1, <1>2, <1>4
<1>6. /\ \A j \in DOMAIN ys : ys[j].sec \in 0..Len(ss)
      /\ \A e \in DOMAIN ss : \A q \in DOMAIN ss[e].relas :
            ss[e].relas[q].sym \in 0..Len(ys)
  BY ObjectParts
<1>7. ys \in Seq(Symbol(Names))
  BY ObjectParts
<1>8. [secs |-> new, syms |-> ys] \in Object(Names)
  BY <1>2, <1>4, <1>5, <1>6, <1>7, ObjectParts
<1> QED
  BY <1>2, <1>3, <1>4, <1>8

(* An object stays one when a section gets other contents.                 *)
LEMMA ContentsKeepObject ==
  ASSUME NEW Names, NEW ss, NEW ys, [secs |-> ss, syms |-> ys] \in Object(Names),
         NEW d \in DOMAIN ss, NEW v \in Seq(Seq(Nat)),
         NEW new, new = [ss EXCEPT ![d].data = v]
  PROVE  /\ [secs |-> new, syms |-> ys] \in Object(Names)
         /\ Len(new) = Len(ss) /\ DOMAIN new = DOMAIN ss
         /\ new[d].data = v
         /\ \A e \in DOMAIN ss :
              /\ new[e].relas = ss[e].relas /\ new[e].name = ss[e].name
              /\ new[e].alloc = ss[e].alloc /\ new[e].addr = ss[e].addr
              /\ e # d => new[e] = ss[e]
<1>1. ss \in Seq(Section(Names)) /\ ss[d] \in Section(Names)
  BY ObjectParts
<1>2. /\ Len(new) = Len(ss) /\ DOMAIN new = DOMAIN ss
      /\ new[d] = [ss[d] EXCEPT !.data = v]
      /\ \A e \in DOMAIN ss : e # d => new[e] = ss[e]
  BY <1>1
<1>3. /\ new[d] \in Section(Names)
      /\ new[d].data = v
      /\ new[d].relas = ss[d].relas /\ new[d].name = ss[d].name
      /\ new[d].alloc = ss[d].alloc /\ new[d].addr = ss[d].addr
  BY <1>1, <1>2 DEF Section
<1>4. \A e \in DOMAIN ss :
        /\ new[e] \in Section(Names)
        /\ new[e].relas = ss[e].relas /\ new[e].name = ss[e].name
        /\ new[e].alloc = ss[e].alloc /\ new[e].addr = ss[e].addr
  BY <1>1, <1>2, <1>3
<1>5. new \in Seq(Section(Names))
  BY <1>1, <1>2, <1>4
<1>6. /\ \A j \in DOMAIN ys : ys[j].sec \in 0..Len(ss)
      /\ \A e \in DOMAIN ss : \A q \in DOMAIN ss[e].relas :
            ss[e].relas[q].sym \in 0..Len(ys)
  BY ObjectParts
<1>7. ys \in Seq(Symbol(Names))
  BY ObjectParts
<1>8. [secs |-> new, syms |-> ys] \in Object(Names)
  BY <1>2, <1>4, <1>5, <1>6, <1>7, ObjectParts
<1> QED
  BY <1>2, <1>3, <1>4, <1>8

(* Elf_SectionFind returns the first section of a name, or NULL.           *)
LEMMA SectionFindIsFirst ==
  ASSUME NEW T, NEW ss \in Seq(T), NEW name
  PROVE  /\ SectionFind(ss, name) \in 0..Len(ss)
         /\ SectionFind(ss, name) # 0 => ss[SectionFind(ss, name)].name = name
         /\ \A d \in DOMAIN ss : ss[d].name = name =>
               SectionFind(ss, name) # 0 /\ SectionFind(ss, name) <= d
<1> DEFINE hits == {d \in DOMAIN ss : ss[d].name = name}
<1>1. hits \in SUBSET (Nat \ {0})
  OBVIOUS
<1>2. SectionFind(ss, name) = First(hits)
  BY DEF SectionFind
<1>3. /\ \A d \in hits : d \in 1..Len(ss) /\ ss[d].name = name
      /\ \A d \in DOMAIN ss : ss[d].name = name => d \in hits
  OBVIOUS
<1>4. CASE hits = {}
  BY <1>1, <1>2, <1>4, FirstIsLeast
<1>5. CASE hits # {}
  <2> HIDE DEF hits
  <2>1. First(hits) \in hits /\ \A x \in hits : First(hits) <= x
    BY <1>1, <1>5, FirstIsLeast
  <2>2. First(hits) # 0 /\ Len(ss) \in Nat
    BY <1>1, <2>1
  <2> QED
    BY <1>2, <1>3, <2>1, <2>2
<1> QED
  BY <1>4, <1>5

(* Elf_SectionGet keeps every section, and makes an empty one when there   *)
(* is none of the name.                                                    *)
LEMMA SectionGetExtends ==
  ASSUME NEW Names, NEW ss \in Seq(Section(Names)), NEW name \in Names, NEW alloc \in BOOLEAN,
         NEW got, got = SectionGet(ss, name, alloc),
         NEW d, d = SectionFind(got, name)
  PROVE  /\ got \in Seq(Section(Names)) /\ d \in 1..Len(got)
         /\ got[d].name = name
         /\ Len(ss) <= Len(got)
         /\ \A e \in 1..Len(ss) : got[e] = ss[e]
         /\ \A e \in 1..Len(got) : e \notin 1..Len(ss) =>
               /\ got[e].data = << >> /\ got[e].relas = << >>
               /\ e = Len(ss) + 1 /\ e = d
         /\ got # ss => \A e \in 1..Len(ss) : ss[e].name # name
<1> DEFINE new == NewSection(name, alloc)
<1>1. new \in Section(Names) /\ new.name = name /\ new.data = << >> /\ new.relas = << >>
  BY DEF NewSection, Section
<1>2. CASE SectionFind(ss, name) # 0
  <2>1. got = ss
    BY <1>2 DEF SectionGet
  <2> QED
    BY <1>2, <2>1, SectionFindIsFirst
<1>3. CASE SectionFind(ss, name) = 0
  <2>1. got = Append(ss, new)
    BY <1>3 DEF SectionGet
  <2> HIDE DEF new
  <2>2. /\ got \in Seq(Section(Names)) /\ Len(got) = Len(ss) + 1
        /\ \A e \in 1..Len(ss) : got[e] = ss[e]
        /\ got[Len(ss) + 1] = new
    BY <1>1, <2>1, AppendProperties
  <2>3. \A e \in 1..Len(ss) : ss[e].name # name
    BY <1>3, SectionFindIsFirst
  <2>4. /\ d \in 0..Len(got)
        /\ d # 0 => got[d].name = name
        /\ \A e \in DOMAIN got : got[e].name = name => d # 0 /\ d <= e
    BY <2>2, SectionFindIsFirst
  <2>5. Len(ss) \in Nat
    OBVIOUS
  <2>6. d = Len(ss) + 1
    BY <1>1, <2>2, <2>3, <2>4, <2>5
  <2> QED
    BY <1>1, <2>2, <2>3, <2>4, <2>5, <2>6
<1> QED
  BY <1>2, <1>3

(* Products keep order. *)
LEMMA ProductOrder ==
  ASSUME NEW n \in Nat, NEW a \in Int, NEW c \in Int, a + 1 <= c
  PROVE  n * a + n <= n * c
<1>1. n * (c - a - 1) >= 0
  OBVIOUS
<1>2. n * (c - a - 1) = n * c - n * a - n
  OBVIOUS
<1>3. n * c \in Int /\ n * a \in Int
  OBVIOUS
<1> QED
  BY <1>1, <1>2, <1>3

(* Quotient and remainder are the only ones there are. *)
LEMMA RemainderIsUnique ==
  ASSUME NEW n \in Nat, n > 0, NEW q \in Int, NEW z \in 0..(n - 1), NEW x \in Int, x = n * q + z
  PROVE  x % n = z /\ x \div n = q
<1> DEFINE p == x \div n
           y == x % n
<1>1. p \in Int /\ y \in 0..(n - 1) /\ x = n * p + y
  OBVIOUS
<1> HIDE DEF p, y
<1>2. n * p \in Int /\ n * q \in Int
  BY <1>1
<1>3. ~(p + 1 <= q)
  BY <1>1, <1>2, ProductOrder
<1>4. ~(q + 1 <= p)
  BY <1>1, <1>2, ProductOrder
<1>5. p = q
  BY <1>1, <1>3, <1>4
<1>6. y = z
  BY <1>1, <1>2, <1>5
<1> QED
  BY <1>5, <1>6 DEF p, y

(* A number below the divisor is its own remainder. *)
LEMMA SmallRemainder ==
  ASSUME NEW n \in Nat, NEW x \in 0..(n - 1)
  PROVE  x % n = x
<1>1. n > 0 /\ x \in Int /\ x = n * 0 + x
  OBVIOUS
<1> QED
  BY <1>1, RemainderIsUnique

(* A number's remainder gains one digit with each digit it is taken of. *)
LEMMA OneDigitMore ==
  ASSUME NEW b \in Nat, b > 0, NEW m \in Nat, m > 0, NEW x \in Int
  PROVE  x % (b * m) = (x % m) + ((x \div m) % b) * m
<1> DEFINE q == x \div m
           s == x % m
           p == q \div b
           t == q % b
<1>1. q \in Int /\ s \in 0..(m - 1) /\ x = m * q + s
  OBVIOUS
<1>2. p \in Int /\ t \in 0..(b - 1) /\ q = b * p + t
  BY <1>1
<1> HIDE DEF q, s, p, t
<1>3. m * q = (b * m) * p + t * m
  <2>1. m * (b * p + t) = (b * m) * p + t * m
    BY <1>2
  <2> QED
    BY <1>2, <2>1
<1>4. t * m + s \in 0..(b * m - 1)
  <2>1. m * t + m <= m * b
    BY <1>2, ProductOrder
  <2>2. t * m = m * t /\ m * b = b * m /\ t * m \in Nat /\ b * m \in Nat
    BY <1>2
  <2> QED
    BY <1>1, <2>1, <2>2
<1>5. b * m \in Nat /\ b * m > 0 /\ (b * m) * p \in Int /\ t * m \in Int
  BY <1>2
<1>6. x = (b * m) * p + (t * m + s)
  BY <1>1, <1>3, <1>5
<1>7. x % (b * m) = t * m + s
  <2> DEFINE n == b * m
             z == t * m + s
  <2>1. n \in Nat /\ n > 0 /\ z \in 0..(n - 1) /\ x = n * p + z
    BY <1>4, <1>5, <1>6
  <2> HIDE DEF n, z
  <2>2. x % n = z
    BY <1>2, <2>1, RemainderIsUnique
  <2> QED
    BY <2>2 DEF n, z
<1>8. t * m + s = s + t * m
  BY <1>1, <1>5
<1> QED
  BY <1>7, <1>8 DEF q, s, p, t

(* The value read from a field is what its relocation asked for, if that   *)
(* fits: as it is in an unsigned field, and with its sign in a signed one. *)
LEMMA HeldIsExact ==
  ASSUME NEW m \in Nat \ {0}, NEW x \in Int, NEW held, held = x % m
  PROVE  /\ x \in (-(m \div 2))..((m \div 2) - 1) =>
              (IF 2 * held >= m THEN held - m ELSE held) = x
         /\ x \in 0..(2 * (m \div 2) - 1) => held = x
<1> DEFINE half == m \div 2
<1>1. half \in Nat /\ 2 * half <= m /\ m <= 2 * half + 1
  OBVIOUS
<1> HIDE DEF half
<1>2. ASSUME x \in 0..(m - 1)
      PROVE  held = x
  BY <1>2, SmallRemainder
<1>3. ASSUME x < 0, x + m >= 0
      PROVE  held = x + m
  <2>1. x + m \in 0..(m - 1) /\ x = m * (-1) + (x + m) /\ m \in Nat /\ m > 0 /\ -1 \in Int
    BY <1>3
  <2> QED
    BY <2>1, RemainderIsUnique
<1>4. x \in (-half)..(half - 1) => (IF 2 * held >= m THEN held - m ELSE held) = x
  <2> SUFFICES ASSUME x \in (-half)..(half - 1)
               PROVE  (IF 2 * held >= m THEN held - m ELSE held) = x
    OBVIOUS
  <2>1. CASE x >= 0
    <3>1. held = x
      BY <1>1, <1>2, <2>1
    <3> QED
      BY <1>1, <2>1, <3>1
  <2>2. CASE x < 0
    <3>1. held = x + m
      BY <1>1, <1>3, <2>2
    <3> QED
      BY <1>1, <2>2, <3>1
  <2> QED
    BY <2>1, <2>2
<1>5. x \in 0..(2 * half - 1) => held = x
  BY <1>1, <1>2
<1> QED
  BY <1>4, <1>5 DEF half

LEMMA MultipleHasNoRest ==
  ASSUME NEW m \in Nat, NEW a \in Nat \ {0}
  PROVE  (a * m) % a = 0
BY SMTT(30)

(* The padding of Buf_Align brings a length up to a multiple.              *)
LEMMA PaddingAligns ==
  ASSUME NEW n \in Nat, NEW a \in Nat
  PROVE  /\ Padding(n, a) \in Nat
         /\ a > 1 => (n + Padding(n, a)) % a = 0
<1>1. CASE a > 1
  <2> DEFINE p == (-n) % a
             q == (-n) \div a
  <2>1. p \in Nat /\ q \in Int /\ -n = a * q + p
    BY <1>1, SMTT(30)
  <2>2. n + p = a * (-q)
    BY <1>1, <2>1, SMTT(30)
  <2>3. -q \in Nat
    BY <1>1, <2>1, <2>2, SMTT(30)
  <2>4. (a * (-q)) % a = 0
    BY <1>1, <2>3, MultipleHasNoRest
  <2>5. Padding(n, a) = p
    BY <1>1 DEF Padding
  <2> HIDE DEF p, q
  <2> QED
    BY <2>1, <2>2, <2>4, <2>5
<1>2. CASE ~ (a > 1)
  BY <1>2 DEF Padding
<1> QED
  BY <1>1, <1>2

(* Buf_Align keeps the bytes there are and appends zeros.                  *)
LEMMA BufAlignExtends ==
  ASSUME NEW data \in Seq(Seq(Nat)), NEW a \in Nat, NEW room, room = BufAlign(data, a)
  PROVE  /\ room \in Seq(Seq(Nat)) /\ Len(room) >= Len(data)
         /\ \A j \in 1..Len(data) : room[j] = data[j]
         /\ a > 1 => Len(room) % a = 0
<1> DEFINE n == Padding(Len(data), a)
<1>1. Len(data) \in Nat
  OBVIOUS
<1>2. n \in Nat /\ (a > 1 => (Len(data) + n) % a = 0)
  BY <1>1, PaddingAligns
<1>3. Zeros(n) \in Seq(Seq(Nat)) /\ Len(Zeros(n)) = n
  <2>1. \A j \in 1..n : Byte(0) \in Seq(Nat)
    BY DEF Byte
  <2> HIDE DEF n
  <2>2. Zeros(n) \in [1..n -> Seq(Nat)]
    BY <2>1 DEF Zeros
  <2> QED
    BY <1>2, <2>2, FunctionIsSeq
<1>4. room = data \o Zeros(n)
  BY DEF BufAlign
<1> HIDE DEF n
<1>5. /\ room \in Seq(Seq(Nat)) /\ Len(room) = Len(data) + n
      /\ \A j \in 1..Len(data) : room[j] = data[j]
  <2>1. /\ data \o Zeros(n) \in Seq(Seq(Nat))
        /\ Len(data \o Zeros(n)) = Len(data) + Len(Zeros(n))
        /\ \A j \in 1..(Len(data) + Len(Zeros(n))) :
             (data \o Zeros(n))[j] = IF j <= Len(data) THEN data[j] ELSE Zeros(n)[j - Len(data)]
    BY <1>3, ConcatProperties
  <2> QED
    BY <1>1, <1>2, <1>3, <1>4, <2>1
<1> QED
  BY <1>1, <1>2, <1>5

(* A multiple of the divisor does not change the remainder. *)
LEMMA RemainderOfRemainder ==
  ASSUME NEW m \in Nat \ {0}, NEW b \in Nat \ {0}, NEW x \in Int, NEW c \in Int
  PROVE  ((x % (b * m)) - c) % m = (x - c) % m
<1> DEFINE q == (x - c) \div m
           z == (x - c) % m
           k == b * m
           p == x \div k
           y == x % k
<1>1. q \in Int /\ z \in 0..(m - 1) /\ x - c = m * q + z
  OBVIOUS
<1>2. k \in Nat /\ k > 0
  OBVIOUS
<1>3. p \in Int /\ y \in 0..(k - 1) /\ x = k * p + y
  <2> HIDE DEF k
  <2> QED
    BY <1>2
<1> HIDE DEF q, z, p, y
<1>4. PICK r \in Int : r = q - b * p
  BY <1>1, <1>3
<1>5. m * r = m * q - k * p
  BY <1>1, <1>3, <1>4
<1>6. y - c = m * r + z /\ y - c \in Int
  BY <1>1, <1>2, <1>3, <1>5
<1>7. (y - c) % m = z
  BY <1>1, <1>4, <1>6, RemainderIsUnique
<1> QED
  BY <1>7 DEF y, z, k

-----------------------------------------------------------------------------
(* Lists.                                                                  *)

(* A list of whatever it is a list of. *)
IsList(s) == s \in Seq({s[j] : j \in DOMAIN s})

(* The domain of a list is its positions. *)
LEMMA ListProperties ==
  ASSUME NEW s, IsList(s)
  PROVE  Len(s) \in Nat /\ DOMAIN s = 1..Len(s)
BY DEF IsList

(* A sequence is a list. *)
LEMMA SeqIsList ==
  ASSUME NEW T, NEW s \in Seq(T)
  PROVE  IsList(s)
<1>1. Len(s) \in Nat /\ DOMAIN s = 1..Len(s) /\ s \in [1..Len(s) -> T]
  OBVIOUS
<1>2. s \in [1..Len(s) -> {s[j] : j \in DOMAIN s}]
  BY <1>1
<1> QED
  BY <1>1, <1>2, SeqDef DEF IsList

(* The empty list has no positions. *)
LEMMA EmptyIsList == IsList(<< >>) /\ Len(<< >>) = 0 /\ DOMAIN << >> = {}
<1>1. << >> \in Seq({})
  BY EmptySeq, Zenon
<1>2. IsList(<< >>)
  BY <1>1, SeqIsList, Zenon
<1>3. Len(<< >>) = 0 /\ DOMAIN << >> = {}
  OBVIOUS
<1> QED
  BY <1>2, <1>3

(* Appending adds one position and keeps the others. *)
LEMMA AppendIsList ==
  ASSUME NEW s, IsList(s), NEW x
  PROVE  LET t == Append(s, x)
         IN /\ IsList(t) /\ Len(t) = Len(s) + 1 /\ DOMAIN t = (DOMAIN s) \union {Len(t)}
            /\ t[Len(t)] = x
            /\ \A j \in DOMAIN s : t[j] = s[j]
            /\ \A j \in DOMAIN t : j < Len(t) => j \in DOMAIN s
<1>0. PICK t : t = Append(s, x)
  OBVIOUS
<1> DEFINE T == {s[j] : j \in DOMAIN s} \union {x}
<1>1. s \in Seq(T)
  <2>1. Len(s) \in Nat /\ DOMAIN s = 1..Len(s) /\ s \in [1..Len(s) -> {s[j] : j \in DOMAIN s}]
    BY DEF IsList
  <2>2. s \in [1..Len(s) -> T]
    BY <2>1
  <2> QED
    BY <2>1, <2>2, SeqDef
<1>2. x \in T
  OBVIOUS
<1> HIDE DEF T
<1>3. t \in Seq(T) /\ Len(t) = Len(s) + 1
  BY <1>0, <1>1, <1>2, AppendProperties
<1>4. Len(s) \in Nat /\ DOMAIN s = 1..Len(s) /\ DOMAIN t = 1..Len(t)
  BY <1>1, <1>3
<1>5. t[Len(s) + 1] = x /\ \A j \in 1..Len(s) : t[j] = s[j]
  <2>1. Append(s, x)[Len(s) + 1] = x
    BY <1>1, <1>2, AppendProperties
  <2>2. \A j \in 1..Len(s) : Append(s, x)[j] = s[j]
    BY <1>1, <1>2, AppendProperties
  <2> QED
    BY <1>0, <2>1, <2>2
<1>6. IsList(t)
  BY <1>3, SeqIsList
<1>7. /\ DOMAIN t = (DOMAIN s) \union {Len(t)}
      /\ t[Len(t)] = x
      /\ \A j \in DOMAIN s : t[j] = s[j]
      /\ \A j \in DOMAIN t : j < Len(t) => j \in DOMAIN s
  BY <1>3, <1>4, <1>5
<1> QED
  BY <1>0, <1>3, <1>6, <1>7, Zenon

(* Replacing an element keeps the positions and the other elements. *)
LEMMA ExceptIsList ==
  ASSUME NEW s, IsList(s), NEW d \in DOMAIN s, NEW x
  PROVE  LET t == [s EXCEPT ![d] = x]
         IN /\ IsList(t) /\ Len(t) = Len(s) /\ DOMAIN t = DOMAIN s
            /\ t[d] = x
            /\ \A j \in DOMAIN s : j # d => t[j] = s[j]
<1>0. PICK t : t = [s EXCEPT ![d] = x]
  OBVIOUS
<1>1. Len(s) \in Nat /\ DOMAIN s = 1..Len(s)
  BY ListProperties
<1>2. DOMAIN t = DOMAIN s /\ t[d] = x /\ \A j \in DOMAIN s : j # d => t[j] = s[j]
  BY <1>0 DEF IsList
<1>3. t \in [1..Len(s) -> {t[j] : j \in DOMAIN t}]
  <2>1. t = [j \in 1..Len(s) |-> t[j]]
    BY <1>0, <1>1, <1>2
  <2> QED
    BY <1>1, <1>2, <2>1
<1>4. IsList(t) /\ Len(t) = Len(s)
  BY <1>1, <1>3, FunctionIsSeq DEF IsList
<1> QED
  BY <1>0, <1>2, <1>4, Zenon

(* One more element of a sequence given by its elements. *)
LEMMA AppendNext ==
  ASSUME NEW k \in Nat, NEW s, DOMAIN s = 1..(k + 1), s = [j \in 1..(k + 1) |-> s[j]],
         NEW r, r = [j \in 1..k |-> s[j]]
  PROVE  Append(r, s[k + 1]) = s
<1> DEFINE V == {s[j] : j \in 1..(k + 1)}
<1>1. r \in [1..k -> V]
  OBVIOUS
<1>2. s \in [1..(k + 1) -> V]
  <2>1. [j \in 1..(k + 1) |-> s[j]] \in [1..(k + 1) -> V]
    OBVIOUS
  <2> QED
    BY <2>1, Zenon
<1>3. s[k + 1] \in V
  OBVIOUS
<1> HIDE DEF V
<1>4. r \in Seq(V) /\ Len(r) = k /\ s \in Seq(V) /\ Len(s) = k + 1
  <2>1. r \in Seq(V) /\ Len(r) = k
    BY <1>1, FunctionIsSeq, Zenon
  <2>2. PICK n \in Nat : n = k + 1
    OBVIOUS
  <2>3. s \in Seq(V) /\ Len(s) = n
    BY <1>2, <2>2, FunctionIsSeq, Zenon
  <2> QED
    BY <2>1, <2>2, <2>3
<1>5. PICK t : t = Append(r, s[k + 1])
  OBVIOUS
<1>6. t \in Seq(V) /\ Len(t) = k + 1
  BY <1>3, <1>4, <1>5, AppendProperties
<1>7. \A j \in 1..k : t[j] = r[j]
  BY <1>3, <1>4, <1>5, AppendProperties
<1>8. t[k + 1] = s[k + 1]
  BY <1>3, <1>4, <1>5, AppendProperties
<1>9. \A j \in 1..(k + 1) : t[j] = s[j]
  BY <1>7, <1>8
<1>10. t = s
  BY <1>4, <1>6, <1>9
<1> QED
  BY <1>5, <1>10, Zenon

-----------------------------------------------------------------------------
(* Sequences put one behind another.                                       *)

(* The one recursive function of FlattenSeq. *)
Flattens(f, seqs) == f = [i \in 1..Len(seqs) |-> IF i = 1 THEN seqs[i] ELSE f[i - 1] \o seqs[i]]

(* Such a function as far as k. *)
FlattensTo(f, seqs, k) == f = [i \in 1..k |-> IF i = 1 THEN seqs[i] ELSE f[i - 1] \o seqs[i]]

(* There is one. *)
LEMMA FlattenExists ==
  ASSUME NEW seqs, Len(seqs) \in Nat
  PROVE  \E f : Flattens(f, seqs)
<1> DEFINE Wrong == {k \in Nat : ~ \E f : FlattensTo(f, seqs, k)}
<1>1. Wrong = {}
  <2> SUFFICES ASSUME Wrong # {}
               PROVE  FALSE
    OBVIOUS
  <2>1. Wrong \in SUBSET Nat
    OBVIOUS
  <2>2. PICK k \in Wrong : \A m \in Wrong : k <= m
    <3> HIDE DEF Wrong
    <3> QED
      BY <2>1, LeastExists, Zenon
  <2>3. k \in Nat /\ ~ \E f : FlattensTo(f, seqs, k)
    OBVIOUS
  <2>4. CASE k = 0
    <3> DEFINE g == [i \in 1..0 |-> seqs]
    <3>1. g = [i \in 1..0 |-> IF i = 1 THEN seqs[i] ELSE g[i - 1] \o seqs[i]]
      OBVIOUS
    <3> HIDE DEF g
    <3> QED
      BY <2>3, <2>4, <3>1, Zenon DEF FlattensTo
  <2>5. CASE k # 0
    <3>1. k - 1 \in Nat /\ ~(k <= k - 1) /\ k \in 1..k
      BY <2>3, <2>5
    <3>2. PICK f : FlattensTo(f, seqs, k - 1)
      BY <2>2, <3>1, Zenon
    <3> DEFINE last == IF k = 1 THEN seqs[k] ELSE f[k - 1] \o seqs[k]
               g == [i \in 1..k |-> IF i = k THEN last ELSE f[i]]
    <3>3. \A i \in 1..k : i # k => i \in 1..(k - 1) /\ i - 1 # k
      BY <2>3
    <3>4. \A i \in 1..k : i # 1 => i - 1 \in 1..k /\ i - 1 # k
      BY <2>3
    <3>5. g[k] = last /\ \A i \in 1..k : i # k => g[i] = f[i]
      BY <3>1, Zenon
    <3>6. \A i \in 1..(k - 1) : f[i] = IF i = 1 THEN seqs[i] ELSE f[i - 1] \o seqs[i]
      BY <3>2, Zenon DEF FlattensTo
    <3>7. g = [i \in 1..k |-> g[i]]
      OBVIOUS
    <3> HIDE DEF g
    <3>8. ASSUME NEW i \in 1..k
          PROVE  g[i] = IF i = 1 THEN seqs[i] ELSE g[i - 1] \o seqs[i]
      <4>1. i # 1 => g[i - 1] = f[i - 1]
        BY <3>4, <3>5, Zenon
      <4>2. CASE i = k
        BY <3>5, <4>1, <4>2, Zenon
      <4>3. CASE i # k
        <5>1. i \in 1..(k - 1) /\ g[i] = f[i]
          BY <3>3, <3>5, <4>3, Zenon
        <5>2. f[i] = IF i = 1 THEN seqs[i] ELSE f[i - 1] \o seqs[i]
          BY <3>6, <5>1, Zenon
        <5> QED
          BY <4>1, <5>1, <5>2, Zenon
      <4> QED
        BY <4>2, <4>3
    <3>9. g = [i \in 1..k |-> IF i = 1 THEN seqs[i] ELSE g[i - 1] \o seqs[i]]
      BY <3>7, <3>8, Zenon
    <3> QED
      BY <2>3, <3>9, Zenon DEF FlattensTo
  <2> QED
    BY <2>4, <2>5
<1>2. \E f : FlattensTo(f, seqs, Len(seqs))
  BY <1>1
<1> QED
  BY <1>2, Zenon DEF Flattens, FlattensTo

(* The sequences so far, one behind another, are the start of those so far *)
(* and one more, up to all of them.                                        *)
Collected(f, seqs, S) ==
  /\ Len(seqs) \in Nat /\ \A i \in 1..Len(seqs) : seqs[i] \in Seq(S)
  /\ f \in [1..Len(seqs) -> Seq(S)] /\ f[1] = seqs[1]
  /\ \A i \in 2..Len(seqs) : f[i] = f[i - 1] \o seqs[i]

(* That is what such a function has. *)
LEMMA FlattensCollects ==
  ASSUME NEW S, NEW seqs \in Seq(Seq(S)), Len(seqs) # 0, NEW f, Flattens(f, seqs)
  PROVE  Collected(f, seqs, S)
<1> DEFINE n == Len(seqs)
<1>1. n \in Nat /\ n # 0
  OBVIOUS
<1>2. \A i \in 1..n : f[i] = IF i = 1 THEN seqs[i] ELSE f[i - 1] \o seqs[i]
  BY Zenon DEF Flattens
<1>3. \A i \in 1..n : seqs[i] \in Seq(S)
  OBVIOUS
<1>4. DOMAIN f = 1..n /\ f = [i \in 1..n |-> f[i]]
  <2>1. f = [i \in 1..n |-> IF i = 1 THEN seqs[i] ELSE f[i - 1] \o seqs[i]]
    BY Zenon DEF Flattens
  <2> QED
    BY <2>1
<1> HIDE DEF n
<1> DEFINE Wrong == {i \in 1..n : f[i] \notin Seq(S)}
<1>5. Wrong = {}
  <2> SUFFICES ASSUME Wrong # {}
               PROVE  FALSE
    OBVIOUS
  <2>1. Wrong \in SUBSET Nat
    OBVIOUS
  <2>2. PICK i \in Wrong : \A m \in Wrong : i <= m
    <3> HIDE DEF Wrong
    <3> QED
      BY <2>1, LeastExists, Zenon
  <2>3. i \in 1..n /\ f[i] \notin Seq(S)
    OBVIOUS
  <2>4. i # 1
    BY <1>2, <1>3, <2>3, Zenon
  <2>5. i - 1 \in 1..n /\ ~(i <= i - 1)
    BY <1>1, <2>3, <2>4
  <2>6. f[i - 1] \in Seq(S)
    BY <2>2, <2>5, Zenon
  <2>7. f[i] = f[i - 1] \o seqs[i]
    BY <1>2, <2>3, <2>4, Zenon
  <2>8. f[i] \in Seq(S)
    BY <1>3, <2>3, <2>6, <2>7, ConcatProperties
  <2> QED
    BY <2>3, <2>8
<1>6. f \in [1..n -> Seq(S)]
  BY <1>4, <1>5
<1>7. f[1] = seqs[1] /\ \A i \in 2..n : f[i] = f[i - 1] \o seqs[i]
  <2>1. 1 \in 1..n /\ \A i \in 2..n : i \in 1..n /\ i # 1
    BY <1>1
  <2> QED
    BY <1>2, <2>1, Zenon
<1> QED
  BY <1>1, <1>3, <1>6, <1>7, Zenon DEF Collected, n

(* The parts of a sequence. *)
LEMMA SeqParts ==
  ASSUME NEW S, NEW s \in Seq(S)
  PROVE  Len(s) \in Nat /\ DOMAIN s = 1..Len(s) /\ \A x \in 1..Len(s) : s[x] \in S
OBVIOUS

(* Sequence u is s and t behind it. *)
Behind(u, s, t) ==
  /\ Len(u) = Len(s) + Len(t) /\ Len(s) \in Nat /\ Len(t) \in Nat
  /\ \A x \in 1..Len(s) : u[x] = s[x]
  /\ \A x \in 1..Len(t) : u[Len(s) + x] = t[x]

(* So is their concatenation. *)
LEMMA BehindIs ==
  ASSUME NEW S, NEW s \in Seq(S), NEW t \in Seq(S)
  PROVE  s \o t \in Seq(S) /\ Behind(s \o t, s, t)
<1>1. Len(s) \in Nat /\ Len(t) \in Nat
  OBVIOUS
<1>2. PICK u : u = s \o t
  OBVIOUS
<1>3. /\ u \in Seq(S) /\ Len(u) = Len(s) + Len(t)
      /\ \A x \in 1..(Len(s) + Len(t)) : u[x] = IF x <= Len(s) THEN s[x] ELSE t[x - Len(s)]
  BY <1>2, ConcatProperties
<1>4. \A x \in 1..Len(s) : x \in 1..(Len(s) + Len(t)) /\ x <= Len(s)
  BY <1>1
<1>5. \A x \in 1..Len(t) : Len(s) + x \in 1..(Len(s) + Len(t)) /\ ~(Len(s) + x <= Len(s)) /\ (Len(s) + x) - Len(s) = x
  BY <1>1
<1>6. ASSUME NEW x \in 1..Len(t)
      PROVE  u[Len(s) + x] = t[x]
  <2>1. u[Len(s) + x] = t[(Len(s) + x) - Len(s)]
    BY <1>3, <1>5, Zenon
  <2> QED
    BY <1>5, <2>1, Zenon
<1> QED
  BY <1>1, <1>2, <1>3, <1>4, <1>6, Zenon DEF Behind

(* Where the piece at i begins. *)
LenBefore(f, i) == IF i = 1 THEN 0 ELSE Len(f[i - 1])

(* Sequence s is the start of t. *)
Starts(s, t) == Len(s) <= Len(t) /\ \A x \in 1..Len(s) : t[x] = s[x]

(* What is so far is there when more was put behind it. *)
LEMMA PrefixesStay ==
  ASSUME NEW S, NEW seqs, NEW f, Collected(f, seqs, S), NEW i \in 1..Len(seqs), NEW m \in 1..Len(seqs), i <= m
  PROVE  Starts(f[i], f[m])
<1> DEFINE Stays(k) == Len(f[i]) <= Len(f[k]) /\ \A x \in 1..Len(f[i]) : f[k][x] = f[i][x]
           Wrong == {k \in 1..Len(seqs) : i <= k /\ ~Stays(k)}
<1>1. /\ Len(seqs) \in Nat
      /\ \A k \in 1..Len(seqs) : f[k] \in Seq(S) /\ Len(f[k]) \in Nat /\ seqs[k] \in Seq(S)
  <2>1. Len(seqs) \in Nat /\ \A k \in 1..Len(seqs) : f[k] \in Seq(S) /\ seqs[k] \in Seq(S)
    BY DEF Collected
  <2> QED
    BY <2>1, SeqParts, Zenon
<1>2. Wrong = {}
  <2> SUFFICES ASSUME Wrong # {}
               PROVE  FALSE
    OBVIOUS
  <2>1. Wrong \in SUBSET Nat
    OBVIOUS
  <2>2. PICK k \in Wrong : \A l \in Wrong : k <= l
    <3> HIDE DEF Wrong
    <3> QED
      BY <2>1, LeastExists, Zenon
  <2>3. k \in 1..Len(seqs) /\ i <= k /\ ~Stays(k)
    OBVIOUS
  <2>4. k # i
    <3>1. Stays(i)
      BY <1>1
    <3> QED
      BY <2>3, <3>1, Zenon
  <2>5. k - 1 \in 1..Len(seqs) /\ i <= k - 1 /\ ~(k <= k - 1) /\ k \in 2..Len(seqs)
    BY <2>3, <2>4
  <2>6. Stays(k - 1)
    BY <2>2, <2>5, Zenon
  <2>7. f[k] = f[k - 1] \o seqs[k]
    BY <2>5 DEF Collected
  <2>8. Behind(f[k], f[k - 1], seqs[k])
    <3>1. f[k - 1] \in Seq(S) /\ seqs[k] \in Seq(S)
      BY <1>1, <2>3, <2>5, Zenon
    <3>2. Behind(f[k - 1] \o seqs[k], f[k - 1], seqs[k])
      BY <3>1, BehindIs, Zenon
    <3> QED
      BY <2>7, <3>2, Zenon
  <2>9. Len(f[i]) <= Len(f[k - 1]) /\ Len(f[i]) \in Nat /\ \A x \in 1..Len(f[i]) : f[k - 1][x] = f[i][x]
    BY <1>1, <2>6, Zenon
  <2> HIDE DEF Wrong, Stays
  <2>10. Len(f[i]) <= Len(f[k])
    <3>1. Len(f[k]) = Len(f[k - 1]) + Len(seqs[k]) /\ Len(f[k - 1]) \in Nat /\ Len(seqs[k]) \in Nat
      BY <2>8, Zenon DEF Behind
    <3>2. \A a, b, c \in Nat : c <= a => c <= a + b
      OBVIOUS
    <3>3. Len(f[i]) <= Len(f[k - 1]) + Len(seqs[k])
      BY <2>9, <3>1, <3>2, Zenon
    <3> QED
      BY <3>1, <3>3, Zenon
  <2>11. ASSUME NEW x \in 1..Len(f[i])
         PROVE  f[k][x] = f[i][x]
    <3>1. x \in 1..Len(f[k - 1]) /\ f[k - 1][x] = f[i][x]
      BY <2>8, <2>9 DEF Behind
    <3> QED
      BY <2>8, <3>1, Zenon DEF Behind
  <2> QED
    BY <2>3, <2>10, <2>11, Zenon DEF Stays
<1>3. Stays(m)
  BY <1>2, Zenon
<1> QED
  BY <1>3, Zenon DEF Starts

(* Piece i stands in what there is after m. *)
Within(f, seqs, i, m) ==
  /\ LenBefore(f, i) \in Nat /\ Len(f[i]) = LenBefore(f, i) + Len(seqs[i]) /\ Len(f[i]) <= Len(f[m])
  /\ \A x \in 1..Len(seqs[i]) : f[m][LenBefore(f, i) + x] = seqs[i][x]

(* Each piece is there, behind the one before. *)
LEMMA PieceAt ==
  ASSUME NEW S, NEW seqs, NEW f, Collected(f, seqs, S), NEW i \in 1..Len(seqs), NEW m \in 1..Len(seqs), i <= m
  PROVE  Within(f, seqs, i, m)
<1>1. /\ Len(seqs) \in Nat
      /\ f[i] \in Seq(S) /\ Len(f[i]) \in Nat /\ seqs[i] \in Seq(S) /\ Len(seqs[i]) \in Nat
  <2>1. Len(seqs) \in Nat /\ f[i] \in Seq(S) /\ seqs[i] \in Seq(S)
    BY DEF Collected
  <2> QED
    BY <2>1, SeqParts, Zenon
<1>2. /\ LenBefore(f, i) \in Nat /\ Len(f[i]) = LenBefore(f, i) + Len(seqs[i])
      /\ \A x \in 1..Len(seqs[i]) : f[i][LenBefore(f, i) + x] = seqs[i][x]
  <2>1. CASE i = 1
    <3>1. f[i] = seqs[i] /\ LenBefore(f, i) = 0
      BY <2>1 DEF Collected, LenBefore
    <3> QED
      BY <1>1, <3>1
  <2>2. CASE i # 1
    <3>1. i - 1 \in 1..Len(seqs) /\ i \in 2..Len(seqs)
      BY <2>2
    <3>2. f[i] = f[i - 1] \o seqs[i] /\ f[i - 1] \in Seq(S)
      BY <3>1 DEF Collected
    <3>3. Behind(f[i - 1] \o seqs[i], f[i - 1], seqs[i])
      BY <1>1, <3>2, BehindIs, Zenon
    <3>4. Behind(f[i], f[i - 1], seqs[i])
      BY <3>2, <3>3, Zenon
    <3>5. LenBefore(f, i) = Len(f[i - 1])
      BY <2>2 DEF LenBefore
    <3> QED
      BY <3>4, <3>5, Zenon DEF Behind
  <2> QED
    BY <2>1, <2>2
<1>3. Len(f[i]) <= Len(f[m]) /\ \A x \in 1..Len(f[i]) : f[m][x] = f[i][x]
  <2>1. Starts(f[i], f[m])
    BY PrefixesStay, Zenon
  <2> QED
    BY <2>1, Zenon DEF Starts
<1>4. \A x \in 1..Len(seqs[i]) : LenBefore(f, i) + x \in 1..Len(f[i])
  BY <1>1, <1>2
<1> QED
  BY <1>2, <1>3, <1>4, Zenon DEF Within

(* What there is after m has at x an element of a piece. *)
OfPiece(f, seqs, m, x) ==
  \E i \in 1..m : x - LenBefore(f, i) \in 1..Len(seqs[i]) /\ f[m][x] = seqs[i][x - LenBefore(f, i)]

(* And there is nothing else. *)
LEMMA OnlyPieces ==
  ASSUME NEW S, NEW seqs, NEW f, Collected(f, seqs, S), NEW m \in 1..Len(seqs), NEW x \in 1..Len(f[m])
  PROVE  OfPiece(f, seqs, m, x)
<1> DEFINE Reach == {k \in 1..Len(seqs) : x <= Len(f[k])}
<1>1. \A k \in 1..Len(seqs) : f[k] \in Seq(S) /\ Len(f[k]) \in Nat /\ seqs[k] \in Seq(S) /\ Len(seqs[k]) \in Nat
  <2>1. \A k \in 1..Len(seqs) : f[k] \in Seq(S) /\ seqs[k] \in Seq(S)
    BY DEF Collected
  <2> QED
    BY <2>1, SeqParts, Zenon
<1>2. Reach \in SUBSET Nat /\ m \in Reach
  <2>1. x <= Len(f[m])
    BY <1>1
  <2> QED
    BY <2>1
<1>3. PICK i \in Reach : \A k \in Reach : i <= k
  <2> HIDE DEF Reach
  <2> QED
    BY <1>2, LeastExists, Zenon
<1>4. i \in 1..m /\ i \in 1..Len(seqs) /\ i <= m /\ x <= Len(f[i])
  <2>1. m \in Reach
    BY <1>1
  <2>2. i <= m
    BY <1>3, <2>1, Zenon
  <2> QED
    BY <2>2
<1>5. LenBefore(f, i) < x
  <2>1. CASE i = 1
    BY <2>1 DEF LenBefore
  <2>2. CASE i # 1
    <3>1. i - 1 \in 1..Len(seqs) /\ ~(i <= i - 1)
      BY <1>4, <2>2
    <3>2. ~(x <= Len(f[i - 1]))
      BY <1>3, <3>1
    <3> QED
      BY <1>1, <2>2, <3>1, <3>2 DEF LenBefore
  <2> QED
    BY <2>1, <2>2
<1>6. /\ LenBefore(f, i) \in Nat /\ Len(f[i]) = LenBefore(f, i) + Len(seqs[i])
      /\ \A y \in 1..Len(seqs[i]) : f[m][LenBefore(f, i) + y] = seqs[i][y]
  <2>1. Within(f, seqs, i, m)
    BY <1>4, PieceAt, Zenon
  <2> QED
    BY <2>1, Zenon DEF Within
<1>7. x - LenBefore(f, i) \in 1..Len(seqs[i]) /\ LenBefore(f, i) + (x - LenBefore(f, i)) = x
  BY <1>1, <1>4, <1>5, <1>6
<1>8. f[m][x] = seqs[i][x - LenBefore(f, i)]
  BY <1>6, <1>7, Zenon
<1> QED
  BY <1>4, <1>7, <1>8, Zenon DEF OfPiece
=============================================================================
