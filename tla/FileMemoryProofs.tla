------------------------- MODULE FileMemoryProofs --------------------------
(***************************************************************************)
(* Theorems about the two programs that keep what they share under a name. *)
(*                                                                         *)
(* The file of blocks, for every even number of blocks and every limit on  *)
(* descriptors: no block is given out twice while there are descriptors,   *)
(* and free_block() never changes the list of free blocks, whatever number *)
(* a caller got from an uninitialized variable.                            *)
(*                                                                         *)
(* The Collatz sequence in shared memory, for every set of numbers typed,  *)
(* every size of a segment, of an int and of the memory behind a segment,  *)
(* and any number of processes killed: what a run prints, when it stays in *)
(* the segment, and that the name is gone in the end.                      *)
(***************************************************************************)
EXTENDS BlockFile, CollatzShm, SequenceTheorems, WellFoundedInduction, TLAPS

-----------------------------------------------------------------------------
(***************************************************************************)
(* The file of blocks.                                                     *)
(***************************************************************************)
(***************************************************************************)
(* The blocks from ffb on are chained by steps of two and nobody has them; *)
(* the ones before it are behind the list for good.  No region is linked   *)
(* to the block right after it, and the last one is linked to none.        *)
(***************************************************************************)
Chained ==
    hdr.ffb # End =>
        /\ hdr.ffb % 2 = 0
        /\ \A b \in hdr.ffb..(N - 2) : link[b] = IF b = N - 2 THEN End ELSE b + 2

NoneLinkedToNext ==
    /\ \A r \in Regions : link[r] \in Blocks \cup {End} /\ link[r] # r + 1
    /\ link[N - 2] = End

Untaken ==
    ~exhausted => /\ \A b \in Blocks : owners[b] <= 1
                  /\ hdr.ffb # End => \A b \in hdr.ffb..(N - 1) : owners[b] = 0

IInv == TypeOK /\ Chained /\ NoneLinkedToNext /\ Untaken

LinkType(l, last) == last \in (N - 2)..Reach /\ l \in [-1..last -> Int]

(* A rewriting of the links in the file leaves it its size. *)
LEMMA LinksRewritten ==
    ASSUME NEW last, LinkType(link, last), NEW new, DOMAIN new = -1..last,
           new = [r \in DOMAIN link |-> new[r]],
           \A r \in -1..last : new[r] \in Int
    PROVE  LinkType(new, last)
  <1>1. new \in [-1..last -> Int]
    BY DEF LinkType
  <1> QED
    BY <1>1 DEF LinkType

LEMMA RegionsIn ==
    ASSUME NEW last, LinkType(link, last)
    PROVE  DOMAIN link = -1..last /\ Regions \subseteq -1..last /\ \A r \in -1..last : link[r] \in Int
  BY NAssumption DEF LinkType, Regions

LEMMA FreshLinksAre ==
    /\ \A r \in Regions : /\ FreshLinks[r] \in Blocks \cup {End}
                          /\ FreshLinks[r] \in Int
                          /\ FreshLinks[r] # r + 1
    /\ FreshLinks[N - 2] = End
    /\ \A b \in 0..(N - 2) : FreshLinks[b] = IF b = N - 2 THEN End ELSE b + 2
  BY NAssumption DEF FreshLinks, Regions, End, Blocks

LEMMA InitIInv == Init => IInv
  <1> SUFFICES ASSUME Init PROVE IInv
    OBVIOUS
  <1>1. N \in Nat /\ N >= 2
    BY NAssumption
  <1>2. TypeOK
    <2>1. 0 \in Blocks
      BY <1>1 DEF Blocks
    <2>2. \E last \in (N - 2)..Reach : link \in [-1..last -> Int]
      <3>1. N - 2 \in (N - 2)..Reach
        BY <1>1, ReachAssumption
      <3>2. FreshLinks \in [-1..(N - 2) -> Int]
        BY <1>1 DEF FreshLinks, Regions, End
      <3> QED
        BY <3>1, <3>2 DEF Init
    <2>3. hdr \in Headers
      BY <1>1, <2>1 DEF Init, Headers, Zeros
    <2>b. buf \in Buffers
      BY <1>1, <2>1 DEF Init, Buffers, Numbers
    <2>4. owners \in [Numbers -> Nat]
      BY DEF Init
    <2>5. fds \in 0..MaxFds /\ gets \in Nat
      BY FdsAssumption DEF Init
    <2>6. state \in {"ready", "loops"} /\ exhausted \in BOOLEAN
      BY DEF Init
    <2> QED
      BY <2>2, <2>3, <2>b, <2>4, <2>5, <2>6 DEF TypeOK
  <1>3. Chained
    BY <1>1, FreshLinksAre DEF Init, Chained, Zeros, End
  <1>5. NoneLinkedToNext
    BY FreshLinksAre DEF Init, NoneLinkedToNext
  <1>4. Untaken
    BY <1>1 DEF Init, Untaken, Blocks, Zeros, Numbers
  <1> QED
    BY <1>2, <1>3, <1>4, <1>5 DEF IInv

(* No link of the file is written when a number is freed: the region       *)
(* before a block is not linked to it, and the walk down from behind the   *)
(* end stops at the last link.                                             *)
LEMMA NothingLinked ==
    ASSUME TypeOK, NoneLinkedToNext, NEW bno \in Numbers, NEW at \in Places(bno)
    PROVE  /\ \A r \in Relinked(bno, at) : r \notin Regions
           /\ bno \in Blocks => Relinked(bno, at) = {}
  <1>1. N \in Nat /\ N >= 2 /\ Reach \in Nat /\ Reach >= N
    BY NAssumption, ReachAssumption
  <1>2. bno \in Int /\ bno # End /\ at \in Int
    BY <1>1, StackAssumption DEF Numbers, Blocks, Places, End
  <1>3. Regions \subseteq DOMAIN link
    BY RegionsIn DEF TypeOK, LinkType
  <1>4. link[N - 2] = End
    BY DEF NoneLinkedToNext
  <1>5. ASSUME at - 1 \in Regions PROVE Relinked(bno, at) = {}
    <2>1. link[at - 1] # bno
      <3>1. CASE bno \in -Reach..Reach
        BY <3>1, <1>5, <1>2 DEF Places, NoneLinkedToNext
      <3>2. CASE bno \notin -Reach..Reach
        <4>1. link[at - 1] \in Blocks \cup {End}
          BY <1>5 DEF NoneLinkedToNext
        <4> QED
          BY <4>1, <3>2, <1>1 DEF Blocks, End
      <3> QED
        BY <3>1, <3>2
    <2>2. ~PastEnd(at - 1)
      BY <1>3, <1>5 DEF PastEnd
    <2>3. \A r \in -1..(at - 1) : at - 1 \in r..(at - 1)
      BY <1>2
    <2> QED
      BY <2>1, <2>2, <2>3 DEF Relinked
  <1>6. ASSUME NEW r \in Relinked(bno, at), r \in Regions PROVE FALSE
    <2>1. r \in Int /\ -1 <= r /\ r <= N - 2 /\ r <= at - 1
      BY <1>6, <1>1, <1>2 DEF Relinked, Regions
    <2>2. ~(at - 1 \in Regions)
      BY <1>5, <1>6
    <2>3. N - 2 \in r..(at - 1) /\ N - 2 # at - 1
      BY <2>1, <2>2, <1>1, <1>2 DEF Regions
    <2>4. link[N - 2] = bno
      BY <1>6, <2>3 DEF Relinked
    <2> QED
      BY <2>4, <1>2, <1>4
  <1>7. bno \in Blocks => at - 1 \in Regions
    BY <1>1 DEF Places, Blocks, Regions
  <1> QED
    BY <1>5, <1>6, <1>7

(* What a write of the same number into some regions does, the highest     *)
(* among them.                                                             *)
LEMMA LinksWritten ==
    ASSUME NEW last, LinkType(link, last), NEW at \in -Reach..Reach,
           NEW R, R \subseteq -1..(at - 1), R # {} => at - 1 \in R, NEW x \in Int
    PROVE  /\ \E l : LinkType(LinksWith(R, x), l)
           /\ \A r \in Regions : r \notin R => LinksWith(R, x)[r] = link[r]
           /\ R = {} => LinksWith(R, x) = link
  <1>1. last \in Int /\ last >= N - 2 /\ last <= Reach /\ N \in Nat /\ N >= 2 /\ Reach \in Nat
    BY NAssumption, ReachAssumption DEF LinkType
  <1>2. DOMAIN link = -1..last /\ Regions \subseteq -1..last /\ \A r \in -1..last : link[r] \in Int
    BY RegionsIn
  <1>a. at \in Int /\ at <= Reach
    BY <1>1
  <1> DEFINE D == DOMAIN link \cup UNION {0..s : s \in R}
  <1>3. LinksWith(R, x) = [r \in D |-> IF r \in R THEN x ELSE IF r \in DOMAIN link THEN link[r] ELSE 0]
    BY DEF LinksWith
  <1>4. \E l \in (N - 2)..Reach : D = -1..l
    <2>1. CASE R = {}
      <3>1. D = -1..last
        BY <2>1, <1>2
      <3> QED
        BY <3>1, <1>1
    <2>2. CASE R # {}
      <3>1. \A i : i \in UNION {0..s : s \in R} <=> i \in 0..(at - 1)
        <4>1. \A s \in R : s \in Int /\ s <= at - 1
          OBVIOUS
        <4>2. at - 1 \in R
          BY <2>2
        <4>3. \A s \in R : 0..s \subseteq 0..(at - 1)
          BY <4>1
        <4> QED
          BY <4>2, <4>3
      <3>2. \A i : i \in D <=> i \in -1..last \/ i \in 0..(at - 1)
        BY <3>1, <1>2
      <3> HIDE DEF D
      <3>3. CASE at - 1 <= last
        <4>1. D = -1..last
          <5>1. \A i \in 0..(at - 1) : i \in -1..last
            BY <3>3, <1>1, <1>a
          <5>2. \A i : i \in D <=> i \in -1..last
            BY <3>2, <5>1
          <5> QED
            BY <5>2
        <4>2. last \in (N - 2)..Reach
          BY <1>1
        <4> QED
          BY <4>1, <4>2
      <3>4. CASE at - 1 > last
        <4>1. D = -1..(at - 1)
          <5>1. \A i : i \in -1..last \/ i \in 0..(at - 1) <=> i \in -1..(at - 1)
            BY <3>4, <1>1, <1>a
          <5> QED
            BY <3>2, <5>1
        <4>2. at - 1 \in (N - 2)..Reach
          BY <3>4, <1>1, <1>a
        <4> QED
          BY <4>1, <4>2
      <3> QED
        BY <3>3, <3>4, <1>1
    <2> QED
      BY <2>1, <2>2
  <1>d. DOMAIN link \subseteq D
    OBVIOUS
  <1>e. R = {} => D = DOMAIN link
    OBVIOUS
  <1> HIDE DEF D
  <1>5. PICK l \in (N - 2)..Reach : D = -1..l
    BY <1>4
  <1>6. LinksWith(R, x) \in [-1..l -> Int]
    BY <1>2, <1>3, <1>5
  <1>7. \A r \in Regions : r \notin R => LinksWith(R, x)[r] = link[r]
    BY <1>2, <1>3, <1>d
  <1>8. R = {} => LinksWith(R, x) = link
    <2> SUFFICES ASSUME R = {} PROVE LinksWith(R, x) = link
      OBVIOUS
    <2>1. LinksWith(R, x) = [r \in DOMAIN link |-> link[r]]
      BY <1>3, <1>e
    <2>2. link = [r \in DOMAIN link |-> link[r]]
      BY DEF LinkType
    <2> QED
      BY <2>1, <2>2
  <1> QED
    BY <1>5, <1>6, <1>7, <1>8 DEF LinkType

LEMMA FreeWrites ==
    ASSUME IInv, NEW bno \in Numbers, FreeBlock(bno) \/ FreeKilled(bno)
    PROVE  /\ hdr' = hdr
           /\ \E l : LinkType(link', l)
           /\ \A r \in Regions : link'[r] = link[r]
           /\ bno \in Blocks => link' = link
  <1>t. TypeOK /\ NoneLinkedToNext
    BY DEF IInv
  <1>1. PICK last : LinkType(link, last)
    BY <1>t DEF TypeOK, LinkType
  <1>2. PICK at, x, R :
            /\ at \in Places(bno) /\ x \in NextNext(at) /\ R \subseteq Relinked(bno, at)
            /\ link' = LinksWith(R, x) /\ (R # {} => at - 1 \in R)
    <2>1. \A at \in Int : \A r \in Relinked(bno, at) : at - 1 \in Relinked(bno, at) /\ r <= at - 1
      BY DEF Relinked
    <2>p. \A at \in Places(bno) : at \in Int
      BY ReachAssumption DEF Places
    <2>2. CASE FreeBlock(bno)
      <3>1. PICK at \in Places(bno) :
              \E nnfb \in NextNext(at) : link' = LinksWith(Relinked(bno, at), nnfb)
        BY <2>2 DEF FreeBlock
      <3> QED
        BY <2>1, <2>p, <3>1
    <2>3. CASE FreeKilled(bno)
      <3>1. PICK at \in Places(bno) :
              \E nnfb \in NextNext(at), m \in Relinked(bno, at) :
                link' = LinksWith({r \in Relinked(bno, at) : r >= m}, nnfb)
        BY <2>3 DEF FreeKilled
      <3>2. PICK nnfb \in NextNext(at), m \in Relinked(bno, at) :
                link' = LinksWith({r \in Relinked(bno, at) : r >= m}, nnfb)
        BY <3>1
      <3> DEFINE R == {r \in Relinked(bno, at) : r >= m}
      <3>3. m \in Relinked(bno, at) /\ at - 1 \in Relinked(bno, at) /\ m <= at - 1
        BY <2>1, <2>p, <3>1, <3>2
      <3>4. m \in Int /\ at \in Int
        BY <2>p, <3>3 DEF Relinked
      <3>5. at - 1 \in R /\ R \subseteq Relinked(bno, at)
        BY <3>3, <3>4
      <3> HIDE DEF R
      <3> QED
        BY <3>1, <3>2, <3>5 DEF R
    <2> QED
      BY <2>2, <2>3
  <1>3. hdr' = hdr
    BY DEF FreeBlock, FreeKilled
  <1>4. /\ \A r \in Relinked(bno, at) : r \notin Regions
        /\ bno \in Blocks => Relinked(bno, at) = {}
    BY <1>t, <1>2, NothingLinked
  <1>5. at \in -Reach..Reach
    BY <1>2, ReachAssumption DEF Places
  <1>6. x \in Int
    <2>1. \A r \in DOMAIN link : link[r] \in Int
      BY <1>1, RegionsIn
    <2>2. CASE at \in DOMAIN link
      BY <1>2, <2>1, <2>2 DEF NextNext
    <2>3. CASE at \notin DOMAIN link /\ at < 0
      BY <1>2, <2>3 DEF NextNext
    <2>4. CASE at \notin DOMAIN link /\ ~(at < 0)
      BY <1>2, <2>4, StackAssumption DEF NextNext
    <2> QED
      BY <2>2, <2>3, <2>4
  <1>7. R \subseteq -1..(at - 1)
    BY <1>2 DEF Relinked
  <1>8. /\ \E l : LinkType(LinksWith(R, x), l)
        /\ \A r \in Regions : r \notin R => LinksWith(R, x)[r] = link[r]
        /\ R = {} => LinksWith(R, x) = link
    BY <1>1, <1>2, <1>5, <1>6, <1>7, LinksWritten
  <1> QED
    BY <1>2, <1>3, <1>4, <1>8

(* The block that follows the first free one, and what the list looks like *)
(* once it is the first. *)
LEMMA NextFree ==
    ASSUME IInv, hdr.ffb # End
    PROVE  /\ hdr.ffb \in 0..(N - 2) /\ hdr.ffb % 2 = 0
           /\ link[hdr.ffb] = IF hdr.ffb = N - 2 THEN End ELSE hdr.ffb + 2
           /\ link[hdr.ffb] \in Blocks \cup {End}
           /\ link[hdr.ffb] # End => link[hdr.ffb] % 2 = 0
  <1> DEFINE f == hdr.ffb
  <1>1. f \in Nat /\ f <= N - 1 /\ f % 2 = 0 /\ N \in Nat /\ N % 2 = 0
    BY NAssumption DEF IInv, TypeOK, Headers, Blocks, Chained
  <1>2. f <= N - 2
    <2> HIDE DEF f
    <2> QED
      BY <1>1
  <1>3. link[f] = IF f = N - 2 THEN End ELSE f + 2
    BY <1>1, <1>2 DEF IInv, Chained
  <1>4. f # N - 2 => f + 2 \in Blocks /\ (f + 2) % 2 = 0
    <2> HIDE DEF f
    <2> QED
      BY <1>1, <1>2 DEF Blocks
  <1> QED
    BY <1>1, <1>2, <1>3, <1>4 DEF Blocks

LEMMA NextIInv == IInv /\ [Next]_vars => IInv'
  <1> SUFFICES ASSUME IInv, [Next]_vars PROVE IInv'
    OBVIOUS
  <1>t. TypeOK /\ Chained /\ NoneLinkedToNext /\ Untaken
    BY DEF IInv
  <1>n. N \in Nat /\ N >= 2
    BY NAssumption
  <1>z. /\ Zeros \in Buffers
        /\ [ubn |-> 0, fbn |-> N, ffb |-> 0] \in Buffers
    BY <1>n DEF Zeros, Buffers, Numbers, Blocks
  <1>y. Headers \subseteq Buffers
    BY <1>n DEF Headers, Buffers, Numbers
  <1>l. PICK last : LinkType(link, last)
    BY <1>t DEF TypeOK, LinkType
  <1>r. DOMAIN link = -1..last /\ Regions \subseteq -1..last /\ \A r \in -1..last : link[r] \in Int
    BY <1>l, RegionsIn
  <1>w. ASSUME LinkType(link', last) PROVE \E l \in (N - 2)..Reach : link' \in [-1..l -> Int]
    BY <1>w DEF LinkType
  <1>d. ASSUME UNCHANGED <<hdr, link>>
        PROVE  Chained' /\ NoneLinkedToNext'
    BY <1>d, <1>t DEF Chained, NoneLinkedToNext
  <1>1. CASE InitFile
    <2>1. CASE Opens
      <3>1. /\ link' = [r \in DOMAIN link |-> IF r \in Regions THEN FreshLinks[r] ELSE link[r]]
            /\ owners' = [b \in Numbers |-> 0] /\ gets' = 0 /\ hdr' = hdr
            /\ buf' = [ubn |-> 0, fbn |-> N, ffb |-> 0]
            /\ UNCHANGED <<fds, state, exhausted>>
        BY <1>1, <2>1 DEF InitFile
      <3>f. \A r \in -1..last : link'[r] = IF r \in Regions THEN FreshLinks[r] ELSE link[r]
        BY <3>1, <1>r
      <3>g. \A r \in Regions : link'[r] = FreshLinks[r]
        BY <3>f, <1>r
      <3>h. LinkType(link', last)
        <4>1. \A r \in -1..last : link'[r] \in Int
          BY <3>f, <1>r, FreshLinksAre
        <4>2. link' = [r \in -1..last |-> IF r \in Regions THEN FreshLinks[r] ELSE link[r]]
          BY <3>1, <1>r
        <4>3. last \in (N - 2)..Reach
          BY <1>l DEF LinkType
        <4>4. link' \in [-1..last -> Int]
          BY <4>1, <4>2
        <4> QED
          BY <4>3, <4>4 DEF LinkType
      <3>2. TypeOK'
        <4>1. \E l \in (N - 2)..Reach : link' \in [-1..l -> Int]
          BY <3>h, <1>w
        <4>2. owners' \in [Numbers -> Nat]
          BY <3>1
        <4> QED
          BY <3>1, <4>1, <4>2, <1>t, <1>z DEF TypeOK
      <3>3. Chained'
        <4>1. hdr.ffb # End => \A b \in hdr.ffb..(N - 2) : b \in 0..(N - 2) /\ b \in Regions
          BY <1>t, <1>n DEF TypeOK, Headers, Blocks, Regions, End
        <4> QED
          BY <3>1, <3>g, <4>1, <1>t, FreshLinksAre DEF Chained
      <3>4. NoneLinkedToNext'
        <4>1. N - 2 \in Regions
          BY <1>n DEF Regions
        <4> QED
          BY <3>g, <4>1, FreshLinksAre DEF NoneLinkedToNext
      <3>5. Untaken'
        <4>1. hdr.ffb # End => hdr.ffb..(N - 1) \subseteq Blocks
          BY <1>t, <1>n DEF TypeOK, Headers, Blocks
        <4>2. \A b \in Blocks : owners'[b] = 0
          BY <3>1 DEF Numbers
        <4> QED
          BY <3>1, <4>1, <4>2 DEF Untaken
      <3> QED
        BY <3>2, <3>3, <3>4, <3>5 DEF IInv
    <2>2. CASE ~Opens
      BY <1>1, <2>2, <1>t, <1>d, <1>z DEF InitFile, IInv, TypeOK, Untaken
    <2> QED
      BY <2>1, <2>2
  <1>k. CASE InitKilled
    <2>1. PICK m \in Regions :
            link' = [r \in DOMAIN link |-> IF r < m THEN FreshLinks[r] ELSE link[r]]
      BY <1>k DEF InitKilled
    <2>2. /\ UNCHANGED <<hdr, state, owners, gets, exhausted>>
          /\ buf' = Zeros /\ fds' = 0
      BY <1>k DEF InitKilled
    <2>f. /\ \A r \in Regions : /\ FreshLinks[r] \in Blocks \cup {End}
                                /\ FreshLinks[r] \in Int /\ FreshLinks[r] # r + 1
          /\ FreshLinks[N - 2] = End
          /\ \A b \in 0..(N - 2) : FreshLinks[b] = IF b = N - 2 THEN End ELSE b + 2
      BY FreshLinksAre
    <2>g. \A r \in -1..last : r < m => r \in Regions
      BY <1>n DEF Regions
    <2>h. \A r \in -1..last : \/ r \in Regions /\ link'[r] = FreshLinks[r]
                              \/ link'[r] = link[r]
      BY <2>1, <2>g, <1>r
    <2>3. \A r \in Regions : link'[r] = FreshLinks[r] \/ link'[r] = link[r]
      BY <2>h, <1>r
    <2>4. TypeOK'
      <3>1. link' \in [-1..last -> Int]
        <4>1. \A r \in -1..last : link'[r] \in Int
          BY <2>h, <2>f, <1>r
        <4>2. link' = [r \in -1..last |-> IF r < m THEN FreshLinks[r] ELSE link[r]]
          BY <2>1, <1>r
        <4> QED
          BY <4>1, <4>2
      <3>2. \E l \in (N - 2)..Reach : link' \in [-1..l -> Int]
        BY <3>1, <1>l DEF LinkType
      <3> QED
        BY <2>2, <3>2, <1>t, <1>z, FdsAssumption DEF TypeOK
    <2>5. NoneLinkedToNext'
      <3>1. N - 2 \in Regions
        BY <1>n DEF Regions
      <3> QED
        BY <2>3, <2>f, <3>1, <1>t DEF NoneLinkedToNext
    <2>6. Chained'
      <3> SUFFICES ASSUME hdr.ffb # End
                   PROVE  /\ hdr.ffb % 2 = 0
                          /\ \A b \in hdr.ffb..(N - 2) :
                               link'[b] = IF b = N - 2 THEN End ELSE b + 2
        BY <2>2 DEF Chained
      <3>1. \A b \in hdr.ffb..(N - 2) : b \in Regions /\ b \in 0..(N - 2)
        BY <1>t, <1>n DEF TypeOK, Headers, Blocks, Regions, End
      <3> QED
        BY <2>3, <2>f, <3>1, <1>t DEF Chained
    <2>7. Untaken'
      BY <2>2, <1>t DEF Untaken
    <2> QED
      BY <2>4, <2>5, <2>6, <2>7 DEF IInv
  <1>2. CASE GetFreeblock
    <2> DEFINE f == hdr.ffb
               next == link[f]
    <2>1. f # End
      BY <1>2 DEF GetFreeblock
    <2>2. /\ f \in 0..(N - 2) /\ f % 2 = 0
          /\ next = IF f = N - 2 THEN End ELSE f + 2
          /\ next \in Blocks \cup {End} /\ (next # End => next % 2 = 0)
      BY <2>1, NextFree
    <2>3. /\ hdr' = [ubn |-> hdr.ubn + 1, fbn |-> hdr.fbn - 1, ffb |-> next]
          /\ link' = [r \in DOMAIN link |-> IF r \in 0..(f - 1) THEN next ELSE link[r]]
          /\ owners' = [owners EXCEPT ![f] = @ + 1]
          /\ buf' = hdr' /\ gets' = gets + 1 /\ fds' = fds + 1
          /\ UNCHANGED <<state, exhausted>>
      BY <1>2 DEF GetFreeblock
    <2>4. hdr' \in Headers /\ hdr'.ffb = next /\ buf' \in Buffers
      <3>1. hdr.ubn + 1 \in Int /\ hdr.fbn - 1 \in Int
        BY <1>t DEF Headers, TypeOK
      <3>2. hdr' = [ubn |-> hdr.ubn + 1, fbn |-> hdr.fbn - 1, ffb |-> next] /\ buf' = hdr'
        BY <2>3
      <3>3. next \in Blocks \cup {End}
        BY <2>2
      <3> HIDE DEF next
      <3>4. hdr' \in Headers /\ hdr'.ffb = next
        BY <3>1, <3>2, <3>3 DEF Headers
      <3> QED
        BY <3>2, <3>4, <1>y
    <2>5. fds' \in 0..MaxFds
      BY <1>2, <1>t, FdsAssumption DEF GetFreeblock, Opens, TypeOK
    <2>o. owners \in [Numbers -> Nat] /\ f \in Blocks /\ f \in Numbers /\ Blocks \subseteq Numbers
      BY <2>2, <1>n, <1>t DEF TypeOK, Blocks, Numbers
    <2>i. next \in Int
      BY <2>2, <1>n DEF Blocks, End
    <2>l. \A r \in Regions : link'[r] = IF r \in 0..(f - 1) THEN next ELSE link[r]
      BY <2>3, <1>r
    <2>u. ~exhausted => \A b \in f..(N - 1) : owners[b] = 0
      BY <2>1, <1>t DEF Untaken
    <2>v. ~exhausted => \A b \in Blocks : owners[b] <= 1
      BY <1>t DEF Untaken
    <2>w. \A b \in f..(N - 2) : link[b] = IF b = N - 2 THEN End ELSE b + 2
      BY <2>1, <1>t DEF Chained
    <2>x. /\ \A r \in Regions : link[r] \in Blocks \cup {End} /\ link[r] # r + 1
          /\ link[N - 2] = End
      BY <1>t DEF NoneLinkedToNext
    <2> HIDE DEF f, next
    <2>6. TypeOK'
      <3>1. owners' \in [Numbers -> Nat]
        BY <2>3, <2>o
      <3>2. link' \in [-1..last -> Int]
        BY <2>3, <2>i, <1>r
      <3>3. \E l \in (N - 2)..Reach : link' \in [-1..l -> Int]
        BY <3>2, <1>l DEF LinkType
      <3> QED
        BY <2>3, <2>4, <2>5, <3>1, <3>3, <1>t DEF TypeOK
    <2>7. Chained'
      <3>1. next # End => \A b \in next..(N - 2) : b \in Regions /\ b \in f..(N - 2) /\ b \notin 0..(f - 1)
        BY <2>2, <1>n DEF Regions, End
      <3> QED
        BY <2>2, <2>4, <2>l, <2>w, <3>1 DEF Chained
    <2>8. NoneLinkedToNext'
      <3>1. \A r \in 0..(f - 1) : next # r + 1
        BY <2>2, <1>n DEF End
      <3>2. N - 2 \in Regions /\ N - 2 \notin 0..(f - 1)
        BY <2>2, <1>n DEF Regions
      <3> QED
        BY <2>2, <2>l, <2>x, <3>1, <3>2 DEF NoneLinkedToNext
    <2>9. Untaken'
      <3>1. \A b \in Blocks : owners'[b] = IF b = f THEN owners[f] + 1 ELSE owners[b]
        BY <2>3, <2>o
      <3>2. f \in f..(N - 1)
        BY <2>2, <1>n
      <3>3. ~exhausted => \A b \in Blocks : owners'[b] <= 1
        BY <2>u, <2>v, <3>1, <3>2
      <3>4. next # End => \A b \in next..(N - 1) : b \in f..(N - 1) /\ b \in Blocks /\ b # f
        BY <2>2, <1>n DEF Blocks
      <3>5. ~exhausted /\ next # End => \A b \in next..(N - 1) : owners'[b] = 0
        BY <2>u, <3>1, <3>4
      <3> QED
        BY <2>3, <2>4, <3>3, <3>5 DEF Untaken
    <2> QED
      BY <2>6, <2>7, <2>8, <2>9 DEF IInv
  <1>3. CASE GetNothing
    BY <1>3, <1>t, <1>d, <1>y, FdsAssumption DEF GetNothing, Opens, IInv, TypeOK, Untaken
  <1>4. CASE GetUnopened
    <2>1. UNCHANGED <<hdr, link, fds, state>> /\ exhausted' = TRUE
      BY <1>4 DEF GetUnopened
    <2>2. /\ buf' \in Buffers
          /\ owners' \in [Numbers -> Nat] /\ gets' \in Nat
          /\ ~exhausted' => FALSE
      <3>1. CASE buf.ffb = End
        BY <1>4, <3>1, <1>t DEF GetUnopened, TypeOK
      <3>2. CASE buf.ffb # End
        <4>1. buf \in Buffers /\ owners \in [Numbers -> Nat]
          BY <3>2, <1>t DEF TypeOK
        <4>2. PICK next \in Leftovers :
                buf' = [ubn |-> buf.ubn + 1, fbn |-> buf.fbn - 1, ffb |-> next]
          BY <1>4, <3>2 DEF GetUnopened
        <4>3. owners' = [owners EXCEPT ![buf.ffb] = @ + 1] /\ gets' = gets + 1
          BY <1>4, <3>2 DEF GetUnopened
        <4> QED
          <5>1. /\ buf.ubn + 1 \in Int /\ buf.fbn - 1 \in Int
                /\ next \in Numbers \cup {End} /\ buf.ffb \in Numbers
            BY <3>2, <4>1 DEF Numbers, Buffers
          <5>2. buf' \in Buffers
            BY <4>2, <5>1 DEF Buffers
          <5>3. owners' \in [Numbers -> Nat]
            BY <4>1, <4>3, <5>1
          <5>4. gets' \in Nat
            BY <4>3, <1>t DEF TypeOK
          <5> QED
            BY <2>1, <5>2, <5>3, <5>4
      <3> QED
        BY <3>1, <3>2
    <2> QED
      BY <2>1, <2>2, <1>t, <1>d DEF IInv, TypeOK, Untaken
  <1>5. CASE GetKilled
    <2> DEFINE f == hdr.ffb
               next == link[f]
    <2>1. f # End
      BY <1>5 DEF GetKilled
    <2>2. f \in 0..(N - 2) /\ next = (IF f = N - 2 THEN End ELSE f + 2)
      BY <2>1, NextFree
    <2>3. PICK m \in 0..f :
            link' = [r \in DOMAIN link |-> IF r \in 0..(m - 1) THEN next ELSE link[r]]
      BY <1>5 DEF GetKilled
    <2>4. /\ UNCHANGED <<hdr, state, owners, gets, exhausted>>
          /\ buf' = Zeros /\ fds' = 0
      BY <1>5 DEF GetKilled
    <2>l. \A r \in Regions : link'[r] = IF r \in 0..(m - 1) THEN next ELSE link[r]
      BY <2>3, <1>r
    <2>w. \A b \in f..(N - 2) : link[b] = IF b = N - 2 THEN End ELSE b + 2
      BY <2>1, <1>t DEF Chained
    <2>x. /\ \A r \in Regions : link[r] \in Blocks \cup {End} /\ link[r] # r + 1
          /\ link[N - 2] = End
      BY <1>t DEF NoneLinkedToNext
    <2>5. hdr'.ffb = f /\ f % 2 = 0
      BY <2>1, <2>4, <1>t DEF Chained
    <2> HIDE DEF f, next
    <2>6. \E l \in (N - 2)..Reach : link' \in [-1..l -> Int]
      <3>1. next \in Int
        BY <2>2, <1>n DEF End
      <3>2. link' \in [-1..last -> Int]
        BY <2>3, <3>1, <1>r
      <3> QED
        BY <3>2, <1>l DEF LinkType
    <2>7. Chained'
      <3>1. \A b \in f..(N - 2) : b \in Regions /\ b \notin 0..(m - 1)
        BY <2>2, <1>n DEF Regions
      <3> QED
        BY <2>5, <2>l, <2>w, <3>1 DEF Chained
    <2>8. NoneLinkedToNext'
      <3>1. \A r \in 0..(m - 1) : next # r + 1
        BY <2>2, <1>n DEF End
      <3>2. N - 2 \in Regions /\ N - 2 \notin 0..(m - 1)
        BY <2>2, <1>n DEF Regions
      <3>3. next \in Blocks \cup {End}
        BY <2>2, <1>n DEF Blocks
      <3> QED
        BY <2>l, <2>x, <3>1, <3>2, <3>3 DEF NoneLinkedToNext
    <2>9. TypeOK'
      BY <2>4, <2>6, <1>t, <1>z, FdsAssumption DEF TypeOK
    <2> QED
      BY <2>4, <2>7, <2>8, <2>9, <1>t DEF IInv, Untaken
  <1>6. ASSUME NEW bno \in Numbers, FreeBlock(bno) \/ FreeKilled(bno)
        PROVE  IInv'
    <2>1. hdr' = hdr /\ \A r \in Regions : link'[r] = link[r]
      BY <1>6, FreeWrites
    <2>2. \E l \in (N - 2)..Reach : link' \in [-1..l -> Int]
      BY <1>6, FreeWrites DEF LinkType
    <2>3. owners \in [Numbers -> Nat] /\ hdr \in Headers /\ fds \in 0..MaxFds /\ Blocks \subseteq Numbers
      BY <1>t DEF TypeOK, Numbers
    <2>4. /\ owners' \in [Numbers -> Nat] /\ \A b \in Numbers : owners'[b] <= owners[b]
          /\ buf' \in Buffers
          /\ fds' \in 0..MaxFds
          /\ UNCHANGED <<state, gets, exhausted>>
      <3>1. CASE FreeBlock(bno)
        <4>1. /\ owners' = [owners EXCEPT ![bno] = @ - 1] /\ owners[bno] > 0
              /\ buf' = [hdr EXCEPT !.ubn = @ - 1, !.fbn = @ + 1]
              /\ fds' = fds + 1 /\ fds < MaxFds
              /\ UNCHANGED <<state, gets, exhausted>>
          BY <3>1 DEF FreeBlock, Opens
        <4>2. owners' \in [Numbers -> Nat] /\ \A b \in Numbers : owners'[b] <= owners[b]
          BY <2>3, <4>1
        <4>3. buf' \in Buffers
          <5>1. hdr \in Buffers
            BY <2>3, <1>y
          <5>2. hdr.ubn - 1 \in Int /\ hdr.fbn + 1 \in Int
            BY <5>1 DEF Buffers
          <5> QED
            BY <4>1, <5>1, <5>2 DEF Buffers
        <4> QED
          BY <2>3, <4>1, <4>2, <4>3, FdsAssumption
      <3>2. CASE FreeKilled(bno)
        BY <2>3, <3>2, <1>z, FdsAssumption DEF FreeKilled
      <3> QED
        BY <1>6, <3>1, <3>2
    <2>5. TypeOK'
      BY <2>1, <2>2, <2>3, <2>4, <1>t DEF TypeOK
    <2>6. Chained'
      <3>1. hdr.ffb # End => hdr.ffb..(N - 2) \subseteq Regions
        BY <2>3, <1>n DEF Headers, Blocks, Regions
      <3> QED
        BY <2>1, <3>1, <1>t DEF Chained
    <2>7. NoneLinkedToNext'
      <3>1. N - 2 \in Regions
        BY <1>n DEF Regions
      <3> QED
        BY <2>1, <3>1, <1>t DEF NoneLinkedToNext
    <2>8. Untaken'
      <3>1. hdr.ffb # End => hdr.ffb..(N - 1) \subseteq Blocks
        BY <2>3, <1>n DEF Headers, Blocks
      <3>2. \A b \in Blocks : owners'[b] \in Nat /\ owners[b] \in Nat /\ owners'[b] <= owners[b]
        BY <2>3, <2>4
      <3> QED
        BY <2>1, <2>4, <3>1, <3>2, <1>t DEF Untaken
    <2> QED
      BY <2>5, <2>6, <2>7, <2>8 DEF IInv
  <1>7. ASSUME NEW bno \in Numbers, FreeUnopened(bno)
        PROVE  IInv'
    <2>1. buf' \in Buffers
      <3>1. buf \in Buffers
        BY <1>t DEF TypeOK
      <3>2. buf.ubn - 1 \in Int /\ buf.fbn + 1 \in Int
        BY <3>1 DEF Buffers
      <3>3. buf' = [buf EXCEPT !.ubn = @ - 1, !.fbn = @ + 1]
        BY <1>7 DEF FreeUnopened
      <3> QED
        BY <3>1, <3>2, <3>3 DEF Buffers
    <2> QED
      BY <1>7, <2>1, <1>t, <1>d DEF FreeUnopened, IInv, TypeOK, Untaken
  <1>8. CASE Restart
    BY <1>8, <1>t, <1>d, <1>z, FdsAssumption DEF Restart, IInv, TypeOK, Untaken
  <1>9. CASE UNCHANGED vars
    BY <1>9, <1>t, <1>d DEF vars, IInv, TypeOK, Untaken
  <1> QED
    BY <1>1, <1>k, <1>2, <1>3, <1>4, <1>5, <1>6, <1>7, <1>8, <1>9 DEF Next

-----------------------------------------------------------------------------

(* The first free block is always a block of the file or the end mark,     *)
(* and every link a number, for any number of blocks (as7.c).              *)
THEOREM TypeCorrect == Spec => []TypeOK
  <1>1. IInv => TypeOK
    BY DEF IInv
  <1> QED
    BY <1>1, InitIInv, NextIInv, PTL DEF Spec

(* get_freeblock() never gives a block to a second caller while descriptors *)
(* last, although free_block() and init_File_dd() are called at any time   *)
(* and calls are killed between their writes (get_freeblock).              *)
THEOREM NeverTwice == Spec => []NoDoubleAllocation
  <1>1. IInv => NoDoubleAllocation
    BY DEF IInv, Untaken, NoDoubleAllocation
  <1> QED
    BY <1>1, InitIInv, NextIInv, PTL DEF Spec

(* free_block() never changes the header nor a link of a block, whatever   *)
(* number it is given and wherever it is killed, and for the number of a   *)
(* block it writes nothing at all: a block that was taken stays taken      *)
(* (free_block).                                                           *)
THEOREM FreeKeepsList == Spec => FreeLeavesList
  <1>1. IInv /\ [Next]_vars =>
          [\A b \in Numbers : FreeBlock(b) \/ FreeKilled(b) =>
             /\ hdr' = hdr
             /\ \A r \in Regions : link'[r] = link[r]
             /\ b \in Blocks => link' = link]_vars
    BY FreeWrites
  <1> QED
    BY <1>1, InitIInv, NextIInv, PTL DEF Spec, FreeLeavesList

-----------------------------------------------------------------------------
(* The list in closed form.  Chain is a recursive function: a function     *)
(* with its values is given, so Chain has them up to any least exception.  *)

Walk == [k \in 0..N |->
            IF hdr.ffb = End \/ hdr.ffb + 2 * k > N - 2 THEN End ELSE hdr.ffb + 2 * k]

Follows(f, k) == IF k = 0 THEN hdr.ffb ELSE IF f[k - 1] = End THEN End ELSE link[f[k - 1]]

LEMMA LeastNatural ==
    ASSUME NEW S, S \subseteq Nat, S # {}
    PROVE  \E m \in S : \A k \in S : m <= k
  <1> DEFINE R == OpToRel(<, Nat)
  <1>1. IsWellFoundedOn(R, Nat)
    BY NatLessThanWellFounded, Zenon
  <1>2. \A x, y \in Nat : y < x => <<y, x>> \in R
    BY DEF OpToRel
  <1> HIDE DEF R
  <1>3. PICK m \in S : \A k \in S : <<k, m>> \notin R
    BY <1>1, WFMin
  <1>4. \A k \in S : ~(k < m)
    BY <1>2, <1>3
  <1>5. \A k \in S : m <= k
    <2> SUFFICES ASSUME NEW k \in S PROVE m <= k
      OBVIOUS
    <2>1. k \in Nat /\ m \in Nat /\ ~(k < m)
      BY <1>4
    <2> QED
      BY <2>1
  <1> QED
    BY <1>5

LEMMA WalkFollows ==
    ASSUME IInv
    PROVE  \A k \in 0..N : Walk[k] = Follows(Walk, k)
  <1>n. N \in Nat /\ N >= 2
    BY NAssumption
  <1>f. hdr.ffb \in Blocks \cup {End}
    BY DEF IInv, TypeOK, Headers
  <1> SUFFICES ASSUME NEW k \in 0..N PROVE Walk[k] = Follows(Walk, k)
    OBVIOUS
  <1>1. CASE hdr.ffb = End
    BY <1>1, <1>n DEF Walk, Follows
  <1>2. CASE hdr.ffb # End
    <2> DEFINE f == hdr.ffb
    <2>1. f \in 0..(N - 2) /\ f # End
      BY <1>2, NextFree
    <2>2. \A b \in f..(N - 2) : link[b] = IF b = N - 2 THEN End ELSE b + 2
      BY <1>2 DEF IInv, Chained
    <2>3. \A m \in 0..N : Walk[m] = IF f + 2 * m > N - 2 THEN End ELSE f + 2 * m
      BY <2>1 DEF Walk
    <2>p. f % 2 = 0 /\ N % 2 = 0
      BY <1>2, NextFree, NAssumption
    <2>4. CASE k = 0
      BY <2>1, <2>3, <2>4, <1>n DEF Follows
    <2>5. CASE k # 0
      <3>1. k - 1 \in 0..N /\ f + 2 * k = f + 2 * (k - 1) + 2
        BY <2>1, <2>5, <1>n
      <3>2. CASE f + 2 * (k - 1) > N - 2
        BY <2>1, <2>3, <2>5, <3>1, <3>2, <1>n DEF Follows
      <3>3. CASE ~(f + 2 * (k - 1) > N - 2)
        <4>1. f + 2 * (k - 1) \in f..(N - 2) /\ f + 2 * (k - 1) # End
          BY <2>1, <3>1, <3>3, <1>n DEF End
        <4>2. Walk[k - 1] = f + 2 * (k - 1)
          BY <2>3, <3>1, <3>3
        <4>3. f + 2 * (k - 1) # N - 2 => f + 2 * (k - 1) <= N - 4
          <5> DEFINE b == k - 1
          <5>1. b \in Nat
            BY <2>5
          <5> HIDE DEF f, b
          <5> SUFFICES f + 2 * b # N - 2 => f + 2 * b <= N - 4
            BY DEF b
          <5> QED
            BY <2>1, <2>p, <3>3, <5>1, <1>n DEF b
        <4>4. Follows(Walk, k) = link[f + 2 * (k - 1)]
          BY <2>5, <4>1, <4>2 DEF Follows
        <4>5. link[f + 2 * (k - 1)] = IF f + 2 * (k - 1) = N - 2 THEN End ELSE f + 2 * (k - 1) + 2
          BY <2>2, <4>1
        <4> QED
          BY <2>1, <2>3, <3>1, <3>3, <4>3, <4>4, <4>5, <1>n
      <3> QED
        BY <3>2, <3>3
    <2> QED
      BY <2>4, <2>5
  <1> QED
    BY <1>1, <1>2

LEMMA ChainIsWalk ==
    ASSUME IInv
    PROVE  \A k \in 0..N : Chain[k] = Walk[k]
  <1> DEFINE Def(f) == [k \in 0..N |-> Follows(f, k)]
  <1>1. Walk = [k \in 0..N |-> Walk[k]]
    BY DEF Walk
  <1>2. Walk = Def(Walk)
    BY <1>1, WalkFollows
  <1>3. Chain = CHOOSE f : f = Def(f)
    BY DEF Chain, Follows
  <1>4. Chain = Def(Chain)
    <2> HIDE DEF Def
    <2> QED
      BY <1>2, <1>3
  <1>5. \A k \in 0..N : Chain[k] = Follows(Chain, k)
    BY <1>4
  <1> DEFINE Bad == {k \in 0..N : Chain[k] # Walk[k]}
  <1>6. ASSUME Bad # {} PROVE FALSE
    <2>1. PICK m \in Bad : \A k \in Bad : m <= k
      <3>1. Bad \subseteq Nat
        BY NAssumption
      <3> QED
        BY <1>6, <3>1, LeastNatural
    <2>2. m \in 0..N /\ Chain[m] # Walk[m]
      BY <2>1
    <2>3. m # 0 => m - 1 \in 0..N /\ m - 1 \notin Bad
      <3> HIDE DEF Bad
      <3>1. m # 0 => m - 1 \in 0..N /\ ~(m <= m - 1)
        BY <2>2, NAssumption
      <3> QED
        BY <2>1, <3>1
    <2>4. m # 0 => Chain[m - 1] = Walk[m - 1]
      BY <2>3
    <2>5. Follows(Chain, m) = Follows(Walk, m)
      BY <2>4 DEF Follows
    <2> QED
      BY <1>5, <2>2, <2>5, WalkFollows
  <1> QED
    BY <1>6

(* The blocks of the list are those from ffb on, and it ends.              *)
LEMMA ListEnds ==
    ASSUME IInv
    PROVE  /\ Chain[N] = End
           /\ FreeList # {} => hdr.ffb # End
           /\ FreeList \subseteq hdr.ffb..(N - 1)
  <1>n. N \in Nat /\ N >= 2
    BY NAssumption
  <1>f. hdr.ffb \in Int /\ (hdr.ffb # End => hdr.ffb >= 0)
    BY <1>n DEF IInv, TypeOK, Headers, Blocks, End
  <1>1. Chain[N] = End
    <2>1. N \in 0..N
      BY <1>n
    <2>2. Walk[N] = End
      BY <2>1, <1>n, <1>f DEF Walk
    <2> QED
      BY <2>1, <2>2, ChainIsWalk
  <1>2. ASSUME NEW b \in FreeList
        PROVE  hdr.ffb # End /\ b \in hdr.ffb..(N - 1)
    <2>1. PICK k \in 0..N : b = Walk[k] /\ b # End
      BY <1>2, ChainIsWalk DEF FreeList
    <2>2. hdr.ffb # End /\ b = hdr.ffb + 2 * k /\ ~(hdr.ffb + 2 * k > N - 2)
      BY <2>1 DEF Walk
    <2> QED
      BY <2>2, <1>n, <1>f
  <1> QED
    BY <1>1, <1>2

(* The list of free blocks ends, for any number of blocks, and no block in *)
(* it has an owner, whatever calls were killed between their writes        *)
(* (get_freeblock, free_block).                                            *)
THEOREM ListStaysFree == Spec => []ListIsFree
  <1>1. ASSUME IInv PROVE ListIsFree
    <2>1. ~exhausted /\ hdr.ffb # End => \A b \in hdr.ffb..(N - 1) : owners[b] = 0
      BY <1>1 DEF IInv, Untaken
    <2> QED
      BY <1>1, <2>1, ListEnds DEF ListIsFree
  <1>2. IInv => ListIsFree
    BY <1>1
  <1> QED
    BY <1>2, InitIInv, NextIInv, PTL DEF Spec

-----------------------------------------------------------------------------
(***************************************************************************)
(* The Collatz sequence in shared memory: first the sequence, which is     *)
(* defined by recursion over the cells of a segment.                       *)
(***************************************************************************)
LEMMA SetInduction ==
    ASSUME NEW S, S \subseteq Nat, 0 \in S, \A m \in S : m + 1 \in S
    PROVE  Nat \subseteq S
<1> SUFFICES ASSUME Nat \ S # {} PROVE FALSE
  OBVIOUS
<1>1. PICK x \in Nat \ S : \A y \in Nat \ S : x <= y
  BY LeastNatural
<1>2. x \in Nat /\ x # 0 /\ x - 1 \in Nat /\ x - 1 < x /\ (x - 1) + 1 = x
  OBVIOUS
<1>3. x - 1 \in S
  BY <1>1, <1>2
<1> QED BY <1>1, <1>2, <1>3

LEMMA SizeOK ==
    Size \in Nat \ {0} /\ Half \in Nat \ {0} /\ MaxKills \in Nat /\ Behind \in Nat /\ Outside \subseteq Ints
BY SizeAssumption, OutAssumption DEF Ints

(* The term after p.                                                       *)
After(p) == IF p \in {1, -1} THEN -1 ELSE IF p % 2 = 0 THEN p \div 2 ELSE 3 * p + 1

(* The recursion of Terms has a solution: it has one on 0..m for every m.  *)
Extends(t, v, m) == t = [c \in 0..m |-> IF c = 0 THEN v ELSE After(t[c - 1])]

LEMMA TermsExtend ==
    ASSUME NEW v, NEW m \in Nat, NEW t, Extends(t, v, m)
    PROVE  \E u : Extends(u, v, m + 1)
<1> DEFINE u == [c \in 0..m + 1 |-> IF c <= m THEN t[c] ELSE After(t[m])]
<1>1. ASSUME NEW c \in 0..m + 1 PROVE u[c] = IF c = 0 THEN v ELSE After(u[c - 1])
  <2>1. CASE c = 0
    <3>1. t[0] = v
      BY DEF Extends
    <3> QED BY <2>1, <3>1
  <2>2. CASE c \in 1..m
    <3>1. c - 1 \in 0..m /\ c \in 0..m /\ c # 0
      BY <2>2
    <3>2. t[c] = After(t[c - 1])
      BY <3>1 DEF Extends
    <3>3. u[c] = t[c] /\ u[c - 1] = t[c - 1]
      BY <3>1
    <3> QED BY <3>1, <3>2, <3>3
  <2>3. CASE c = m + 1
    <3>1. u[m] = t[m] /\ u[c] = After(t[m]) /\ c - 1 = m /\ c # 0
      BY <2>3
    <3> QED BY <3>1
  <2> QED BY <2>1, <2>2, <2>3
<1>2. u = [c \in 0..m + 1 |-> IF c = 0 THEN v ELSE After(u[c - 1])]
  <2> DEFINE w == [c \in 0..m + 1 |-> IF c = 0 THEN v ELSE After(u[c - 1])]
  <2>1. \A c \in 0..m + 1 : u[c] = w[c]
    BY <1>1
  <2>2. DOMAIN u = 0..m + 1 /\ DOMAIN w = 0..m + 1 /\ u = [c \in 0..m + 1 |-> u[c]]
        /\ w = [c \in 0..m + 1 |-> w[c]]
    OBVIOUS
  <2> HIDE DEF u, w
  <2>3. u = w
    BY <2>1, <2>2
  <2> QED BY <2>3 DEF w
<1> HIDE DEF u
<1> QED BY <1>2 DEF Extends

LEMMA TermsExist == ASSUME NEW v PROVE \E t : Extends(t, v, Size - 1)
<1> DEFINE S == {m \in Nat : \E t : Extends(t, v, m)}
<1>1. 0 \in S
  <2> DEFINE t == [c \in 0..0 |-> v]
  <2>1. t = [c \in 0..0 |-> IF c = 0 THEN v ELSE After(t[c - 1])]
    OBVIOUS
  <2> HIDE DEF t
  <2>2. Extends(t, v, 0)
    BY <2>1 DEF Extends
  <2> QED BY <2>2
<1>2. \A m \in S : m + 1 \in S
  BY TermsExtend
<1> HIDE DEF S
<1>3. Nat \subseteq S
  <2>1. S \subseteq Nat
    BY DEF S
  <2> QED BY <1>1, <1>2, <2>1, SetInduction
<1>4. Size - 1 \in Nat
  BY SizeOK
<1> QED BY <1>3, <1>4 DEF S

TermsOf(v) == CHOOSE t : t = [c \in Cells |-> IF c = 0 THEN v ELSE After(t[c - 1])]

LEMMA TermsAre ==
    ASSUME NEW v
    PROVE  /\ 0 \in Cells => Terms(v)[0] = v
           /\ \A c \in Cells : c # 0 => Terms(v)[c] = After(Terms(v)[c - 1])
<1>1. Terms(v) = TermsOf(v)
  BY DEF Terms, TermsOf, After
<1>2. \E t : t = [c \in Cells |-> IF c = 0 THEN v ELSE After(t[c - 1])]
  BY TermsExist DEF Extends, Cells
<1>3. TermsOf(v) = [c \in Cells |-> IF c = 0 THEN v ELSE After(TermsOf(v)[c - 1])]
  BY <1>2 DEF TermsOf
<1> QED BY <1>1, <1>3

(* A number in range: its sequence ends at a first -1, after the term 1.   *)
LEMMA RangeEnds ==
    ASSUME NEW v \in Int, InRange(v)
    PROVE  /\ EndOf(v) \in Cells /\ EndOf(v) # 0 /\ v >= 1
           /\ Terms(v)[0] = v /\ Terms(v)[EndOf(v)] = -1
           /\ \A c \in Cells : c < EndOf(v) => Terms(v)[c] # -1
           /\ \A c \in Cells : c <= EndOf(v) => Terms(v)[c] \in Ints
<1> DEFINE T == Terms(v)
           E == {c \in Cells : T[c] = -1}
<1>1. PICK e \in Cells : T[e] = -1 /\ \A d \in 0..e : T[d] \in Ints
  BY DEF InRange
<1>2. PICK f \in E : \A c \in E : f <= c
  <2>1. E \subseteq Nat /\ E # {}
    BY <1>1 DEF Cells
  <2> HIDE DEF E
  <2> QED BY <2>1, LeastNatural
<1>3. f \in Cells /\ T[f] = -1 /\ \A d \in 0..f - 1 : T[d] # -1
  BY <1>2, SizeOK DEF Cells
<1>4. /\ EndOf(v) \in Cells /\ T[EndOf(v)] = -1
      /\ \A d \in 0..EndOf(v) - 1 : T[d] # -1
  <2> HIDE DEF T
  <2>1. \E c \in Cells : T[c] = -1 /\ \A d \in 0..c - 1 : T[d] # -1
    BY <1>3
  <2> QED BY <2>1 DEF EndOf, T
<1>5. 0 \in Cells /\ T[0] = v /\ v >= 1
  BY SizeOK, TermsAre DEF Cells, InRange
<1>6. EndOf(v) # 0
  BY <1>4, <1>5
<1>7. EndOf(v) <= e
  BY <1>1, <1>4, SizeOK DEF Cells
<1>8. \A c \in Cells : c < EndOf(v) => T[c] # -1
  BY <1>4, SizeOK DEF Cells
<1>9. \A c \in Cells : c <= EndOf(v) => T[c] \in Ints
  BY <1>1, <1>4, <1>7, SizeOK DEF Cells
<1> QED BY <1>4, <1>5, <1>6, <1>8, <1>9

(* What the child computes is the next term as long as that fits an int.   *)
LEMMA NextTerm ==
    ASSUME NEW v \in Int, InRange(v), NEW c \in Cells, c < EndOf(v), Terms(v)[c] >= 1
    PROVE  /\ Terms(v)[c] = 1 => c + 1 = EndOf(v)
           /\ Terms(v)[c] # 1 => /\ c + 1 < EndOf(v) /\ Terms(v)[c + 1] >= 1
                                 /\ Collatz(Terms(v)[c]) = Terms(v)[c + 1]
<1> DEFINE p == Terms(v)[c]
           q == Terms(v)[c + 1]
<1>1. c \in Nat /\ c + 1 \in Cells /\ c + 1 # 0 /\ (c + 1) - 1 = c /\ EndOf(v) \in Cells
  BY RangeEnds, SizeOK DEF Cells
<1>2. q = After(p)
  BY <1>1, TermsAre
<1>3. p \in Int /\ p >= 1 /\ c + 1 <= EndOf(v) /\ EndOf(v) \in Nat
  BY <1>1, RangeEnds, SizeOK DEF Cells, Ints
<1>4. q \in -Half .. Half - 1
  BY <1>1, <1>3, RangeEnds DEF Ints
<1>5. c + 1 < EndOf(v) => q # -1
  BY <1>1, RangeEnds
<1>6. c + 1 = EndOf(v) => q = -1
  BY RangeEnds
<1> SUFFICES /\ p = 1 => c + 1 = EndOf(v)
             /\ p # 1 => c + 1 < EndOf(v) /\ q >= 1 /\ Collatz(p) = q
  OBVIOUS
<1> HIDE DEF p, q
<1>7. CASE p = 1
  <2>1. q = -1
    BY <1>2, <1>7 DEF After
  <2> QED BY <1>1, <1>3, <1>5, <1>7, <2>1
<1>8. CASE p # 1 /\ p % 2 = 0
  <2>1. q = p \div 2 /\ Collatz(p) = p \div 2
    BY <1>2, <1>3, <1>8 DEF After, Collatz
  <2>2. p \div 2 >= 1
    BY <1>3, <1>8
  <2>3. q >= 1
    BY <2>1, <2>2
  <2> QED BY <1>1, <1>3, <1>6, <1>8, <2>1, <2>3
<1>9. CASE p # 1 /\ p % 2 # 0
  <2>1. q = 3 * p + 1 /\ Collatz(p) = Wrap(3 * p + 1)
    BY <1>2, <1>3, <1>9 DEF After, Collatz
  <2>2. Wrap(q) = q
    BY <1>4, SizeOK DEF Wrap
  <2>3. q >= 1
    BY <1>3, <2>1
  <2> QED BY <1>1, <1>3, <1>6, <1>9, <2>1, <2>2, <2>3
<1> QED BY <1>7, <1>8, <1>9

LEMMA CollatzInts == ASSUME NEW v \in Ints PROVE Collatz(v) \in Ints
<1>1. v \in Int /\ v >= -Half /\ v < Half
  BY SizeOK DEF Ints
<1>2. CASE v % 2 = 0
  BY <1>1, <1>2, SizeOK DEF Ints, Collatz
<1>3. CASE v % 2 # 0
  <2>1. Collatz(v) = ((3 * v + 1 + Half) % (2 * Half)) - Half
    BY <1>3 DEF Collatz, Wrap
  <2>2. 3 * v + 1 + Half \in Int /\ 2 * Half \in Nat \ {0}
    BY <1>1, SizeOK
  <2>3. (3 * v + 1 + Half) % (2 * Half) \in 0 .. 2 * Half - 1
    BY <2>2
  <2> QED BY <2>1, <2>3, SizeOK DEF Ints
<1> QED BY <1>2, <1>3

-----------------------------------------------------------------------------
(* Where parent and child may be together, and what they have then.        *)
Points ==
    \A r \in Runs :
        /\ parent[r] \in {"open", "fork", "wait", "print", "unlink"} \cup Stopped
        /\ child[r] \in {"none", "loop", "end", "unlink"} \cup Stopped
        /\ parent[r] = "open" => seg[r] = 0
        /\ parent[r] \in {"open", "fork"} => child[r] = "none"
        /\ parent[r] \in {"fork", "wait", "print", "unlink", "fault"} => seg[r] # 0
        /\ child[r] # "none" => seg[r] # 0
        /\ parent[r] = "wait" => child[r] # "none"
        /\ parent[r] \in {"print", "unlink", "fault"} => child[r] \in Stopped
        /\ parent[r] = "ended" /\ child[r] # "none" => child[r] \in Stopped
        /\ child[r] = "none" => put[r] = 0
        /\ parent[r] \in {"open", "fork", "wait"} => get[r] = 0

(* The name is that of the last segment; each run makes one at most.       *)
Named ==
    /\ name \in {0, made}
    /\ \A r \in Runs : parent[r] = "open" => made <= 1
    /\ (\A r \in Runs : parent[r] = "open") => made = 0

TInv == ShmTypeOK /\ Points /\ Named

LEMMA InitTInv == ShmInit => TInv
<1> SUFFICES ASSUME ShmInit PROVE TInv
  OBVIOUS
<1>1. 0 \in Cells /\ 0 \in Ints /\ Inputs \subseteq Ints
  BY SizeOK, InputAssumption DEF Cells, Ints
<1>2. ShmTypeOK
  <2>1. /\ input \in [Runs -> Inputs] /\ name = 0 /\ made = 0 /\ broken = 0 /\ together = FALSE
        /\ mem = [s \in Runs |-> [c \in Cells |-> 0]] /\ seg = [r \in Runs |-> 0]
        /\ parent = [r \in Runs |-> "open"] /\ child = [r \in Runs |-> "none"]
        /\ n = [r \in Runs |-> 0] /\ put = [r \in Runs |-> 0] /\ get = [r \in Runs |-> 0]
    BY DEF ShmInit
  <2>2. mem \in [Runs -> [Cells -> Ints]]
    BY <1>1, <2>1
  <2>3. \A r \in Runs : Len(printed[r]) = get[r]
    BY <2>1 DEF ShmInit
  <2>4. /\ broken \in 0..MaxKills
        /\ put \in [Runs -> 0..Size + Behind] /\ get \in [Runs -> 0..Size + Behind]
    <3>1. 0 \in 0..Size + Behind /\ 0 \in 0..MaxKills
      BY SizeOK
    <3> QED BY <2>1, <3>1
  <2>8. printed \in [Runs -> Seq(Ints)]
    BY DEF ShmInit
  <2>5. name \in 0..made /\ made \in 0..2 /\ seg \in [Runs -> 0..made]
    BY <2>1
  <2>6. /\ parent \in [Runs -> Active \cup Stopped]
        /\ child \in [Runs -> Active \cup Stopped \cup {"none"}]
    BY <2>1 DEF Active
  <2>7. n \in [Runs -> Ints] /\ together \in BOOLEAN /\ input \in [Runs -> Inputs]
    BY <1>1, <2>1
  <2> QED BY <2>2, <2>3, <2>4, <2>5, <2>6, <2>7, <2>8 DEF ShmTypeOK
<1>3. Points /\ Named
  BY DEF ShmInit, Points, Named, Stopped
<1> QED BY <1>2, <1>3 DEF TInv

(* A store by a child: one number more in its segment or behind it, or a   *)
(* fault.                                                                  *)
Stores(r, v, to) ==
    \/ /\ put[r] \in Cells /\ seg[r] \in Runs
       /\ mem' = [mem EXCEPT ![seg[r]][put[r]] = v] /\ put' = [put EXCEPT ![r] = put[r] + 1]
       /\ child' = [child EXCEPT ![r] = to]
    \/ /\ put[r] \in Past /\ mem' = mem /\ put' = [put EXCEPT ![r] = put[r] + 1]
       /\ child' = [child EXCEPT ![r] = to]
    \/ put[r] \notin Cells /\ UNCHANGED <<mem, put>> /\ child' = [child EXCEPT ![r] = "fault"]

LEMMA StoreIs ==
    ASSUME TInv, NEW r \in Runs, child[r] # "none", NEW v \in Ints, NEW to, Store(r, v, to)
    PROVE  Stores(r, v, to)
<1>1. seg[r] \in Runs
  BY DEF TInv, ShmTypeOK, Points, Runs
<1> QED BY <1>1 DEF Store, Stores, Set

LEMMA StoresTInv ==
    ASSUME TInv, NEW r \in Runs, NEW v \in Ints, NEW to, Stores(r, v, to),
           child[r] \in {"loop", "end"}, to \in {"loop", "end", "unlink"},
           n' \in [Runs -> Ints],
           UNCHANGED <<input, name, made, seg, parent, get, printed, ghosts>>
    PROVE  TInv'
<1> USE DEF TInv
<1> DEFINE Into == /\ put[r] \in Cells /\ seg[r] \in Runs
                   /\ mem' = [mem EXCEPT ![seg[r]][put[r]] = v] /\ put' = [put EXCEPT ![r] = put[r] + 1]
                   /\ child' = [child EXCEPT ![r] = to]
           Beyond == /\ put[r] \in Past /\ mem' = mem /\ put' = [put EXCEPT ![r] = put[r] + 1]
                     /\ child' = [child EXCEPT ![r] = to]
<1>1. CASE Into \/ Beyond
  <2>1. put' = [put EXCEPT ![r] = put[r] + 1] /\ child' = [child EXCEPT ![r] = to]
    BY <1>1
  <2>2. mem' \in [Runs -> [Cells -> Ints]]
    <3>1. mem \in [Runs -> [Cells -> Ints]]
      BY DEF ShmTypeOK
    <3>2. CASE Into
      BY <3>1, <3>2
    <3> QED BY <1>1, <3>1, <3>2
  <2>3. put[r] + 1 \in 0..Size + Behind
    <3>1. put[r] \in 0..Size - 1 \/ put[r] \in Size..Size + Behind - 1
      BY <1>1 DEF Cells, Past
    <3> QED BY <3>1, SizeOK
  <2>4. ShmTypeOK'
    <3> HIDE DEF Into, Beyond
    <3> QED BY <2>1, <2>2, <2>3 DEF ShmTypeOK, ghosts, Active
  <2>5. Points'
    <3> SUFFICES ASSUME NEW q \in Runs PROVE Points!(q)'
      BY DEF Points
    <3>1. child'[r] = to /\ (q # r => child'[q] = child[q] /\ put'[q] = put[q])
      BY <2>1 DEF ShmTypeOK
    <3> HIDE DEF Into, Beyond
    <3> QED BY <2>1, <3>1 DEF Points, Stopped
  <2> QED BY <2>4, <2>5 DEF Named
<1>2. CASE put[r] \notin Cells /\ UNCHANGED <<mem, put>> /\ child' = [child EXCEPT ![r] = "fault"]
  <2>1. put' = put /\ mem' = mem /\ child' = [child EXCEPT ![r] = "fault"]
    BY <1>2
  <2>2. ShmTypeOK'
    BY <2>1 DEF ShmTypeOK, ghosts, Stopped
  <2>3. Points'
    <3> SUFFICES ASSUME NEW q \in Runs PROVE Points!(q)'
      BY DEF Points
    <3>1. child'[r] = "fault" /\ (q # r => child'[q] = child[q])
      BY <2>1 DEF ShmTypeOK
    <3> QED BY <2>1, <3>1 DEF Points, Stopped
  <2> QED BY <2>2, <2>3 DEF Named
<1> QED BY <1>1, <1>2 DEF Stores

LEMMA LoopStores == ASSUME TInv, NEW r \in Runs, Loop(r) PROVE Stores(r, n[r], "loop")
BY StoreIs DEF Loop, TInv, ShmTypeOK

LEMMA StoreOneStores == ASSUME TInv, NEW r \in Runs, StoreOne(r) PROVE Stores(r, 1, "end") /\ 1 \in Ints
<1>1. 1 \in Ints
  BY DEF StoreOne, TInv, ShmTypeOK
<1> QED BY <1>1, StoreIs DEF StoreOne

LEMMA StoreEndStores ==
    ASSUME TInv, NEW r \in Runs, StoreEnd(r) PROVE Stores(r, -1, "unlink") /\ -1 \in Ints
<1>1. -1 \in Ints
  BY SizeOK DEF Ints
<1> QED BY <1>1, StoreIs DEF StoreEnd

LEMMA ChildTInv == ASSUME TInv, NEW r \in Runs, Child(r) PROVE TInv'
<1>1. CASE Loop(r)
  <2>1. n[r] \in Ints /\ n' \in [Runs -> Ints]
    BY <1>1, CollatzInts DEF Loop, Set, TInv, ShmTypeOK
  <2>2. UNCHANGED <<input, name, made, seg, parent, get, printed, ghosts>> /\ child[r] = "loop"
    BY <1>1 DEF Loop
  <2> QED BY <1>1, <2>1, <2>2, LoopStores, StoresTInv
<1>2. CASE StoreOne(r)
  <2>1. n' \in [Runs -> Ints]
    BY <1>2 DEF StoreOne, TInv, ShmTypeOK
  <2>2. UNCHANGED <<input, name, made, seg, parent, get, printed, ghosts>> /\ child[r] = "loop"
    BY <1>2 DEF StoreOne
  <2> QED BY <1>2, <2>1, <2>2, StoreOneStores, StoresTInv
<1>3. CASE StoreEnd(r)
  <2>1. n' \in [Runs -> Ints]
    BY <1>3 DEF StoreEnd, TInv, ShmTypeOK
  <2>2. UNCHANGED <<input, name, made, seg, parent, get, printed, ghosts>> /\ child[r] = "end"
    BY <1>3 DEF StoreEnd
  <2> QED BY <1>3, <2>1, <2>2, StoreEndStores, StoresTInv
<1>4. CASE ChildUnlink(r)
  <2>1. ShmTypeOK'
    BY <1>4 DEF ChildUnlink, Unlink, Set, TInv, ShmTypeOK, numbers, ghosts, Stopped
  <2>2. Points'
    BY <1>4 DEF ChildUnlink, Set, TInv, ShmTypeOK, Points, numbers, Stopped
  <2> QED BY <1>4, <2>1, <2>2 DEF ChildUnlink, Unlink, TInv, Named
<1>5. CASE Corrupted(r)
  <2>1. ShmTypeOK'
    BY <1>5 DEF Corrupted, objects, Set, TInv, ShmTypeOK, numbers, ghosts, Stopped
  <2>2. Points'
    BY <1>5 DEF Corrupted, objects, Set, TInv, ShmTypeOK, Points, numbers, Stopped
  <2> QED BY <1>5, <2>1, <2>2 DEF Corrupted, objects, TInv, Named
<1> QED BY <1>1, <1>2, <1>3, <1>4, <1>5 DEF Child

LEMMA ParentTInv == ASSUME TInv, NEW r \in Runs, Parent(r) PROVE TInv'
<1> USE DEF TInv
<1>1. CASE Open(r)
  <2>1. /\ made' \in 0..2 /\ name' \in 0..made' /\ made <= made' /\ name' # 0
        /\ name' = made' /\ made' \in Int /\ (\A q \in Runs : q # r /\ parent[q] = "open" => made' <= 1)
    BY <1>1 DEF Open, ShmTypeOK, Named, Runs
  <2>2. /\ seg' = [seg EXCEPT ![r] = name'] /\ parent' = [parent EXCEPT ![r] = "fork"]
        /\ together' \in BOOLEAN /\ parent[r] = "open"
        /\ UNCHANGED <<input, mem, child, n, put, get, printed, broken>>
    BY <1>1 DEF Open, Set, numbers, ShmTypeOK
  <2>3. ShmTypeOK'
    BY <2>1, <2>2 DEF ShmTypeOK, Active
  <2>4. Points'
    BY <2>1, <2>2 DEF ShmTypeOK, Points
  <2>5. Named'
    BY <2>1, <2>2 DEF ShmTypeOK, Named
  <2> QED BY <2>2, <2>3, <2>4, <2>5
<1>2. CASE OpenFails(r)
  <2>1. /\ made' \in 0..2 /\ name' \in 0..made' /\ made <= made'
        /\ name' \in {0, made'} /\ (\A q \in Runs : q # r /\ parent[q] = "open" => made' <= 1)
    BY <1>2 DEF OpenFails, ShmTypeOK, Named, Runs
  <2>2. /\ parent' = [parent EXCEPT ![r] = "ended"] /\ parent[r] = "open"
        /\ broken' \in 0..MaxKills
        /\ UNCHANGED <<input, mem, seg, child, n, put, get, printed, together>>
    BY <1>2, SizeOK DEF OpenFails, Set, numbers, ShmTypeOK
  <2>3. ShmTypeOK'
    BY <2>1, <2>2 DEF ShmTypeOK, Stopped
  <2>4. Points'
    BY <2>1, <2>2 DEF ShmTypeOK, Points, Stopped
  <2>5. Named'
    BY <2>1, <2>2 DEF ShmTypeOK, Named
  <2> QED BY <2>2, <2>3, <2>4, <2>5
<1>3. CASE Fork(r)
  <2>1. ShmTypeOK'
    BY <1>3, InputAssumption DEF Fork, Set, objects, ghosts, ShmTypeOK, Active, Ints
  <2>2. Points'
    BY <1>3 DEF Fork, Set, objects, ghosts, ShmTypeOK, Points, Stopped
  <2> QED BY <1>3, <2>1, <2>2 DEF Fork, Set, objects, ShmTypeOK, Named
<1>4. CASE ForkFails(r)
  <2>1. ShmTypeOK'
    BY <1>4, SizeOK DEF ForkFails, Set, objects, numbers, ShmTypeOK, Stopped
  <2>2. Points'
    BY <1>4 DEF ForkFails, Set, objects, numbers, ShmTypeOK, Points, Stopped
  <2> QED BY <1>4, <2>1, <2>2 DEF ForkFails, Set, objects, ShmTypeOK, Named
<1>5. CASE Waitpid(r)
  <2>1. ShmTypeOK'
    BY <1>5 DEF Waitpid, Set, objects, numbers, ghosts, ShmTypeOK, Active
  <2>2. Points'
    BY <1>5 DEF Waitpid, Set, objects, numbers, ShmTypeOK, Points, Stopped
  <2> QED BY <1>5, <2>1, <2>2 DEF Waitpid, Set, objects, ShmTypeOK, Named
<1>6. CASE PrintNumber(r)
  <2>1. UNCHANGED <<input, name, made, mem, seg, child, n, put, ghosts>> /\ parent[r] = "print"
    BY <1>6 DEF PrintNumber, objects, numbers
  <2>2. seg[r] \in Runs
    BY <2>1 DEF ShmTypeOK, Points, Runs
  <2>f. Found(r) \subseteq Ints
    BY <2>2, SizeOK DEF Found, ShmTypeOK
  <2>3. ASSUME NEW d \in Found(r) \ {-1},
               printed' = [printed EXCEPT ![r] = Append(printed[r], d)],
               get' = [get EXCEPT ![r] = get[r] + 1], parent' = parent
        PROVE  TInv'
    <3>1. d \in Ints
      BY <2>f
    <3>2. get[r] + 1 \in 0..Size + Behind
      <4>1. get[r] \in Cells \/ get[r] \in Past
        BY DEF Found
      <4>2. get[r] \in 0..Size - 1 \/ get[r] \in Size..Size + Behind - 1
        BY <4>1 DEF Cells, Past
      <4> QED BY <4>2, SizeOK
    <3>3. /\ printed' \in [Runs -> Seq(Ints)]
          /\ \A q \in Runs : Len(printed'[q]) = get'[q]
      <4>0. printed[r] \in Seq(Ints)
        BY DEF ShmTypeOK
      <4>1. Append(printed[r], d) \in Seq(Ints) /\ Len(Append(printed[r], d)) = Len(printed[r]) + 1
        BY <3>1, <4>0
      <4>2. printed' \in [Runs -> Seq(Ints)]
        BY <2>3, <4>1 DEF ShmTypeOK
      <4>3. ASSUME NEW q \in Runs PROVE Len(printed'[q]) = get'[q]
        <5>1. CASE q # r
          BY <2>3, <5>1 DEF ShmTypeOK
        <5>2. CASE q = r
          BY <2>3, <4>1, <5>2 DEF ShmTypeOK
        <5> QED BY <5>1, <5>2
      <4> QED BY <4>2, <4>3
    <3>4. ShmTypeOK'
      BY <2>1, <2>3, <3>2, <3>3 DEF ShmTypeOK, ghosts
    <3>5. Points'
      BY <2>1, <2>3 DEF ShmTypeOK, Points
    <3> QED BY <2>1, <2>3, <3>4, <3>5 DEF Named
  <2>4. ASSUME parent' = [parent EXCEPT ![r] = "unlink"], UNCHANGED <<get, printed>> PROVE TInv'
    <3>2. ShmTypeOK'
      BY <2>1, <2>4 DEF ShmTypeOK, ghosts, Active
    <3>3. Points'
      BY <2>1, <2>4 DEF ShmTypeOK, Points
    <3> QED BY <2>1, <2>4, <3>2, <3>3 DEF ShmTypeOK, Named
  <2>5. ASSUME parent' = [parent EXCEPT ![r] = "fault"], UNCHANGED <<get, printed>> PROVE TInv'
    <3>2. ShmTypeOK'
      BY <2>1, <2>5 DEF ShmTypeOK, ghosts, Stopped
    <3>3. Points'
      BY <2>1, <2>5 DEF ShmTypeOK, Points, Stopped
    <3> QED BY <2>1, <2>5, <3>2, <3>3 DEF ShmTypeOK, Named
  <2> QED BY <1>6, <2>3, <2>4, <2>5 DEF PrintNumber, Set
<1>7. CASE ParentUnlink(r)
  <2>1. ShmTypeOK'
    BY <1>7 DEF ParentUnlink, Unlink, Set, numbers, ghosts, ShmTypeOK, Stopped
  <2>2. Points'
    BY <1>7 DEF ParentUnlink, Set, numbers, ShmTypeOK, Points, Stopped
  <2> QED BY <1>7, <2>1, <2>2 DEF ParentUnlink, Unlink, Set, ShmTypeOK, Named
<1> QED BY <1>1, <1>2, <1>3, <1>4, <1>5, <1>6, <1>7 DEF Parent

LEMMA KillTInv == ASSUME TInv, NEW r \in Runs, KillParent(r) \/ KillChild(r) PROVE TInv'
<1> USE DEF TInv
<1>1. CASE KillParent(r)
  <2>1. ShmTypeOK'
    BY <1>1, SizeOK DEF KillParent, Set, objects, numbers, ShmTypeOK, Stopped
  <2>2. Points'
    BY <1>1 DEF KillParent, Set, objects, numbers, ShmTypeOK, Points, Stopped
  <2> QED BY <1>1, <2>1, <2>2 DEF KillParent, Set, objects, ShmTypeOK, Named
<1>2. CASE KillChild(r)
  <2>1. ShmTypeOK'
    BY <1>2, SizeOK DEF KillChild, Set, objects, numbers, ShmTypeOK, Stopped
  <2>2. Points'
    BY <1>2 DEF KillChild, Killable, Set, objects, numbers, ShmTypeOK, Points, Stopped
  <2> QED BY <1>2, <2>1, <2>2 DEF KillChild, objects, Named
<1> QED BY <1>1, <1>2

LEMMA NextTInv == TInv /\ [ShmNext]_shmVars => TInv'
<1> SUFFICES ASSUME TInv, [ShmNext]_shmVars PROVE TInv'
  OBVIOUS
<1>1. CASE UNCHANGED shmVars
  BY <1>1 DEF shmVars, objects, numbers, ghosts, TInv, ShmTypeOK, Points, Named
<1> QED BY <1>1, ChildTInv, ParentTInv, KillTInv DEF ShmNext

(* Whatever is typed, killed or fails, in two runs that may share the      *)
(* memory or follow each other, and whatever lies behind a segment, the    *)
(* segments and what is printed are numbers of an int, as many of them     *)
(* printed as the parent has read.                                         *)
THEOREM ShmTypeCorrect == ShmSpec => []ShmTypeOK
BY InitTInv, NextTInv, PTL DEF ShmSpec, TInv

-----------------------------------------------------------------------------
(* The sequence of a run, where it ends, and whether all of it fits.       *)
Fine(r)  == InRange(input[r])
Last(r)  == EndOf(input[r])
Seq0(r)  == Terms(input[r])

(* A child is where its sequence is, up to the end of it.                  *)
Writes ==
    \A r \in Runs : Fine(r) =>
        /\ child[r] # "fault" /\ put[r] <= Last(r) + 1
        /\ child[r] = "loop" => put[r] < Last(r) /\ n[r] >= 1 /\ n[r] = Seq0(r)[put[r]]
        /\ child[r] = "end" => put[r] = Last(r)
        /\ child[r] \in {"unlink", "ended"} => put[r] = Last(r) + 1

(* Two runs that were never together do not use one segment at once, so a  *)
(* run that uses its segment finds there what it has written.              *)
Apart ==
    ~together => \A r \in Runs : InUse(r) /\ seg[3 - r] = seg[r] => ~InUse(3 - r)

InMemory ==
    ~together => \A r \in Runs : Fine(r) /\ InUse(r) /\ child[r] # "killed" =>
        \A c \in Cells : c < put[r] => mem[seg[r]][c] = Seq0(r)[c]

Reads ==
    ~together => \A r \in Runs : Fine(r) /\ child[r] # "killed" =>
        /\ get[r] <= Last(r) /\ parent[r] # "fault"
        /\ parent[r] = "unlink" \/ (parent[r] = "ended" /\ child[r] # "none") => get[r] = Last(r)

(* Whoever wrote it, a number is at its own place.                         *)
EitherCell ==
    (\A r \in Runs : Fine(r)) => \A s \in Runs, c \in Cells :
        mem[s][c] = 0 \/ \E r \in Runs : c <= Last(r) /\ mem[s][c] = Seq0(r)[c]

(* The child of a run that has opened the name will remove it.             *)
NameKept ==
    (\A r \in Runs : Fine(r)) /\ broken = 0 =>
        /\ \A r \in Runs : child[r] # "killed"
        /\ name # 0 => \E r \in Runs :
              parent[r] # "open" /\ child[r] \in {"none", "loop", "end", "unlink"}

MemInv == Writes /\ Apart /\ InMemory /\ EitherCell
ShmInv == TInv /\ MemInv /\ Reads /\ NameKept /\ Printed

LEMMA FineIs ==
    ASSUME TInv, NEW r \in Runs, Fine(r)
    PROVE  /\ input[r] \in Int /\ Last(r) \in Cells /\ Last(r) # 0 /\ input[r] >= 1
           /\ Seq0(r)[0] = input[r] /\ Seq0(r)[Last(r)] = -1
           /\ \A c \in Cells : c < Last(r) => Seq0(r)[c] # -1
<1>1. input[r] \in Int
  <2>1. input[r] \in Inputs
    BY DEF TInv, ShmTypeOK
  <2>2. -Half .. Half - 1 \subseteq Int
    BY SizeOK
  <2> QED BY <2>1, <2>2, InputAssumption
<1>2. InRange(input[r])
  BY DEF Fine
<1> QED BY <1>1, <1>2, RangeEnds DEF Last, Seq0

LEMMA InitShmInv == ShmInit => ShmInv
<1> SUFFICES ASSUME ShmInit PROVE ShmInv
  OBVIOUS
<1>1. /\ \A r \in Runs : parent[r] = "open" /\ child[r] = "none" /\ put[r] = 0 /\ printed[r] = <<>>
      /\ \A s \in Runs, c \in Cells : mem[s][c] = 0
      /\ name = 0
  BY DEF ShmInit
<1>2. MemInv
  <2>1. Writes
    <3> SUFFICES ASSUME NEW r \in Runs, Fine(r) PROVE 0 <= Last(r) + 1
      BY <1>1 DEF Writes
    <3>1. Last(r) \in Cells
      BY InitTInv, FineIs
    <3> QED BY <3>1, SizeOK DEF Cells
  <2> QED BY <1>1, <2>1, SizeOK DEF MemInv, Apart, InMemory, EitherCell, InUse, Cells
<1>3. Reads /\ NameKept
  <2>1. ASSUME NEW r \in Runs, Fine(r) PROVE get[r] <= Last(r)
    <3>1. Last(r) \in Cells /\ get[r] = 0
      BY <2>1, InitTInv, FineIs DEF ShmInit
    <3> QED BY <3>1, SizeOK DEF Cells
  <2> QED BY <1>1, <2>1 DEF Reads, NameKept
<1>4. Printed
  BY <1>1 DEF Printed
<1> QED BY <1>2, <1>3, <1>4, InitTInv DEF ShmInv

(* A step that stores nothing, and uses no segment that was not in use.    *)
LEMMA QuietMem ==
    ASSUME MemInv, UNCHANGED <<input, mem, seg, put, n, together>>,
           \A q \in Runs :
              /\ InUse(q)' => InUse(q)
              /\ \/ child'[q] \in {child[q], "killed"}
                 \/ child[q] = "unlink" /\ child'[q] = "ended"
                 \/ ~Fine(q) /\ child[q] \notin {"none", "killed"} /\ child'[q] = "fault"
    PROVE  MemInv'
<1> USE DEF MemInv
<1>1. Writes'
  BY DEF Writes, Fine, Last, Seq0
<1>2. Apart'
  <2> SUFFICES ASSUME ~together, NEW r \in Runs, InUse(r)', seg[3 - r] = seg[r] PROVE ~InUse(3 - r)'
    BY DEF Apart
  <2>1. 3 - r \in Runs
    BY DEF Runs
  <2> QED BY <2>1 DEF Apart
<1>3. InMemory'
  <2> SUFFICES ASSUME ~together, NEW r \in Runs, Fine(r), InUse(r)', child'[r] # "killed",
                      NEW c \in Cells, c < put[r]
               PROVE  mem[seg[r]][c] = Seq0(r)[c]
    BY DEF InMemory, Fine, Seq0
  <2>1. InUse(r) /\ child[r] # "killed"
    OBVIOUS
  <2> QED BY <2>1 DEF InMemory
<1>4. EitherCell'
  BY DEF EitherCell, Fine, Last, Seq0
<1> QED BY <1>1, <1>2, <1>3, <1>4

(* A child stores the next number of its sequence.                         *)
LEMMA StoresMem ==
    ASSUME TInv, MemInv, Writes', NEW r \in Runs, NEW v \in Ints, NEW to, Stores(r, v, to),
           child[r] \in {"loop", "end"}, Fine(r) => put[r] <= Last(r) /\ v = Seq0(r)[put[r]],
           UNCHANGED <<input, seg, parent, together>>
    PROVE  MemInv'
<1> USE DEF MemInv
<1>1. /\ InUse(r) /\ seg[r] \in Runs /\ DOMAIN child = Runs /\ DOMAIN put = Runs
      /\ mem \in [Runs -> [Cells -> Ints]] /\ seg \in [Runs -> Int] /\ put \in [Runs -> Int]
  BY DEF InUse, TInv, ShmTypeOK, Points, Runs
<1>2. \A q \in Runs : q # r => child'[q] = child[q] /\ put'[q] = put[q]
  BY <1>1 DEF Stores
<1>3. \A q \in Runs : InUse(q)' => InUse(q)
  BY <1>1, <1>2 DEF InUse
<1>4. \A s \in Runs, c \in Cells : s # seg[r] \/ c # put[r] => mem'[s][c] = mem[s][c]
  BY <1>1 DEF Stores
<1>5. put[r] \in Cells => mem'[seg[r]][put[r]] = v /\ put'[r] = put[r] + 1
  <2> SUFFICES ASSUME put[r] \in Cells PROVE mem'[seg[r]][put[r]] = v /\ put'[r] = put[r] + 1
    OBVIOUS
  <2>1. put[r] \notin Past
    BY SizeOK DEF Cells, Past
  <2>2. mem' = [mem EXCEPT ![seg[r]][put[r]] = v] /\ put' = [put EXCEPT ![r] = put[r] + 1]
    BY <2>1 DEF Stores
  <2> QED BY <1>1, <2>2
<1>6. put[r] \notin Cells => mem' = mem /\ put'[r] \in {put[r], put[r] + 1}
  BY <1>1 DEF Stores
<1>7. Apart'
  <2> SUFFICES ASSUME ~together, NEW q \in Runs, InUse(q)', seg[3 - q] = seg[q] PROVE ~InUse(3 - q)'
    BY DEF Apart
  <2>1. 3 - q \in Runs
    BY DEF Runs
  <2> QED BY <1>3, <2>1 DEF Apart
<1>8. InMemory'
  <2> SUFFICES ASSUME ~together, NEW q \in Runs, Fine(q), InUse(q)', child'[q] # "killed",
                      NEW c \in Cells, c < put'[q]
               PROVE  mem'[seg[q]][c] = Seq0(q)[c]
    BY DEF InMemory, Fine, Seq0
  <2>1. c \in Int
    BY SizeOK DEF Cells
  <2>2. CASE q # r
    <3>1. q = 3 - r
      BY <2>2 DEF Runs
    <3>2. seg[q] # seg[r]
      BY <1>1, <1>3, <3>1 DEF Apart
    <3>3. seg[q] \in Runs
      BY <1>3 DEF TInv, ShmTypeOK, Points, Runs, InUse
    <3>4. mem'[seg[q]][c] = mem[seg[q]][c] /\ child[q] # "killed" /\ c < put[q] /\ InUse(q)
      BY <1>2, <1>3, <1>4, <2>2, <3>2, <3>3
    <3> QED BY <3>4 DEF InMemory
  <2>3. CASE q = r /\ c = put[r]
    <3>1. put[r] \in Cells
      BY <2>3
    <3> QED BY <1>5, <2>3, <3>1
  <2>4. CASE q = r /\ c # put[r]
    <3>1. c < put[r]
      BY <1>1, <1>5, <1>6, <2>1, <2>4
    <3>2. mem'[seg[r]][c] = mem[seg[r]][c]
      BY <1>1, <1>4, <2>4
    <3>3. child[r] # "killed"
      OBVIOUS
    <3> QED BY <1>1, <2>4, <3>1, <3>2, <3>3 DEF InMemory
  <2> QED BY <2>2, <2>3, <2>4
<1>9. EitherCell'
  <2> SUFFICES ASSUME \A q \in Runs : Fine(q), NEW s \in Runs, NEW c \in Cells
               PROVE  mem'[s][c] = 0 \/ \E q \in Runs : c <= Last(q) /\ mem'[s][c] = Seq0(q)[c]
    BY DEF EitherCell, Fine, Last, Seq0
  <2>1. CASE s = seg[r] /\ c = put[r]
    BY <1>5, <2>1
  <2>2. CASE ~(s = seg[r] /\ c = put[r])
    BY <1>4, <2>2 DEF EitherCell
  <2> QED BY <2>1, <2>2
<1> QED BY <1>7, <1>8, <1>9

(* What was printed stays, and is judged as before.                        *)
LEMMA PrintedStays ==
    ASSUME Printed, UNCHANGED <<input, printed>>, together => together',
           \A q \in Runs :
              /\ child[q] = "killed" => child'[q] = "killed"
              /\ parent'[q] = "ended" /\ child'[q] \notin {"none", "killed"} /\ ~together' =>
                    \/ parent[q] = "ended" /\ child[q] # "none"
                    \/ Fine(q) => Len(printed[q]) = Last(q)
    PROVE  Printed'
<1> SUFFICES ASSUME NEW r \in Runs, Fine(r), child'[r] # "killed"
             PROVE  /\ \/ \A j \in 1 .. Len(printed[r]) : Own(r, j)
                       \/ together' /\ ~Fine(3 - r)
                       \/ together' /\ \A j \in 1 .. Len(printed[r]) : j <= Size => Own(r, j) \/ Others(r, j)
                    /\ parent'[r] = "ended" /\ child'[r] # "none" /\ ~together' =>
                          Len(printed[r]) = Last(r)
  BY DEF Printed, Fine, Last, Own, Others
<1>1. child[r] # "killed"
  OBVIOUS
<1>2. /\ \/ \A j \in 1 .. Len(printed[r]) : Own(r, j)
         \/ together /\ ~Fine(3 - r)
         \/ together /\ \A j \in 1 .. Len(printed[r]) : j <= Size => Own(r, j) \/ Others(r, j)
      /\ parent[r] = "ended" /\ child[r] # "none" /\ ~together => Len(printed[r]) = Last(r)
  BY <1>1 DEF Printed, Fine, Last
<1> QED BY <1>2

-----------------------------------------------------------------------------
(* Each step keeps the four, given the types of before and after.          *)
Kept == MemInv' /\ Reads' /\ NameKept' /\ Printed'

LEMMA WritesStep ==
    ASSUME TInv, MemInv, NEW r \in Runs, Loop(r) \/ StoreOne(r) \/ StoreEnd(r), Fine(r)
    PROVE  /\ put[r] \in Cells /\ put[r] <= Last(r)
           /\ n[r] # 1 /\ child[r] = "loop" =>
                 /\ n[r] = Seq0(r)[put[r]] /\ put[r] + 1 < Last(r)
                 /\ Collatz(n[r]) >= 1 /\ Collatz(n[r]) = Seq0(r)[put[r] + 1]
           /\ n[r] = 1 /\ child[r] = "loop" =>
                 n[r] = Seq0(r)[put[r]] /\ put[r] + 1 = Last(r)
           /\ child[r] = "end" => put[r] = Last(r) /\ Seq0(r)[put[r]] = -1
<1>1. /\ child[r] \in {"loop", "end"}
      /\ child[r] = "loop" => put[r] < Last(r) /\ n[r] >= 1 /\ n[r] = Seq0(r)[put[r]]
      /\ child[r] = "end" => put[r] = Last(r)
  BY DEF Loop, StoreOne, StoreEnd, MemInv, Writes
<1>2. input[r] \in Int /\ Last(r) \in Cells /\ Seq0(r)[Last(r)] = -1 /\ InRange(input[r])
  BY FineIs DEF Fine
<1>3. put[r] \in Int /\ 0 <= put[r] /\ put[r] <= Last(r) /\ put[r] \in Cells
  BY <1>1, <1>2, SizeOK DEF Cells, TInv, ShmTypeOK
<1>4. ASSUME child[r] = "loop"
      PROVE  /\ n[r] = 1 => put[r] + 1 = Last(r)
             /\ n[r] # 1 => /\ put[r] + 1 < Last(r) /\ Collatz(n[r]) >= 1
                            /\ Collatz(n[r]) = Seq0(r)[put[r] + 1]
  <2>1. /\ put[r] < EndOf(input[r]) /\ Terms(input[r])[put[r]] >= 1
        /\ n[r] = Terms(input[r])[put[r]]
    BY <1>1, <1>4 DEF Last, Seq0
  <2>2. /\ n[r] = 1 => put[r] + 1 = EndOf(input[r])
        /\ n[r] # 1 => /\ put[r] + 1 < EndOf(input[r]) /\ Terms(input[r])[put[r] + 1] >= 1
                       /\ Collatz(n[r]) = Terms(input[r])[put[r] + 1]
    BY <1>2, <1>3, <2>1, NextTerm
  <2> QED BY <2>2 DEF Last, Seq0
<1> QED BY <1>1, <1>2, <1>3, <1>4

LEMMA WritesKept ==
    ASSUME TInv, MemInv, NEW r \in Runs, Loop(r) \/ StoreOne(r) \/ StoreEnd(r)
    PROVE  Writes'
<1> USE DEF MemInv
<1>0. /\ \A q \in Runs : q # r => child'[q] = child[q] /\ put'[q] = put[q] /\ n'[q] = n[q]
      /\ input' = input /\ n \in [Runs -> Int] /\ put \in [Runs -> Int]
      /\ child \in [Runs -> Active \cup Stopped \cup {"none"}]
  <2>1. n \in [Runs -> Int] /\ put \in [Runs -> Int]
    BY SizeOK DEF TInv, ShmTypeOK, Ints
  <2>2. child \in [Runs -> Active \cup Stopped \cup {"none"}]
    BY DEF TInv, ShmTypeOK
  <2> QED BY <2>1, <2>2 DEF Loop, StoreOne, StoreEnd, Store, Set
<1> SUFFICES ASSUME NEW q \in Runs, Fine(q)
             PROVE  /\ child'[q] # "fault" /\ put'[q] <= Last(q) + 1
                    /\ child'[q] = "loop" =>
                          put'[q] < Last(q) /\ n'[q] >= 1 /\ n'[q] = Seq0(q)[put'[q]]
                    /\ child'[q] = "end" => put'[q] = Last(q)
                    /\ child'[q] \in {"unlink", "ended"} => put'[q] = Last(q) + 1
  BY <1>0 DEF Writes, Fine, Last, Seq0
<1>1. CASE q # r
  BY <1>0, <1>1 DEF Writes
<1>2. CASE q = r
  <2>1. put[r] \in Cells /\ put[r] \notin Past /\ put[r] <= Last(r)
    <3>1. put[r] \in Cells /\ put[r] <= Last(r)
      BY <1>2, WritesStep
    <3> QED BY <3>1, SizeOK DEF Cells, Past
  <2>l. Last(r) \in Int
    BY <1>2, FineIs, SizeOK DEF Cells
  <2>2. CASE Loop(r)
    <3>1. /\ child'[r] = "loop" /\ put'[r] = put[r] + 1 /\ n'[r] = Collatz(n[r])
          /\ child[r] = "loop" /\ n[r] # 1
      BY <1>0, <2>1, <2>2 DEF Loop, Store, Set
    <3> QED BY <1>0, <1>2, <2>1, <2>2, <2>l, <3>1, WritesStep
  <2>3. CASE StoreOne(r)
    <3>1. child'[r] = "end" /\ put'[r] = put[r] + 1 /\ child[r] = "loop" /\ n[r] = 1
      BY <1>0, <2>1, <2>3 DEF StoreOne, Store, Set
    <3> QED BY <1>0, <1>2, <2>1, <2>3, <2>l, <3>1, WritesStep
  <2>4. CASE StoreEnd(r)
    <3>1. child'[r] = "unlink" /\ put'[r] = put[r] + 1 /\ child[r] = "end"
      BY <1>0, <2>1, <2>4 DEF StoreEnd, Store, Set
    <3> QED BY <1>0, <1>2, <2>1, <2>4, <2>l, <3>1, WritesStep
  <2> QED BY <2>2, <2>3, <2>4
<1> QED BY <1>1, <1>2

LEMMA StoreKept ==
    ASSUME ShmInv, NEW r \in Runs, Loop(r) \/ StoreOne(r) \/ StoreEnd(r)
    PROVE  Kept
<1> USE DEF ShmInv
<1>1. /\ UNCHANGED <<input, name, seg, parent, get, printed, together, broken>>
      /\ child[r] \in {"loop", "end"} /\ child \in [Runs -> Active \cup Stopped \cup {"none"}]
      /\ child'[r] \in {"loop", "end", "unlink", "fault"}
      /\ \A q \in Runs : q # r => child'[q] = child[q]
  <2>1. child \in [Runs -> Active \cup Stopped \cup {"none"}]
    BY DEF TInv, ShmTypeOK
  <2> QED BY <2>1 DEF Loop, StoreOne, StoreEnd, ghosts, Store, Set
<1>2. Writes'
  BY WritesKept
<1>3. MemInv'
  <2>1. Fine(r) => put[r] <= Last(r)
    BY WritesStep
  <2>2. CASE Loop(r)
    <3>1. n[r] \in Ints /\ Stores(r, n[r], "loop") /\ (Fine(r) => n[r] = Seq0(r)[put[r]])
      BY <2>2, LoopStores, WritesStep DEF TInv, ShmTypeOK, Loop
    <3> QED BY <1>1, <1>2, <2>1, <3>1, StoresMem
  <2>3. CASE StoreOne(r)
    <3>1. 1 \in Ints /\ Stores(r, 1, "end") /\ (Fine(r) => 1 = Seq0(r)[put[r]])
      BY <2>3, StoreOneStores, WritesStep DEF StoreOne
    <3> QED BY <1>1, <1>2, <2>1, <3>1, StoresMem
  <2>4. CASE StoreEnd(r)
    <3>1. -1 \in Ints /\ Stores(r, -1, "unlink") /\ (Fine(r) => -1 = Seq0(r)[put[r]])
      BY <2>4, StoreEndStores, WritesStep DEF StoreEnd
    <3> QED BY <1>1, <1>2, <2>1, <3>1, StoresMem
  <2> QED BY <2>2, <2>3, <2>4
<1>4. Reads'
  <2>1. parent[r] \in {"print", "unlink", "ended"} => FALSE
    BY <1>1 DEF TInv, Points, Stopped
  <2> SUFFICES ASSUME ~together, NEW q \in Runs, Fine(q), child'[q] # "killed"
               PROVE  /\ get[q] <= Last(q) /\ parent[q] # "fault"
                      /\ parent[q] = "unlink" \/ (parent[q] = "ended" /\ child'[q] # "none") =>
                            get[q] = Last(q)
    BY <1>1 DEF Reads, Fine, Last
  <2> QED BY <1>1, <2>1 DEF Reads
<1>5. NameKept'
  <2> SUFFICES ASSUME \A q \in Runs : Fine(q), broken = 0
               PROVE  /\ \A q \in Runs : child'[q] # "killed"
                      /\ name # 0 => \E q \in Runs : parent[q] # "open"
                            /\ child'[q] \in {"none", "loop", "end", "unlink"}
    BY <1>1 DEF NameKept, Fine
  <2>1. child'[r] # "fault" /\ parent[r] # "open"
    BY <1>1, <1>2 DEF Writes, Fine, TInv, Points
  <2> QED BY <1>1, <2>1 DEF NameKept
<1>6. Printed'
  <2>1. parent[r] # "ended"
    BY <1>1 DEF TInv, Points, Stopped
  <2> QED BY <1>1, <2>1, PrintedStays
<1> QED BY <1>3, <1>4, <1>5, <1>6 DEF Kept

(* A step of a process that ends, waits or is killed: nothing is stored,   *)
(* read or opened.                                                         *)
LEMMA QuietKept ==
    ASSUME ShmInv, UNCHANGED <<input, mem, seg, put, n, get, printed, together>>,
           \A q \in Runs :
              /\ InUse(q)' => InUse(q)
              /\ \/ child'[q] \in {child[q], "killed"}
                 \/ child[q] = "unlink" /\ child'[q] = "ended"
                 \/ ~Fine(q) /\ child[q] \notin {"none", "killed"} /\ child'[q] = "fault"
              /\ \/ parent'[q] \in {parent[q], "killed"}
                 \/ parent[q] \in {"open", "fork"} /\ child'[q] = "none" /\ parent'[q] = "ended"
                 \/ parent[q] = "wait" /\ get[q] = 0 /\ parent'[q] = "print"
                 \/ parent[q] = "unlink" /\ parent'[q] = "ended",
           NameKept'
    PROVE  Kept
<1> USE DEF ShmInv
<1>1. MemInv'
  <2>1. UNCHANGED <<input, mem, seg, put, n, together>>
    OBVIOUS
  <2>2. \A q \in Runs :
              /\ InUse(q)' => InUse(q)
              /\ \/ child'[q] \in {child[q], "killed"}
                 \/ child[q] = "unlink" /\ child'[q] = "ended"
                 \/ ~Fine(q) /\ child[q] \notin {"none", "killed"} /\ child'[q] = "fault"
    OBVIOUS
  <2> QED BY <2>1, <2>2, QuietMem
<1>2. Reads'
  <2> SUFFICES ASSUME ~together, NEW q \in Runs, Fine(q), child'[q] # "killed"
               PROVE  /\ get[q] <= Last(q) /\ parent'[q] # "fault"
                      /\ parent'[q] = "unlink" \/ (parent'[q] = "ended" /\ child'[q] # "none") =>
                            get[q] = Last(q)
    BY DEF Reads, Fine, Last
  <2>1. /\ child[q] # "killed"
        /\ child[q] # "none" \/ child'[q] = "none"
        /\ child'[q] = "none" \/ child[q] # "none"
    OBVIOUS
  <2>2. 0 <= Last(q)
    BY FineIs, SizeOK DEF Cells
  <2> QED BY <2>1, <2>2 DEF Reads
<1>3. Printed'
  <2>1. \A q \in Runs : Len(printed[q]) = get[q]
    BY DEF TInv, ShmTypeOK
  <2>2. ASSUME NEW q \in Runs, parent'[q] = "ended", child'[q] \notin {"none", "killed"}, ~together'
        PROVE  \/ parent[q] = "ended" /\ child[q] # "none"
               \/ Fine(q) => Len(printed[q]) = Last(q)
    <3>1. parent[q] \in {"ended", "unlink"} /\ child[q] \notin {"none", "killed"}
      BY <2>2
    <3> QED BY <2>1, <2>2, <3>1 DEF Reads
  <2>3. \A q \in Runs : child[q] = "killed" => child'[q] = "killed"
    OBVIOUS
  <2>4. UNCHANGED <<input, printed>> /\ (together => together')
    OBVIOUS
  <2> QED BY <2>2, <2>3, <2>4, PrintedStays
<1> QED BY <1>1, <1>2, <1>3 DEF Kept

LEMMA EndKept ==
    ASSUME ShmInv, NEW r \in Runs,
           \/ ChildUnlink(r) \/ OpenFails(r) \/ ForkFails(r) \/ Waitpid(r) \/ ParentUnlink(r)
           \/ KillParent(r) \/ KillChild(r) \/ Corrupted(r)
    PROVE  Kept
<1> USE DEF ShmInv
<1>1. /\ UNCHANGED <<input, mem, seg, put, n, get, printed, together>>
      /\ parent \in [Runs -> Active \cup Stopped]
      /\ child \in [Runs -> Active \cup Stopped \cup {"none"}]
      /\ broken \in Nat
  <2>1. /\ parent \in [Runs -> Active \cup Stopped]
        /\ child \in [Runs -> Active \cup Stopped \cup {"none"}]
        /\ broken \in Nat
    BY DEF TInv, ShmTypeOK
  <2>2. UNCHANGED <<input, mem, seg, put, n, get, printed, together>>
    BY DEF ChildUnlink, OpenFails, ForkFails, Waitpid, ParentUnlink, KillParent, KillChild,
           Corrupted, objects, numbers, ghosts
  <2> QED BY <2>1, <2>2
<1>c. ASSUME Corrupted(r)
      PROVE  ~Fine(r) /\ child[r] \in {"loop", "end", "unlink"} /\ child' = [child EXCEPT ![r] = "fault"]
  <2>1. put[r] > Size /\ put[r] \in Int
    BY <1>c, SizeOK DEF Corrupted, TInv, ShmTypeOK
  <2>2. Fine(r) => put[r] <= Last(r) + 1 /\ Last(r) \in 0..Size - 1
    BY FineIs DEF MemInv, Writes, Cells
  <2> QED BY <1>c, <2>1, <2>2, SizeOK DEF Corrupted, Set
<1>2. ASSUME NEW q \in Runs
      PROVE  /\ \/ child'[q] \in {child[q], "killed"}
                \/ child[q] = "unlink" /\ child'[q] = "ended"
                \/ ~Fine(q) /\ child[q] \notin {"none", "killed"} /\ child'[q] = "fault"
             /\ \/ parent'[q] \in {parent[q], "killed"}
                \/ parent[q] \in {"open", "fork"} /\ child'[q] = "none" /\ parent'[q] = "ended"
                \/ parent[q] = "wait" /\ get[q] = 0 /\ parent'[q] = "print"
                \/ parent[q] = "unlink" /\ parent'[q] = "ended"
  <2>1. CASE Corrupted(r)
    <3>1. parent' = parent
      BY <2>1 DEF Corrupted
    <3> QED BY <1>1, <1>c, <2>1, <3>1
  <2> QED BY <1>1, <2>1 DEF ChildUnlink, OpenFails, ForkFails, Waitpid, ParentUnlink, KillParent, KillChild,
              Set, TInv, Points
<1>3. \A q \in Runs : InUse(q)' => InUse(q)
  BY <1>1, <1>2 DEF InUse
<1>4. NameKept'
  <2>1. CASE broken' # 0
    BY <2>1 DEF NameKept
  <2>2. CASE ChildUnlink(r) \/ ParentUnlink(r)
    <3>1. name' = 0 /\ \A q \in Runs : child'[q] = "killed" => child[q] = "killed"
      BY <1>1, <2>2 DEF ChildUnlink, ParentUnlink, Unlink, Set
    <3>2. broken' = broken
      BY <2>2 DEF ChildUnlink, ParentUnlink, ghosts
    <3> QED BY <1>1, <3>1, <3>2 DEF NameKept, Fine
  <2>3. CASE Waitpid(r)
    <3>1. UNCHANGED <<name, child, broken>> /\ \A q \in Runs : parent[q] # "open" => parent'[q] # "open"
      BY <1>1, <2>3 DEF Waitpid, Set, objects, ghosts
    <3> QED BY <1>1, <3>1 DEF NameKept, Fine
  <2>4. OpenFails(r) \/ ForkFails(r) \/ KillParent(r) \/ KillChild(r) => broken' # 0
    BY <1>1 DEF OpenFails, ForkFails, KillParent, KillChild
  <2>5. CASE Corrupted(r)
    BY <1>1, <1>c, <2>5 DEF NameKept, Fine
  <2> QED BY <2>1, <2>2, <2>3, <2>4, <2>5
<1> HIDE DEF ShmInv
<1> QED BY <1>1, <1>2, <1>3, <1>4, QuietKept

LEMMA OpenKept == ASSUME ShmInv, NEW r \in Runs, Open(r) PROVE Kept
<1> USE DEF ShmInv
<1>1. /\ UNCHANGED <<input, mem, child, n, put, get, printed, broken>>
      /\ parent[r] = "open" /\ child[r] = "none" /\ put[r] = 0
      /\ together' = (together \/ \E q \in Runs \ {r} : InUse(q) /\ seg[q] = name')
      /\ seg'[r] = name' /\ parent'[r] = "fork" /\ parent'[r] # "open"
      /\ \A q \in Runs : q # r => seg'[q] = seg[q] /\ parent'[q] = parent[q]
  BY DEF Open, Set, numbers, TInv, ShmTypeOK, Points
<1>2. ASSUME NEW q \in Runs, q # r PROVE InUse(q)' = InUse(q) /\ q = 3 - r
  BY <1>1, <1>2 DEF InUse, Runs
<1>3. MemInv'
  <2> USE DEF MemInv
  <2>1. Writes'
    BY <1>1 DEF Writes, Fine, Last, Seq0
  <2>2. Apart'
    <3> SUFFICES ASSUME ~together', NEW q \in Runs, InUse(q)', seg'[3 - q] = seg'[q], InUse(3 - q)'
                 PROVE  FALSE
      BY DEF Apart
    <3>1. 3 - q \in Runs /\ 3 - q # q /\ 3 - (3 - q) = q
      BY DEF Runs
    <3>2. \A p \in Runs \ {r} : ~(InUse(p) /\ seg[p] = name') /\ seg'[p] = seg[p]
      BY <1>1
    <3>3. CASE q = r
      BY <1>1, <1>2, <3>1, <3>2, <3>3
    <3>4. CASE q # r
      <4>1. 3 - q = r
        BY <1>2, <3>1, <3>4
      <4> QED BY <1>1, <1>2, <3>2, <3>4, <4>1
    <3> QED BY <3>3, <3>4
  <2>3. InMemory'
    <3> SUFFICES ASSUME ~together', NEW q \in Runs, Fine(q), InUse(q)', child'[q] # "killed",
                        NEW c \in Cells, c < put'[q]
                 PROVE  mem'[seg'[q]][c] = Seq0(q)[c]
      BY <1>1 DEF InMemory, Fine, Seq0
    <3>1. q # r
      BY <1>1, SizeOK DEF Cells
    <3>2. InUse(q) /\ seg'[q] = seg[q] /\ ~together
      BY <1>1, <1>2, <3>1
    <3> QED BY <1>1, <3>2 DEF InMemory
  <2>4. EitherCell'
    BY <1>1 DEF EitherCell, Fine, Last, Seq0
  <2> QED BY <2>1, <2>2, <2>3, <2>4
<1>4. Reads'
  <2> SUFFICES ASSUME ~together', NEW q \in Runs, Fine(q), child[q] # "killed"
               PROVE  /\ get[q] <= Last(q) /\ parent'[q] # "fault"
                      /\ parent'[q] = "unlink" \/ (parent'[q] = "ended" /\ child[q] # "none") =>
                            get[q] = Last(q)
    BY <1>1 DEF Reads, Fine, Last
  <2>1. ~together
    BY <1>1
  <2> QED BY <1>1, <2>1 DEF Reads
<1>5. NameKept'
  BY <1>1 DEF NameKept, Fine
<1>6. Printed'
  BY <1>1, PrintedStays
<1> QED BY <1>3, <1>4, <1>5, <1>6 DEF Kept

LEMMA ForkKept == ASSUME ShmInv, NEW r \in Runs, Fork(r) PROVE Kept
<1> USE DEF ShmInv
<1>1. /\ UNCHANGED <<input, name, mem, seg, put, get, printed, together, broken>>
      /\ parent[r] = "fork" /\ child[r] = "none" /\ put[r] = 0
      /\ parent'[r] = "wait" /\ child'[r] = "loop" /\ n'[r] = input[r]
      /\ \A q \in Runs : q # r => parent'[q] = parent[q] /\ child'[q] = child[q] /\ n'[q] = n[q]
  BY DEF Fork, Set, objects, ghosts, TInv, ShmTypeOK, Points
<1>2. ASSUME NEW q \in Runs PROVE InUse(q)' => InUse(q)
  BY <1>1 DEF InUse
<1>3. MemInv'
  <2> USE DEF MemInv
  <2>1. Writes'
    <3> SUFFICES ASSUME NEW q \in Runs, Fine(q)
                 PROVE  /\ child'[q] # "fault" /\ put[q] <= Last(q) + 1
                        /\ child'[q] = "loop" =>
                              put[q] < Last(q) /\ n'[q] >= 1 /\ n'[q] = Seq0(q)[put[q]]
                        /\ child'[q] = "end" => put[q] = Last(q)
                        /\ child'[q] \in {"unlink", "ended"} => put[q] = Last(q) + 1
      BY <1>1 DEF Writes, Fine, Last, Seq0
    <3>1. CASE q = r
      <4>1. 0 < Last(q) /\ 0 <= Last(q) + 1 /\ input[q] >= 1 /\ input[q] = Seq0(q)[0]
        BY FineIs, SizeOK DEF Cells
      <4> QED BY <1>1, <3>1, <4>1
    <3>2. CASE q # r
      BY <1>1, <3>2 DEF Writes
    <3> QED BY <3>1, <3>2
  <2>2. Apart'
    <3> SUFFICES ASSUME ~together, NEW q \in Runs, InUse(q)', seg[3 - q] = seg[q] PROVE ~InUse(3 - q)'
      BY <1>1 DEF Apart
    <3>1. 3 - q \in Runs
      BY DEF Runs
    <3> QED BY <1>2, <3>1 DEF Apart
  <2>3. InMemory'
    <3> SUFFICES ASSUME ~together, NEW q \in Runs, Fine(q), InUse(q)', child'[q] # "killed",
                        NEW c \in Cells, c < put[q]
                 PROVE  mem[seg[q]][c] = Seq0(q)[c]
      BY <1>1 DEF InMemory, Fine, Seq0
    <3>1. q # r
      BY <1>1, SizeOK DEF Cells
    <3> QED BY <1>1, <1>2, <3>1 DEF InMemory
  <2>4. EitherCell'
    BY <1>1 DEF EitherCell, Fine, Last, Seq0
  <2> QED BY <2>1, <2>2, <2>3, <2>4
<1>4. Reads'
  BY <1>1 DEF Reads, Fine, Last
<1>5. NameKept'
  BY <1>1 DEF NameKept, Fine
<1>6. Printed'
  BY <1>1, PrintedStays
<1> QED BY <1>3, <1>4, <1>5, <1>6 DEF Kept

(* What a parent reads of memory nobody else uses, and of memory shared.   *)
LEMMA ReadIs ==
    ASSUME ShmInv, NEW r \in Runs, parent[r] = "print", get[r] \in Cells, Fine(r), child[r] # "killed"
    PROVE  LET v == mem[seg[r]][get[r]] IN
           /\ ~together => /\ get[r] <= Last(r)
                           /\ v = Seq0(r)[get[r]]
                           /\ v # -1 => get[r] < Last(r)
                           /\ v = -1 => get[r] = Last(r)
           /\ Fine(3 - r) /\ v # -1 =>
                 \/ get[r] < Last(r) /\ v = Seq0(r)[get[r]]
                 \/ v \in {0, Seq0(3 - r)[get[r]]}
<1> USE DEF ShmInv, MemInv
<1>1. /\ child[r] = "ended" /\ put[r] = Last(r) + 1 /\ seg[r] \in Runs /\ InUse(r)
      /\ get[r] \in Nat
  <2>1. child[r] \in Stopped /\ seg[r] \in Runs
    BY DEF TInv, ShmTypeOK, Points, Runs
  <2>2. child[r] = "ended"
    BY <2>1 DEF Stopped, Writes
  <2> QED BY <2>1, <2>2, SizeOK DEF Writes, InUse, Cells
<1>2. /\ Last(r) \in Nat /\ Last(r) \in Cells /\ Seq0(r)[Last(r)] = -1
      /\ \A c \in Cells : c < Last(r) => Seq0(r)[c] # -1
  BY FineIs, SizeOK DEF Cells
<1> DEFINE v == mem[seg[r]][get[r]]
<1>3. v = mem[seg[r]][get[r]]
  OBVIOUS
<1> HIDE DEF v
<1>4. ASSUME ~together
      PROVE  /\ get[r] <= Last(r) /\ v = Seq0(r)[get[r]]
             /\ v # -1 => get[r] < Last(r)
             /\ v = -1 => get[r] = Last(r)
  <2>1. get[r] <= Last(r)
    BY <1>4 DEF Reads
  <2>2. get[r] < put[r]
    BY <1>1, <1>2, <2>1
  <2>3. v = Seq0(r)[get[r]]
    BY <1>1, <1>3, <1>4, <2>2 DEF InMemory
  <2> QED BY <1>1, <1>2, <2>1, <2>3
<1>5. ASSUME Fine(3 - r), v # -1
      PROVE  \/ get[r] < Last(r) /\ v = Seq0(r)[get[r]]
             \/ v \in {0, Seq0(3 - r)[get[r]]}
  <2>1. \A q \in Runs : Fine(q) /\ q \in {r, 3 - r}
    <3> SUFFICES ASSUME NEW q \in Runs PROVE Fine(q) /\ q \in {r, 3 - r}
      OBVIOUS
    <3>1. q = r \/ q = 3 - r
      BY DEF Runs
    <3> QED BY <1>5, <3>1
  <2>2. v = 0 \/ \E q \in Runs : get[r] <= Last(q) /\ v = Seq0(q)[get[r]]
    BY <1>1, <1>3, <2>1 DEF EitherCell
  <2>3. CASE v = Seq0(r)[get[r]] /\ get[r] <= Last(r)
    <3>1. get[r] # Last(r)
      BY <1>2, <1>5, <2>3
    <3> QED BY <1>1, <1>2, <2>3, <3>1
  <2> QED BY <2>1, <2>2, <2>3
<1> QED BY <1>3, <1>4, <1>5

LEMMA PrintKept == ASSUME ShmInv, NEW r \in Runs, PrintNumber(r) PROVE Kept
<1> USE DEF ShmInv
<1>1. /\ UNCHANGED <<input, name, mem, seg, child, n, put, together, broken>>
      /\ parent[r] = "print" /\ get \in [Runs -> Int] /\ printed \in [Runs -> Seq(Ints)]
      /\ parent \in [Runs -> Active \cup Stopped] /\ child[r] \in Stopped
      /\ \A q \in Runs : Len(printed[q]) = get[q]
  <2>1. /\ get \in [Runs -> Int] /\ printed \in [Runs -> Seq(Ints)] /\ child[r] \in Stopped
        /\ parent \in [Runs -> Active \cup Stopped] /\ \A q \in Runs : Len(printed[q]) = get[q]
    BY SizeOK DEF PrintNumber, TInv, ShmTypeOK, Points
  <2> QED BY <2>1 DEF PrintNumber, objects, numbers, ghosts
<1>f. ASSUME get[r] \in Cells PROVE Found(r) = {mem[seg[r]][get[r]]}
  BY <1>f DEF Found
<1>2. /\ parent'[r] \in {"print", "unlink", "fault"}
      /\ \A q \in Runs : q # r => parent'[q] = parent[q] /\ get'[q] = get[q] /\ printed'[q] = printed[q]
  BY <1>1 DEF PrintNumber, Set
<1>3. MemInv'
  <2>1. \A q \in Runs : InUse(q)' => InUse(q)
    BY <1>1, <1>2 DEF InUse
  <2> QED BY <1>1, <2>1, QuietMem
<1>4. NameKept'
  BY <1>1, <1>2 DEF NameKept, Fine
<1>5. Reads'
  <2> SUFFICES ASSUME ~together, NEW q \in Runs, Fine(q), child[q] # "killed"
               PROVE  /\ get'[q] <= Last(q) /\ parent'[q] # "fault"
                      /\ parent'[q] = "unlink" \/ (parent'[q] = "ended" /\ child[q] # "none") =>
                            get'[q] = Last(q)
    BY <1>1 DEF Reads, Fine, Last
  <2>1. CASE q # r
    BY <1>2, <2>1 DEF Reads
  <2>2. CASE q = r
    <3>0. get[r] \in Cells
      <4>1. get[r] \in Int /\ 0 <= get[r] /\ get[r] <= Last(r)
        BY <1>1, <2>2, SizeOK DEF Reads, TInv, ShmTypeOK
      <4> QED BY <2>2, <4>1, FineIs, SizeOK DEF Cells
    <3>1. CASE mem[seg[r]][get[r]] # -1
      <4>1. parent'[r] = "print" /\ get'[r] = get[r] + 1
        BY <1>1, <1>f, <3>0, <3>1 DEF PrintNumber, Set
      <4>2. get[r] < Last(r) /\ Last(r) \in Int /\ get[r] \in Int
        BY <1>1, <2>2, <3>0, <3>1, ReadIs, FineIs, SizeOK DEF Cells
      <4> QED BY <2>2, <4>1, <4>2
    <3>2. CASE mem[seg[r]][get[r]] = -1
      <4>1. parent'[r] = "unlink" /\ get'[r] = get[r]
        BY <1>1, <1>f, <3>0, <3>2 DEF PrintNumber, Set
      <4>2. get[r] = Last(r) /\ Last(r) \in Int
        BY <1>1, <2>2, <3>0, <3>2, ReadIs, FineIs, SizeOK DEF Cells
      <4> QED BY <2>2, <4>1, <4>2
    <3> QED BY <3>1, <3>2
  <2> QED BY <2>1, <2>2
<1>6. Printed'
  <2>1. ASSUME NEW d \in Found(r) \ {-1},
               printed' = [printed EXCEPT ![r] = Append(printed[r], d)], parent' = parent
        PROVE  Printed'
    <3>1. printed' = [printed EXCEPT ![r] = Append(printed[r], d)] /\ parent' = parent
      BY <2>1
    <3>2. d \in Ints
      <4>1. get[r] \in Cells => mem[seg[r]][get[r]] \in Ints
        BY <1>1 DEF TInv, ShmTypeOK, Points, Runs
      <4>2. get[r] \notin Cells => d \in Outside
        BY <2>1 DEF Found
      <4> QED BY <1>f, <2>1, <4>1, <4>2, SizeOK
    <3>d. get[r] \in Cells => d = mem[seg[r]][get[r]] /\ d # -1
      BY <1>f, <2>1
    <3>3. /\ Len(printed'[r]) = get[r] + 1 /\ printed'[r][get[r] + 1] = d
          /\ \A j \in 1 .. get[r] : printed'[r][j] = printed[r][j]
      BY <1>1, <3>1, <3>2
    <3> SUFFICES ASSUME NEW q \in Runs, Fine(q), child[q] # "killed"
                 PROVE  /\ \/ \A j \in 1 .. Len(printed'[q]) : Own(q, j)'
                           \/ together /\ ~Fine(3 - q)
                           \/ together /\ \A j \in 1 .. Len(printed'[q]) : j <= Size => Own(q, j)' \/ Others(q, j)'
                        /\ parent'[q] = "ended" /\ child[q] # "none" /\ ~together =>
                              Len(printed'[q]) = Last(q)
      BY <1>1 DEF Printed, Fine, Last
    <3>4. /\ \/ \A j \in 1 .. Len(printed[q]) : Own(q, j)
             \/ together /\ ~Fine(3 - q)
             \/ together /\ \A j \in 1 .. Len(printed[q]) : j <= Size => Own(q, j) \/ Others(q, j)
          /\ parent[q] = "ended" /\ child[q] # "none" /\ ~together => Len(printed[q]) = Last(q)
      BY DEF Printed, Fine, Last
    <3>5. CASE q # r
      <4>1. \A j : (Own(q, j)' <=> Own(q, j)) /\ (Others(q, j)' <=> Others(q, j))
        BY <1>1, <1>2, <3>5 DEF Own, Others
      <4> QED BY <1>2, <3>4, <3>5, <4>1
    <3>6. CASE q = r
      <4>1. \A j \in 1 .. get[r] : (Own(r, j)' <=> Own(r, j)) /\ (Others(r, j)' <=> Others(r, j))
        BY <1>1, <3>3 DEF Own, Others
      <4>2. \A j \in 1 .. Len(printed'[r]) : j \in 1 .. get[r] \/ j = get[r] + 1
        BY <1>1, <3>3
      <4>3. get[r] \in Int /\ (get[r] + 1) - 1 = get[r] /\ Last(r) \in Int
        BY <1>1, <3>6, FineIs, SizeOK DEF Cells
      <4> DEFINE Here(j) == j = get[r] + 1
      <4>4. ASSUME NEW j, Here(j), get[r] < Last(r), d = Seq0(r)[get[r]] PROVE Own(r, j)'
        BY <1>1, <3>3, <4>3, <4>4 DEF Own, Last, Seq0
      <4>5. ASSUME NEW j, Here(j), d \in {0, Seq0(3 - r)[get[r]]} PROVE Others(r, j)'
        BY <1>1, <3>3, <4>3, <4>5 DEF Others, Seq0
      <4>c. /\ get[r] \in Int /\ 0 <= get[r] /\ (get[r] + 1 <= Size => get[r] \in Cells)
            /\ get[r] <= Last(r) => get[r] \in Cells
        <5>1. get[r] \in Int /\ 0 <= get[r]
          BY SizeOK DEF TInv, ShmTypeOK
        <5> QED BY <5>1, <3>6, FineIs, SizeOK DEF Cells
      <4>6. CASE ~together
        <5>1. get[r] \in Cells
          BY <1>1, <3>6, <4>6, <4>c DEF Reads
        <5>2. ASSUME NEW j, Here(j) PROVE Own(r, j)'
          BY <5>1, <5>2, <1>1, <3>d, <3>6, <4>4, <4>6, ReadIs
        <5> QED BY <1>1, <3>1, <3>4, <3>6, <4>1, <4>2, <4>6, <5>2
      <4>7. CASE together /\ Fine(3 - r)
        <5>1. ASSUME NEW j, Here(j), j <= Size PROVE Own(r, j)' \/ Others(r, j)'
          <6>1. get[r] \in Cells
            BY <4>c, <5>1
          <6> QED BY <5>1, <6>1, <1>1, <3>d, <3>6, <4>4, <4>5, <4>7, ReadIs
        <5>2. \A j \in 1 .. get[r] : j <= Size => Own(r, j) \/ Others(r, j)
          BY <1>1, <3>4, <3>6, <4>7
        <5> QED BY <3>6, <4>1, <4>2, <4>7, <5>1, <5>2
      <4>8. CASE together /\ ~Fine(3 - r)
        BY <3>6, <4>8
      <4> QED BY <4>6, <4>7, <4>8
    <3> QED BY <3>5, <3>6
  <2>2. ASSUME printed' = printed PROVE Printed'
    BY <1>1, <1>2, <2>2, PrintedStays
  <2> QED BY <2>1, <2>2 DEF PrintNumber, Set
<1> QED BY <1>3, <1>4, <1>5, <1>6 DEF Kept

LEMMA NextShmInv == ShmInv /\ [ShmNext]_shmVars => ShmInv'
<1> SUFFICES ASSUME ShmInv, [ShmNext]_shmVars PROVE ShmInv'
  OBVIOUS
<1>1. TInv'
  BY NextTInv DEF ShmInv
<1>2. CASE UNCHANGED shmVars
  <2>1. (Writes /\ Apart /\ InMemory /\ EitherCell)'
    BY <1>2 DEF shmVars, objects, numbers, ghosts, ShmInv, MemInv, Writes, Apart, InMemory,
                EitherCell, InUse, Fine, Last, Seq0
  <2>2. (Reads /\ NameKept)'
    BY <1>2 DEF shmVars, objects, numbers, ghosts, ShmInv, Reads, NameKept, Fine, Last
  <2>3. Printed'
    BY <1>2 DEF shmVars, objects, numbers, ghosts, ShmInv, Printed, Own, Others
  <2> QED BY <1>1, <2>1, <2>2, <2>3 DEF ShmInv, MemInv
<1>3. CASE ShmNext
  <2>1. PICK r \in Runs : Child(r) \/ Parent(r) \/ KillParent(r) \/ KillChild(r)
    BY <1>3 DEF ShmNext
  <2>2. Kept
    BY <2>1, StoreKept, EndKept, OpenKept, ForkKept, PrintKept DEF Child, Parent
  <2> QED BY <1>1, <2>2 DEF ShmInv, Kept
<1> QED BY <1>2, <1>3

LEMMA Invariant == ShmSpec => []ShmInv
BY InitShmInv, NextShmInv, PTL DEF ShmSpec

(* Whatever an earlier run left in the memory, a run prints the sequence   *)
(* of its own number in whole, unless its child was killed or its number   *)
(* is out of range; with the other run in the same memory, every number    *)
(* printed is one of the two sequences at its own place, or 0.             *)
THEOREM PrintsSequence == ShmSpec => []Printed
BY Invariant, PTL DEF ShmInv

LEMMA NameGoneOf == ShmInv => NameGone
BY DEF ShmInv, NameKept, NameGone, Fine, Stopped

LEMMA InSegmentOf == ShmInv => InSegment
<1> SUFFICES ASSUME ShmInv, NEW r \in Runs, Fine(r)
             PROVE  /\ put[r] <= Size /\ child[r] # "fault"
                    /\ child[r] # "killed" /\ ~together => get[r] < Size /\ parent[r] # "fault"
  BY DEF InSegment, Fine
<1>1. Last(r) \in 0..Size - 1
  BY FineIs DEF ShmInv, Cells
<1>2. put[r] \in Int /\ get[r] \in Int
  BY SizeOK DEF ShmInv, TInv, ShmTypeOK
<1>3. put[r] <= Last(r) + 1 /\ child[r] # "fault"
  BY DEF ShmInv, MemInv, Writes
<1>4. child[r] # "killed" /\ ~together => get[r] <= Last(r) /\ parent[r] # "fault"
  BY DEF ShmInv, Reads
<1> QED BY <1>1, <1>2, <1>3, <1>4, SizeOK

(* No run leaves its segment whose number is in range, whatever lies       *)
(* behind: not its child at all, and not its parent unless the child was   *)
(* killed or the other run was in the memory (shared_memory.c:14-25, 62,   *)
(* 74-80).                                                                 *)
THEOREM StaysInSegment == ShmSpec => []InSegment
BY Invariant, InSegmentOf, PTL

(* Two runs that come to their end leave no name behind, in whatever order *)
(* they made it and removed that of the other.                             *)
THEOREM NameIsGone == ShmSpec => []NameGone
BY Invariant, NameGoneOf, PTL
=============================================================================
