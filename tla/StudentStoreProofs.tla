------------------------- MODULE StudentStoreProofs -------------------------
(***************************************************************************)
(* Theorems about the student record program, for all roll numbers, names, *)
(* descriptor limits and bounds: the types of the state; that the count of *)
(* the index file covers the offsets behind it wherever the process is     *)
(* killed, unless compaction() overwrites its own count; that search()     *)
(* runs for ever only after a kill; that the counts agree and no two       *)
(* records share a cell until an option ends half-way, and again from the  *)
(* next initialization on; that until then every step is one its option    *)
(* has in the table of StudentTable, or invisible in it; that a stored     *)
(* record outlives every other option and every kill; that compaction      *)
(* packs, and sort orders, any files they accept; and that the writes of   *)
(* an option come to an end.                                               *)
(***************************************************************************)
EXTENDS StudentStore, FiniteSetTheorems, SequenceTheorems, WellFoundedInduction, TLAPS

(***************************************************************************)
(* What the local count n and the loop of an option know about the files.  *)
(***************************************************************************)
CountKnown ==
    /\ op.at = "inIdx"  => hdr # NoHdr /\ op.n = hdr + 1
    /\ op.at = "inSlot" => Cardinality(Live) + 1 <= hdr
    /\ op.at = "delIdx" => Cardinality(Live) <= op.n

SlotsKnown ==
    /\ op.at \in {"initData", "initHdr", "cData", "cHdr", "cSlots"} => slots = <<>>
    /\ op.at \in {"cIdx", "cData", "cHdr", "cSlots"} /\ Build # "O0" => op.n >= 0
    /\ op.at = "cSlots" => hdr = op.n
    /\ op.at \in {"cCount", "cBody"} => hdr = op.n /\ Len(slots) = op.n
    /\ op.at \in {"sort", "swap"} => hdr = op.n /\ Len(slots) = op.n /\ op.i >= 1
    /\ op.at = "swap" => op.j \in 1..op.n

-----------------------------------------------------------------------------
(* Lemmas on the operators.                                                *)

LEMMA IdleType == Idle \in Ops
  <1>1. <<>> \in Seq(Cells)
    OBVIOUS
  <1> QED
    BY <1>1 DEF Idle, Ops, Points

(* A step that moves an option on changes nothing else of op. *)
LEMMA OpMove ==
    ASSUME NEW o \in Ops, NEW at \in Points
    PROVE  LET o2 == [o EXCEPT !.at = at]
           IN  /\ o2 \in Ops /\ o2.at = at
               /\ o2.n = o.n /\ o2.i = o.i /\ o2.j = o.j /\ o2.body = o.body
               /\ o2.app = o.app /\ o2.sorts = o.sorts
  BY DEF Ops

(* The slot index_of_min() returns lies between the two it is given. *)
LEMMA MinIndexRange ==
    ASSUME NEW start \in Nat, NEW end \in Nat, start <= end
    PROVE  MinIndex(start, end) \in start..end
  <1>1. start \in start..end
    OBVIOUS
  <1> QED
    BY <1>1 DEF MinIndex

(* The slots in use are finitely many, no more than there are slots. *)
LEMMA InUseFinite ==
    ASSUME NEW t \in Seq(Int)
    PROVE  LET live == {k \in DOMAIN t : t[k] # Deleted}
           IN  /\ IsFiniteSet(live)
               /\ Cardinality(live) \in Nat
               /\ Cardinality(live) <= Len(t)
  <1> DEFINE live == {k \in DOMAIN t : t[k] # Deleted}
  <1>1. live \subseteq 1..Len(t) /\ Len(t) \in Nat
    BY LenProperties
  <1>2. IsFiniteSet(1..Len(t)) /\ Cardinality(1..Len(t)) = Len(t)
    <2>1. Cardinality(1..Len(t)) = IF 1 > Len(t) THEN 0 ELSE Len(t) - 1 + 1
      BY <1>1, FS_Interval
    <2> QED
      BY <1>1, <2>1, FS_Interval
  <1>3. IsFiniteSet(live) /\ Cardinality(live) <= Len(t)
    <2> HIDE DEF live
    <2> QED
      BY <1>1, <1>2, FS_Subset
  <1> QED
    BY <1>3, FS_CardinalityType

LEMMA LiveFinite ==
    ASSUME slots \in Seq(Int)
    PROVE  /\ IsFiniteSet(Live)
           /\ Cardinality(Live) \in Nat
           /\ Cardinality(Live) <= Len(slots)
  BY InUseFinite DEF Live

(* The buffer of compaction() is a sequence of cells, whatever is in memory *)
(* that was not read into.                                                  *)
LEMMA PackedBodyType ==
    ASSUME data \in Seq(Cells), slots \in Seq(Int),
           NEW left \in [Unread \ Lengths -> Leftovers]
    PROVE  /\ PackedBody(left) \in Seq(Cells)
           /\ Len(PackedBody(left)) = RecordCells * Cardinality(Live)
  <1>1. Cardinality(Live) \in Nat
    BY LiveFinite
  <1> DEFINE n == RecordCells * Cardinality(Live)
             b == PackedBody(left)
  <1>2. n \in Nat
    BY <1>1 DEF RecordCells
  <1>3. b = [c \in 1..n |-> IF c \in Unread THEN UnreadCell(c, left) ELSE data[Source(c)]]
    BY DEF PackedBody, BodyCells
  <1>4. ASSUME NEW c \in 1..n
        PROVE  b[c] \in Cells
    <2>1. b[c] = IF c \in Unread THEN UnreadCell(c, left) ELSE data[Source(c)]
      BY <1>3
    <2>2. CASE c \in Unread
      <3>1. c % RecordCells # 2 => left[c] \in Int
        <4>1. c % RecordCells # 2 => c \in Unread \ Lengths
          BY <2>2 DEF Lengths
        <4> QED
          BY <4>1, LeftoverAssumption
      <3>2. CASE c % RecordCells = 1
        BY <2>1, <2>2, <3>1, <3>2 DEF UnreadCell, Roll, Cells
      <3>3. CASE c % RecordCells = 2
        BY <2>1, <2>2, <3>3 DEF UnreadCell, NameLen, Cells
      <3>4. CASE c % RecordCells # 1 /\ c % RecordCells # 2
        BY <2>1, <2>2, <3>1, <3>4 DEF UnreadCell, Name, Cells
      <3> QED
        BY <3>2, <3>3, <3>4
    <2>3. CASE c \notin Unread
      <3>1. Source(c) \in DOMAIN data
        BY <2>3 DEF Unread, BodyCells
      <3> QED
        BY <2>1, <2>3, <3>1, ElementOfSeq, LenProperties
    <2> QED
      BY <2>2, <2>3
  <1> HIDE DEF n, b
  <1>5. b \in Seq(Cells) /\ Len(b) = n
    BY <1>2, <1>3, <1>4
  <1> QED
    BY <1>5 DEF n, b

(* A new slot adds at most one to the slots in use. *)
LEMMA LiveAppend ==
    ASSUME slots \in Seq(Int), NEW p \in Int, slots' = Append(slots, p)
    PROVE  Cardinality(Live') <= Cardinality(Live) + 1
  <1>1. IsFiniteSet(Live) /\ Cardinality(Live) \in Nat
    BY LiveFinite
  <1>2. Live' \subseteq Live \cup {Len(slots) + 1}
    BY DEF Live
  <1>3. /\ IsFiniteSet(Live \cup {Len(slots) + 1})
        /\ Cardinality(Live \cup {Len(slots) + 1}) <= Cardinality(Live) + 1
    <2>1. /\ IsFiniteSet(Live \cup {Len(slots) + 1})
          /\ Cardinality(Live \cup {Len(slots) + 1}) \in {Cardinality(Live), Cardinality(Live) + 1}
      BY <1>1, FS_AddElement
    <2> QED
      BY <1>1, <2>1
  <1>4. Cardinality(Live') <= Cardinality(Live \cup {Len(slots) + 1})
    BY <1>2, <1>3, FS_Subset
  <1>5. Cardinality(Live') \in Nat /\ Cardinality(Live \cup {Len(slots) + 1}) \in Nat
    BY <1>2, <1>3, FS_Subset, FS_CardinalityType
  <1> QED
    BY <1>1, <1>3, <1>4, <1>5

(* A deletion takes one from the slots in use. *)
LEMMA LiveDelete ==
    ASSUME slots \in Seq(Int), NEW k \in Live, slots' = [slots EXCEPT ![k] = Deleted]
    PROVE  Cardinality(Live') = Cardinality(Live) - 1
  <1>1. IsFiniteSet(Live)
    BY LiveFinite
  <1>2. Live' = Live \ {k}
    BY DEF Live
  <1> QED
    BY <1>1, <1>2, FS_RemoveElement

-----------------------------------------------------------------------------
(* Type correctness, in every build.                                       *)

TypeInv == TypeOK /\ SlotsKnown

LEMMA InitTypeInv == Init => TypeInv
  <1> SUFFICES ASSUME Init PROVE TypeInv
    OBVIOUS
  <1>1. Idle \in Ops
    BY IdleType
  <1>2. data \in Seq(Cells)
    BY DEF Init, Count, Cells
  <1>b. torn \in BOOLEAN
    BY DEF Init
  <1>3. TypeOK
    BY <1>1, <1>2, <1>b, FdsAssumption, BoundsAssumption DEF Init, TypeOK
  <1> QED
    BY <1>3 DEF Init, TypeInv, SlotsKnown, Idle

(* What Init and every exit leave of op satisfies SlotsKnown. *)
LEMMA IdleKnown ==
    ASSUME op' = Idle
    PROVE  op' \in Ops /\ SlotsKnown'
  BY IdleType DEF SlotsKnown, Idle

(* A count is written at the start of the data file or at its end. *)
LEMMA WriteCountType ==
    ASSUME data \in Seq(Cells), NEW v \in Int, NEW app, WriteCount(v, app)
    PROVE  data' \in Seq(Cells)
  <1>1. Count(v) \in Cells
    BY DEF Count, Cells
  <1>2. data \in Seq(Cells)
    OBVIOUS
  <1>3. Append(data, Count(v)) \in Seq(Cells)
    BY <1>1, <1>2
  <1>4. CASE data = <<>>
    BY <1>3, <1>4 DEF WriteCount
  <1>5. CASE data # <<>>
    <2>1. 1 \in 1..Len(data)
      BY <1>2, <1>5, EmptySeq, LenProperties
    <2>2. [data EXCEPT ![1] = Count(v)] \in Seq(Cells)
      BY <1>1, <1>2, <2>1, ExceptSeq
    <2> QED
      BY <1>3, <2>2 DEF WriteCount
  <1> QED
    BY <1>4, <1>5

LEMMA NextTypeInv == TypeInv /\ [Next]_vars => TypeInv'
  <1> SUFFICES ASSUME TypeInv, [Next]_vars PROVE TypeInv'
    OBVIOUS
  <1> USE DEF TypeInv, TypeOK
  <1>t. /\ data \in Seq(Cells) /\ hdr \in Int /\ slots \in Seq(Int)
        /\ fds \in 0..MaxFds /\ op \in Ops /\ crashes \in 0..MaxCrashes /\ torn \in BOOLEAN
    OBVIOUS
  <1>o. /\ 0 \in 0..MaxFds
        /\ op.n \in Int /\ op.i \in Nat /\ op.j \in Nat /\ op.off \in Int
        /\ op.body \in Seq(Cells) /\ op.app \in BOOLEAN /\ op.sorts \in BOOLEAN
    BY <1>t, FdsAssumption DEF Ops
  <1>u. ASSUME NEW at \in Points, op' = [op EXCEPT !.at = at]
        PROVE  /\ op' \in Ops /\ op'.at = at /\ op'.n = op.n
               /\ op'.i = op.i /\ op'.j = op.j
    BY <1>t, <1>u, OpMove
  <1>1. CASE OpenFails
    BY <1>1, <1>t, <1>o DEF OpenFails, SlotsKnown
  <1>2. CASE Initialize
    <2>1. CASE InitTruncData
      <3>1. CASE Opens
        <4>1. torn' \in BOOLEAN
          BY <2>1, <3>1 DEF InitTruncData
        <4> QED
          BY <2>1, <3>1, <4>1, <1>t, <1>u DEF InitTruncData, SlotsKnown, Points
      <3>2. CASE ~Opens
        BY <2>1, <3>2, <1>t, <1>o, IdleKnown DEF InitTruncData, ExitTorn, Quit
      <3> QED
        BY <3>1, <3>2
    <2>2. CASE InitTruncIdx
      BY <2>2, <1>t, <1>u DEF InitTruncIdx, SlotsKnown, Points, NoHdr
    <2>3. CASE InitCount
      <3>1. data' \in Seq(Cells)
        BY <2>3 DEF InitCount, Count, Cells
      <3> QED
        BY <2>3, <3>1, <1>t, <1>u DEF InitCount, SlotsKnown, Points
    <2>4. CASE InitIndexHeader
      BY <2>4, <1>t, IdleKnown DEF InitIndexHeader
    <2> QED
      BY <1>2, <2>1, <2>2, <2>3, <2>4 DEF Initialize
  <1>3. CASE Input
    <2>1. ASSUME NEW app \in BOOLEAN, InputHeader(app)
          PROVE  TypeInv'
      <3>1. CASE hdr = NoHdr
        BY <2>1, <3>1, <1>t, <1>o, IdleKnown DEF InputHeader, Exit, Quit
      <3>2. CASE hdr # NoHdr
        <4>1. data' \in Seq(Cells)
          <5>1. hdr + 1 \in Int /\ WriteCount(hdr + 1, app)
            BY <2>1, <3>2, <1>t DEF InputHeader
          <5> QED
            BY <5>1, <1>t, WriteCountType
        <4>2. op' = [Idle EXCEPT !.at = "inIdx", !.app = app, !.n = hdr + 1]
          BY <2>1, <3>2 DEF InputHeader
        <4>3. op' \in Ops /\ op'.at = "inIdx"
          <5> DEFINE m == hdr + 1
          <5>1. op' = [Idle EXCEPT !.at = "inIdx", !.app = app, !.n = m]
            BY <4>2
          <5>2. m \in Int /\ "inIdx" \in Points
            BY <1>t DEF Points
          <5> HIDE DEF m
          <5> QED
            BY <2>1, <5>1, <5>2, IdleType DEF Ops
        <4> QED
          BY <2>1, <3>2, <4>1, <4>3, <1>t DEF InputHeader, SlotsKnown
      <3> QED
        BY <3>1, <3>2
    <2>2. CASE Add
      BY <2>1, <2>2 DEF Add
    <2>3. CASE ModifyInput
      BY <2>1, <2>3 DEF ModifyInput
    <2>4. CASE InputIndexHeader
      BY <2>4, <1>t, <1>o, <1>u DEF InputIndexHeader, SlotsKnown, Points
    <2>5. CASE InputSlot
      <3>1. slots' \in Seq(Int)
        BY <2>5, <1>t DEF InputSlot
      <3> QED
        BY <2>5, <3>1, <1>t, <1>u DEF InputSlot, SlotsKnown, Points
    <2>6. CASE InputRoll
      <3>1. PICK r \in Rolls : data' = Append(data, Roll(r))
        BY <2>6 DEF InputRoll
      <3>2. Roll(r) \in Cells
        BY RollsAssumption DEF Roll, Cells
      <3>3. data' \in Seq(Cells)
        BY <3>1, <3>2, <1>t
      <3> QED
        BY <2>6, <3>3, <1>t, <1>u DEF InputRoll, SlotsKnown, Points
    <2>7. CASE InputNameLen
      <3>1. NameLen \in Cells
        BY DEF NameLen, Cells
      <3>2. data' \in Seq(Cells)
        BY <2>7, <3>1, <1>t DEF InputNameLen
      <3> QED
        BY <2>7, <3>2, <1>t, <1>u DEF InputNameLen, SlotsKnown, Points
    <2>8. CASE InputName
      <3>1. PICK s \in Names : data' = Append(data, Name(s))
        BY <2>8 DEF InputName
      <3>2. Name(s) \in Cells
        BY NamesAssumption DEF Name, Cells
      <3>3. data' \in Seq(Cells)
        BY <3>1, <3>2, <1>t
      <3> QED
        BY <2>8, <3>3, <1>t, IdleKnown DEF InputName
    <2> QED
      BY <1>3, <2>2, <2>3, <2>4, <2>5, <2>6, <2>7, <2>8 DEF Input
  <1>4. CASE Removal
    <2>1. ASSUME NEW app \in BOOLEAN, DeleteSlot(app)
          PROVE  TypeInv'
      <3>1. PICK r \in Rolls : \E k \in Found(r) : slots' = [slots EXCEPT ![k] = Deleted]
        BY <2>1 DEF DeleteSlot
      <3>2. PICK k \in Found(r) : slots' = [slots EXCEPT ![k] = Deleted]
        BY <3>1
      <3>3. slots' \in Seq(Int)
        BY <3>2, <1>t DEF Found, Scanned, Live, Deleted
      <3>4. op' \in Ops /\ op'.at = "delIdx"
        <4> DEFINE m == hdr - 1
        <4>1. op' = [Idle EXCEPT !.at = "delIdx", !.app = app, !.n = m]
          BY <2>1 DEF DeleteSlot
        <4>2. m \in Int /\ "delIdx" \in Points
          BY <1>t DEF Points
        <4> HIDE DEF m
        <4> QED
          BY <2>1, <4>1, <4>2, IdleType DEF Ops
      <3> QED
        BY <2>1, <3>3, <3>4, <1>t DEF DeleteSlot, SlotsKnown
    <2>2. CASE Delete
      BY <2>1, <2>2 DEF Delete
    <2>3. CASE Modify
      BY <2>1, <2>3 DEF Modify
    <2>4. CASE DeleteIndexHeader
      BY <2>4, <1>t, <1>o, <1>u DEF DeleteIndexHeader, SlotsKnown, Points
    <2>5. CASE DeleteCount
      <3>1. data' \in Seq(Cells)
        BY <2>5, <1>t, <1>o, WriteCountType DEF DeleteCount
      <3>2. CASE op.app
        BY <2>5, <3>1, <3>2, <1>t, <1>u DEF DeleteCount, SlotsKnown, Points
      <3>3. CASE ~op.app
        BY <2>5, <3>1, <3>3, <1>t, IdleKnown DEF DeleteCount
      <3> QED
        BY <3>2, <3>3
    <2> QED
      BY <1>4, <2>2, <2>3, <2>4, <2>5 DEF Removal
  <1>5. CASE Reading
    <2>1. CASE SearchHangs
      BY <2>1, <1>t, <1>u DEF SearchHangs, SlotsKnown, Points
    <2>2. CASE ReadFails
      BY <2>2, <1>t, <1>o, IdleKnown DEF ReadFails, Exit, Quit
    <2>3. CASE PrintStudent
      BY <2>3, <1>t, FdsAssumption DEF PrintStudent, Opens, SlotsKnown
    <2> QED
      BY <1>5, <2>1, <2>2, <2>3 DEF Reading
  <1>6. CASE Compaction
    <2>1. ASSUME NEW sorts \in BOOLEAN, CompactRead(sorts)
          PROVE  TypeInv'
      <3>0. /\ UNCHANGED <<data, hdr, slots, crashes>>
            /\ \E n \in CountRead : CompactOverruns(n) \/ CompactExits(n) \/ CompactBuffers(n, sorts)
        BY <2>1 DEF CompactRead
      <3>1. PICK n \in CountRead : CompactOverruns(n) \/ CompactExits(n) \/ CompactBuffers(n, sorts)
        BY <3>0
      <3>n. n \in Int
        BY <1>t, LeftoverAssumption DEF CountRead
      <3>2. CASE CompactOverruns(n)
        BY <3>0, <3>2, <1>t, <1>u DEF CompactOverruns, SlotsKnown, Points
      <3>3. CASE CompactExits(n)
        BY <3>0, <3>3, <1>t, <1>o, IdleKnown DEF CompactExits, Exit, Quit
      <3>4. CASE CompactBuffers(n, sorts)
        <4>1. n \in Nat
          BY <3>4, <3>n, <1>t, LiveFinite DEF CompactBuffers, FitsBuffers
        <4>2. PICK left \in [Unread \ Lengths -> Leftovers] :
                op' = [Idle EXCEPT !.at = "cIdx", !.sorts = sorts, !.n = CountAfterReads(n),
                                   !.body = PackedBody(left), !.hole = LastDeleted,
                                   !.stray = StrayStore(n)]
          BY <3>4 DEF CompactBuffers
        <4>3. PackedBody(left) \in Seq(Cells)
          BY <1>t, PackedBodyType
        <4>4. CountAfterReads(n) \in Int /\ (Build # "O0" => CountAfterReads(n) >= 0)
          BY <4>1 DEF CountAfterReads
        <4>5. StrayStore(n) \in BOOLEAN /\ LastDeleted \in BOOLEAN
          BY DEF StrayStore, LastDeleted
        <4>6. op' \in Ops /\ op'.at = "cIdx" /\ op'.n = CountAfterReads(n)
          <5> DEFINE m == CountAfterReads(n)
                     b == PackedBody(left)
                     st == StrayStore(n)
                     ho == LastDeleted
          <5>1. op' = [Idle EXCEPT !.at = "cIdx", !.sorts = sorts, !.n = m,
                                   !.body = b, !.hole = ho, !.stray = st]
            BY <4>2
          <5>2. m \in Int /\ b \in Seq(Cells) /\ st \in BOOLEAN /\ ho \in BOOLEAN
            BY <4>3, <4>4, <4>5
          <5>3. "cIdx" \in Points
            BY DEF Points
          <5>4. op' \in Ops /\ op'.at = "cIdx" /\ op'.n = m
            <6> HIDE DEF m, b, st, ho
            <6> QED
              BY <5>1, <5>2, <5>3, <2>1, IdleType DEF Ops
          <5> QED
            BY <5>4
        <4>7. UNCHANGED <<fds, torn>>
          BY <3>4 DEF CompactBuffers
        <4> QED
          BY <3>0, <4>4, <4>6, <4>7, <1>t DEF SlotsKnown
      <3> QED
        BY <3>1, <3>2, <3>3, <3>4
    <2>2. CASE Compact
      BY <2>1, <2>2 DEF Compact
    <2>3. CASE Sort
      BY <2>1, <2>3 DEF Sort
    <2>4. CASE CompactTruncIdx
      BY <2>4, <1>t, <1>u DEF CompactTruncIdx, SlotsKnown, Points, NoHdr
    <2>5. CASE CompactTruncData
      BY <2>5, <1>t, <1>u DEF CompactTruncData, SlotsKnown, Points
    <2>6. CASE CompactIndexHeader
      BY <2>6, <1>t, <1>o, <1>u DEF CompactIndexHeader, SlotsKnown, Points
    <2>7. CASE CompactSlots
      <3>1. CASE op.n < 0 \/ (op.stray /\ Build = "O2" /\ op.n > 0)
        BY <2>7, <3>1, <1>t, <1>o, IdleKnown DEF CompactSlots, ExitTorn, Quit
      <3>2. CASE ~(op.n < 0 \/ (op.stray /\ Build = "O2" /\ op.n > 0))
        <4>1. op.n \in Nat
          BY <3>2, <1>o
        <4> DEFINE st == OffsetsStored
        <4>2. PICK left \in [(st + 1)..op.n -> Leftovers] :
                slots' = [k \in 1..op.n |-> IF k <= st THEN RecordCells * (k - 1) + 1 ELSE left[k]]
          BY <2>7, <3>2 DEF CompactSlots
        <4>3. slots' \in Seq(Int) /\ Len(slots') = op.n
          <5>0. st \in Int
            BY <1>o, LenProperties DEF OffsetsStored, RecordCells
          <5> HIDE DEF st
          <5>1. ASSUME NEW k \in 1..op.n
                PROVE  (IF k <= st THEN RecordCells * (k - 1) + 1 ELSE left[k]) \in Int
            <6>1. CASE k <= st
              BY <6>1 DEF RecordCells
            <6>2. CASE ~(k <= st)
              <7>1. k \in (st + 1)..op.n
                BY <6>2, <5>0, <4>1
              <7> QED
                BY <7>1, <6>2, LeftoverAssumption
            <6> QED
              BY <6>1, <6>2
          <5> DEFINE N == op.n
          <5>2. slots' \in [1..N -> Int]
            BY <4>2, <5>1
          <5>3. N \in Nat
            BY <4>1
          <5>4. slots' \in Seq(Int) /\ Len(slots') = N
            <6> HIDE DEF N
            <6> QED
              BY <5>2, <5>3
          <5> QED
            BY <5>4
        <4> QED
          BY <2>7, <3>2, <4>3, <1>t, <1>u DEF CompactSlots, SlotsKnown, Points
      <3> QED
        BY <3>1, <3>2
    <2>8. CASE CompactCount
      <3>1. data' \in Seq(Cells)
        BY <2>8, <1>o DEF CompactCount, Count, Cells
      <3> QED
        BY <2>8, <3>1, <1>t, <1>u DEF CompactCount, SlotsKnown, Points
    <2>9. CASE CompactBody
      <3>1. data' \in Seq(Cells)
        BY <2>9, <1>t, <1>o DEF CompactBody
      <3>2. CASE op.sorts
        <4>1. op' = [Idle EXCEPT !.at = "sort", !.n = hdr, !.i = 1]
          BY <2>9, <3>2 DEF CompactBody
        <4>2. op' \in Ops /\ op'.at = "sort" /\ op'.n = hdr /\ op'.i = 1
          BY <4>1, <1>t, IdleType DEF Ops, Points
        <4> QED
          BY <2>9, <3>1, <4>2, <1>t DEF CompactBody, SlotsKnown
      <3>3. CASE ~op.sorts
        BY <2>9, <3>1, <3>3, <1>t, IdleKnown DEF CompactBody
      <3> QED
        BY <3>2, <3>3
    <2> QED
      BY <1>6, <2>2, <2>3, <2>4, <2>5, <2>6, <2>7, <2>8, <2>9 DEF Compaction
  <1>7. CASE Sorting
    <2>1. CASE SortStep
      <3> DEFINE m == MinIndex(op.i, op.n)
      <3>1. op.i \in Nat /\ op.n \in Nat /\ op.i <= op.n /\ 1 <= op.i /\ Len(slots) = op.n
        BY <2>1, <1>t, <1>o DEF SortStep, SlotsKnown
      <3>2. m \in op.i..op.n
        BY <3>1, MinIndexRange
      <3> HIDE DEF m
      <3>3. CASE m = op.i
        <4>1. op' = [op EXCEPT !.i = @ + 1] /\ slots' = slots
          BY <2>1, <3>3 DEF SortStep, m
        <4>2. op' \in Ops /\ op'.at = "sort" /\ op'.n = op.n /\ op'.i = op.i + 1
          <5>1. op \in Ops /\ op.at = "sort" /\ op.i + 1 \in Nat
            BY <2>1, <3>1, <1>t DEF SortStep
          <5> QED
            BY <4>1, <5>1 DEF Ops
        <4> QED
          BY <2>1, <4>1, <4>2, <3>1, <1>t DEF SortStep, SlotsKnown
      <3>4. CASE m # op.i
        <4>1. /\ slots' = [slots EXCEPT ![op.i] = slots[m]]
              /\ op' = [op EXCEPT !.at = "swap", !.j = m, !.off = slots[op.i]]
          BY <2>1, <3>4 DEF SortStep, m
        <4>2. slots[m] \in Int /\ slots[op.i] \in Int
          BY <3>1, <3>2, <1>t
        <4>3. slots' \in Seq(Int) /\ Len(slots') = op.n
          BY <3>1, <4>1, <4>2, <1>t
        <4>4. op' \in Ops /\ op'.at = "swap" /\ op'.n = op.n /\ op'.i = op.i /\ op'.j = m
          <5>1. op.i \in Nat /\ m \in Nat
            BY <3>1, <3>2
          <5>2. op' = [op EXCEPT !.at = "swap", !.i = op.i, !.j = m, !.off = slots[op.i]]
            BY <4>1, <1>t DEF Ops
          <5>3. "swap" \in Points
            BY DEF Points
          <5> DEFINE i == op.i
                     off == slots[op.i]
          <5>4. op' = [op EXCEPT !.at = "swap", !.i = i, !.j = m, !.off = off]
            BY <5>2
          <5>5. i \in Nat /\ off \in Int
            BY <5>1, <4>2
          <5>6. op' \in Ops /\ op'.at = "swap" /\ op'.n = op.n /\ op'.i = i /\ op'.j = m
            <6> HIDE DEF i, off
            <6> QED
              BY <5>1, <5>3, <5>4, <5>5, <1>t DEF Ops
          <5> QED
            BY <5>6
        <4> QED
          BY <2>1, <3>1, <3>2, <4>3, <4>4, <1>t DEF SortStep, SlotsKnown
      <3> QED
        BY <3>3, <3>4
    <2>2. CASE SortSwap
      <3>1. op.j \in 1..Len(slots) /\ op.n = Len(slots) /\ op.n = hdr /\ op.i >= 1
        BY <2>2, <1>t DEF SortSwap, SlotsKnown
      <3>2. slots' \in Seq(Int) /\ Len(slots') = Len(slots)
        <4> DEFINE j == op.j
                   off == op.off
        <4>1. slots' = [slots EXCEPT ![j] = off]
          BY <2>2 DEF SortSwap
        <4>2. j \in 1..Len(slots) /\ off \in Int
          BY <3>1, <1>o
        <4> HIDE DEF j, off
        <4> QED
          BY <4>1, <4>2, <1>t, ExceptSeq
      <3>3. op' \in Ops /\ op'.at = "sort" /\ op'.n = op.n /\ op'.i = op.i + 1
        <4> DEFINE i == op.i + 1
        <4>1. op' = [op EXCEPT !.at = "sort", !.i = i, !.j = 0, !.off = 0]
          BY <2>2, <1>t DEF SortSwap, Ops
        <4>2. i \in Nat /\ 0 \in Nat /\ 0 \in Int /\ "sort" \in Points
          BY <1>o DEF Points
        <4>3. op' \in Ops /\ op'.at = "sort" /\ op'.n = op.n /\ op'.i = i
          <5> HIDE DEF i
          <5> QED
            BY <4>1, <4>2, <1>t DEF Ops
        <4> QED
          BY <4>3
      <3> QED
        BY <2>2, <3>1, <3>2, <3>3, <1>t, <1>o DEF SortSwap, SlotsKnown
    <2>3. CASE SortEnd
      BY <2>3, <1>t, IdleKnown DEF SortEnd
    <2>4. CASE SortFails
      BY <2>4, <1>t, <1>o, IdleKnown DEF SortFails, ExitTorn, Quit
    <2> QED
      BY <1>7, <2>1, <2>2, <2>3, <2>4 DEF Sorting
  <1>8. CASE Crash
    BY <1>8, <1>t, <1>o, BoundsAssumption, IdleKnown DEF Crash, ExitTorn, Quit
  <1>9. CASE UNCHANGED vars
    BY <1>9, <1>t DEF vars, SlotsKnown
  <1> QED
    BY <1>1, <1>2, <1>3, <1>4, <1>5, <1>6, <1>7, <1>8, <1>9 DEF Next

(* Every reachable state has the types TypeOK states, whatever a killed    *)
(* process left in the files: slots are offsets or the mark of a deletion, *)
(* the descriptors stay within their limit (all of as1_os.c).              *)
THEOREM TypeCorrect == Spec => []TypeOK
  <1>1. TypeInv => TypeOK
    BY DEF TypeInv
  <1> QED
    BY <1>1, InitTypeInv, NextTypeInv, PTL DEF Spec

-----------------------------------------------------------------------------
(* The index header covers the slots in use.  A deletion clears the slot   *)
(* before it lowers the count and an input raises the count before it adds *)
(* the slot, which CountKnown carries from one write to the next.          *)

IInv == TypeInv /\ CountKnown /\ HeaderCoversLive

LEMMA InitIInv == Init => IInv
  <1> SUFFICES ASSUME Init PROVE IInv
    OBVIOUS
  <1>1. TypeInv
    BY InitTypeInv
  <1>2. Live = {}
    BY DEF Init, Live
  <1>3. Cardinality(Live) = 0
    BY <1>2, FS_EmptySet
  <1> QED
    BY <1>1, <1>3 DEF Init, IInv, CountKnown, HeaderCoversLive, Idle

LEMMA NextIInv == Build # "O0" /\ IInv /\ [Next]_vars => IInv'
  <1> SUFFICES ASSUME Build # "O0", IInv, [Next]_vars PROVE IInv'
    OBVIOUS
  <1>t. TypeInv /\ TypeInv'
    BY NextTypeInv DEF IInv
  <1>s. /\ slots \in Seq(Int) /\ hdr \in Int /\ op \in Ops /\ op.n \in Int
        /\ slots' \in Seq(Int) /\ hdr' \in Int
    BY <1>t DEF TypeInv, TypeOK, Ops
  <1>c. /\ Cardinality(Live) \in Nat /\ Cardinality(Live') \in Nat
        /\ Cardinality(Live') <= Len(slots')
    BY <1>s, InUseFinite DEF Live
  <1>k. CountKnown /\ HeaderCoversLive
    BY DEF IInv
  <1>n. SlotsKnown /\ SlotsKnown'
    BY <1>t DEF TypeInv
  <1>g. SUFFICES CountKnown' /\ HeaderCoversLive'
    BY <1>t DEF IInv
  <1>f. ASSUME UNCHANGED <<hdr, slots>>, op'.at \notin {"inIdx", "inSlot", "delIdx"}
        PROVE  CountKnown' /\ HeaderCoversLive'
    BY <1>f, <1>k DEF CountKnown, HeaderCoversLive, Live
  <1>e. ASSUME UNCHANGED <<hdr, slots>>, op' = Idle
        PROVE  CountKnown' /\ HeaderCoversLive'
    BY <1>e, <1>f DEF Idle
  <1>m. ASSUME NEW at \in Points, op' = [op EXCEPT !.at = at]
        PROVE  op'.at = at /\ op'.n = op.n
    BY <1>m, <1>s, OpMove
  <1>1. CASE OpenFails
    BY <1>1, <1>f DEF OpenFails, Menu
  <1>2. CASE Initialize
    <2>1. CASE InitTruncData
      BY <2>1, <1>e, <1>f, <1>m DEF InitTruncData, ExitTorn, Quit, Points
    <2>2. CASE InitTruncIdx
      BY <2>2, <1>m DEF InitTruncIdx, CountKnown, HeaderCoversLive, Points
    <2>3. CASE InitCount
      BY <2>3, <1>f, <1>m DEF InitCount, Points
    <2>4. CASE InitIndexHeader
      <3>1. Len(slots') = 0
        BY <2>4, <1>n DEF InitIndexHeader, SlotsKnown
      <3> QED
        BY <2>4, <3>1, <1>c DEF InitIndexHeader, CountKnown, HeaderCoversLive, Idle
    <2> QED
      BY <1>2, <2>1, <2>2, <2>3, <2>4 DEF Initialize
  <1>3. CASE Input
    <2>1. ASSUME NEW app, InputHeader(app)
          PROVE  CountKnown' /\ HeaderCoversLive'
      <3>1. CASE hdr = NoHdr
        BY <2>1, <3>1, <1>e DEF InputHeader, Exit, Quit
      <3>2. CASE hdr # NoHdr
        <4>1. op'.at = "inIdx" /\ op'.n = hdr + 1 /\ UNCHANGED <<hdr, slots>>
          BY <2>1, <3>2 DEF InputHeader, Idle
        <4> QED
          BY <4>1, <3>2, <1>k DEF CountKnown, HeaderCoversLive, Live
      <3> QED
        BY <3>1, <3>2
    <2>2. CASE Add \/ ModifyInput
      BY <2>1, <2>2 DEF Add, ModifyInput
    <2>3. CASE InputIndexHeader
      <3>1. op'.at = "inSlot" /\ hdr' = hdr + 1 /\ slots' = slots /\ hdr # NoHdr
        BY <2>3, <1>k, <1>m DEF InputIndexHeader, CountKnown, Points
      <3>2. Cardinality(Live) <= hdr
        BY <3>1, <1>k DEF HeaderCoversLive
      <3>3. Cardinality(Live') + 1 <= hdr'
        BY <3>1, <3>2, <1>s, <1>c DEF Live
      <3> QED
        BY <3>1, <3>3, <1>s, <1>c DEF CountKnown, HeaderCoversLive
    <2>4. CASE InputSlot
      <3>1. Len(data) \in Int
        BY <1>t DEF TypeInv, TypeOK
      <3>2. slots' = Append(slots, Len(data)) /\ hdr' = hdr
        BY <2>4 DEF InputSlot
      <3>3. Cardinality(Live') <= Cardinality(Live) + 1
        BY <3>1, <3>2, <1>s, LiveAppend
      <3>4. Cardinality(Live) + 1 <= hdr
        BY <2>4, <1>k DEF InputSlot, CountKnown
      <3> QED
        BY <2>4, <3>2, <3>3, <3>4, <1>s, <1>c, <1>m
          DEF InputSlot, CountKnown, HeaderCoversLive, Points
    <2>5. CASE InputRoll \/ InputNameLen
      BY <2>5, <1>f, <1>m DEF InputRoll, InputNameLen, Points
    <2>6. CASE InputName
      BY <2>6, <1>e DEF InputName
    <2> QED
      BY <1>3, <2>2, <2>3, <2>4, <2>5, <2>6 DEF Input
  <1>4. CASE Removal
    <2>1. ASSUME NEW app, DeleteSlot(app)
          PROVE  CountKnown' /\ HeaderCoversLive'
      <3>1. PICK r \in Rolls : \E k \in Found(r) : slots' = [slots EXCEPT ![k] = Deleted]
        BY <2>1 DEF DeleteSlot
      <3>2. PICK k \in Found(r) : slots' = [slots EXCEPT ![k] = Deleted]
        BY <3>1
      <3>3. k \in Live
        BY DEF Found, Scanned
      <3>4. Cardinality(Live') = Cardinality(Live) - 1
        BY <3>2, <3>3, <1>s, LiveDelete
      <3>5. op'.at = "delIdx" /\ op'.n = hdr - 1 /\ hdr' = hdr /\ hdr # NoHdr
        BY <2>1 DEF DeleteSlot, Idle
      <3> QED
        BY <3>4, <3>5, <1>k, <1>s, <1>c DEF CountKnown, HeaderCoversLive
    <2>2. CASE Delete \/ Modify
      BY <2>1, <2>2 DEF Delete, Modify
    <2>3. CASE DeleteIndexHeader
      <3>1. op'.at = "delData" /\ hdr' = op.n /\ slots' = slots /\ Cardinality(Live) <= op.n
        BY <2>3, <1>k, <1>m DEF DeleteIndexHeader, CountKnown, Points
      <3> QED
        BY <3>1 DEF CountKnown, HeaderCoversLive, Live
    <2>4. CASE DeleteCount
      BY <2>4, <1>e, <1>f, <1>m DEF DeleteCount, Points
    <2> QED
      BY <1>4, <2>2, <2>3, <2>4 DEF Removal
  <1>5. CASE Reading
    BY <1>5, <1>e, <1>f, <1>m DEF Reading, SearchHangs, ReadFails, PrintStudent, Exit, Quit, Menu, Points
  <1>6. CASE Compaction
    <2>1. ASSUME NEW sorts, CompactRead(sorts)
          PROVE  CountKnown' /\ HeaderCoversLive'
      <3>0. UNCHANGED <<hdr, slots>>
        BY <2>1 DEF CompactRead
      <3>1. PICK n \in CountRead : CompactOverruns(n) \/ CompactExits(n) \/ CompactBuffers(n, sorts)
        BY <2>1 DEF CompactRead
      <3>2. CASE CompactOverruns(n)
        BY <3>0, <3>2, <1>f, <1>m DEF CompactOverruns, Points
      <3>3. CASE CompactExits(n)
        BY <3>0, <3>3, <1>e DEF CompactExits, Exit, Quit
      <3>4. CASE CompactBuffers(n, sorts)
        <4>1. op'.at = "cIdx"
          BY <3>4 DEF CompactBuffers, Idle
        <4> QED
          BY <3>0, <4>1, <1>f
      <3> QED
        BY <3>1, <3>2, <3>3, <3>4
    <2>2. CASE Compact \/ Sort
      BY <2>1, <2>2 DEF Compact, Sort
    <2>3. CASE CompactTruncIdx
      BY <2>3, <1>m DEF CompactTruncIdx, CountKnown, HeaderCoversLive, Points
    <2>4. CASE CompactTruncData \/ CompactCount
      BY <2>4, <1>f, <1>m DEF CompactTruncData, CompactCount, Points
    <2>5. CASE CompactIndexHeader
      <3>1. op'.at = "cSlots" /\ hdr' = op.n /\ op.n >= 0 /\ Len(slots') = 0
        BY <2>5, <1>n, <1>m DEF CompactIndexHeader, SlotsKnown, Points
      <3> QED
        BY <3>1, <1>c, <1>s DEF CountKnown, HeaderCoversLive
    <2>6. CASE CompactSlots
      <3>1. CASE op' = Idle /\ UNCHANGED slots
        BY <2>6, <3>1, <1>e DEF CompactSlots
      <3>2. CASE op' = [op EXCEPT !.at = "cCount"]
        <4>1. op'.at = "cCount"
          BY <3>2, <1>m DEF Points
        <4> QED
          BY <4>1, <1>n, <1>c, <1>s DEF SlotsKnown, CountKnown, HeaderCoversLive
      <3> QED
        BY <2>6, <3>1, <3>2 DEF CompactSlots, ExitTorn, Quit
    <2>7. CASE CompactBody
      <3>1. op' = Idle \/ op'.at = "sort"
        BY <2>7 DEF CompactBody, Idle
      <3> QED
        BY <2>7, <3>1, <1>e, <1>f DEF CompactBody
    <2> QED
      BY <1>6, <2>2, <2>3, <2>4, <2>5, <2>6, <2>7 DEF Compaction
  <1>7. CASE Sorting
    <2>1. CASE SortStep \/ SortSwap
      <3>1. op'.at \in {"sort", "swap"}
        BY <2>1, <1>s DEF SortStep, SortSwap, Ops
      <3> QED
        BY <3>1, <1>n, <1>c, <1>s DEF SlotsKnown, CountKnown, HeaderCoversLive
    <2>2. CASE SortEnd
      BY <2>2, <1>e DEF SortEnd
    <2>3. CASE SortFails
      BY <2>3, <1>e DEF SortFails, ExitTorn, Quit
    <2> QED
      BY <1>7, <2>1, <2>2, <2>3 DEF Sorting
  <1>8. CASE Crash
    BY <1>8, <1>e DEF Crash, ExitTorn, Quit
  <1>9. CASE UNCHANGED vars
    BY <1>9, <1>k DEF vars, CountKnown, HeaderCoversLive, Live
  <1> QED
    BY <1>1, <1>2, <1>3, <1>4, <1>5, <1>6, <1>7, <1>8, <1>9 DEF Next

(* Where compaction() keeps its count, no kill at any write leaves more    *)
(* offsets in the index file than its header counts, so that search() and  *)
(* print_all() can reach every record (as1_os.c:678, 304).                 *)
THEOREM HeaderCovers == Build # "O0" => (Spec => []HeaderCoversLive)
  <1> SUFFICES ASSUME Build # "O0" PROVE Spec => []HeaderCoversLive
    OBVIOUS
  <1>1. IInv /\ [Next]_vars => IInv'
    BY NextIInv
  <1>2. IInv => HeaderCoversLive
    BY DEF IInv
  <1> QED
    BY <1>1, <1>2, InitIInv, PTL DEF Spec
-----------------------------------------------------------------------------
(* Without a kill the count of the index file is never above the slots in  *)
(* use either, and search() does not run past its end; compaction() has an *)
(* offset for every slot it writes.                                        *)

AllUsed == \A k \in DOMAIN slots : slots[k] # Deleted

AtMostLive ==
    /\ op.at \notin {"inSlot", "delIdx", "cSlots", "hang", "undefined"} => hdr <= Cardinality(Live)
    /\ op.at = "inIdx"  => op.n <= Cardinality(Live) + 1
    /\ op.at = "inSlot" => hdr <= Cardinality(Live) + 1
    /\ op.at = "delIdx" => op.n <= Cardinality(Live)
    /\ op.at \in {"cCount", "cBody", "sort", "swap"} => AllUsed
    /\ op.at = "swap" => op.off # Deleted
    /\ op.at \notin {"initData", "initHdr", "cData", "cHdr"} => hdr >= -1
    /\ op.at \in {"inIdx", "delIdx"} => op.n >= -1
    /\ op.at \in {"cIdx", "cData", "cHdr", "cSlots"} =>
          op.n >= -1 /\ RecordCells * op.n <= Len(op.body)
    /\ op.at # "hang"

HInv == TypeInv /\ (crashes = 0 => AtMostLive)

(* A slot that is not deleted adds one to the slots in use. *)
LEMMA LiveAppendOne ==
    ASSUME slots \in Seq(Int), NEW p \in Nat, slots' = Append(slots, p)
    PROVE  Cardinality(Live') = Cardinality(Live) + 1
  <1>1. IsFiniteSet(Live) /\ Len(slots) + 1 \notin Live
    BY LiveFinite DEF Live
  <1>2. Live' = Live \cup {Len(slots) + 1}
    BY DEF Live, Deleted
  <1> QED
    BY <1>1, <1>2, FS_AddElement

(* Slots that are all in use are as many as there are. *)
LEMMA AllUsedCount ==
    ASSUME NEW t \in Seq(Int), \A k \in DOMAIN t : t[k] # Deleted
    PROVE  Cardinality({k \in DOMAIN t : t[k] # Deleted}) = Len(t)
  <1> DEFINE used == {k \in DOMAIN t : t[k] # Deleted}
  <1>1. used = 1..Len(t) /\ Len(t) \in Nat
    BY LenProperties
  <1>2. Cardinality(1..Len(t)) = IF 1 > Len(t) THEN 0 ELSE Len(t) - 1 + 1
    BY <1>1, FS_Interval
  <1> HIDE DEF used
  <1>3. Cardinality(used) = Len(t)
    BY <1>1, <1>2
  <1> QED
    BY <1>3 DEF used

(* What sort() needs of a step: the offsets it writes are not deleted. *)
LEMMA SortKeepsUsed ==
    ASSUME TypeInv, AllUsed, op.at = "swap" => op.off # Deleted,
           SortStep \/ SortSwap
    PROVE  AllUsed' /\ (op'.at = "swap" => op'.off # Deleted)
  <1>t. slots \in Seq(Int) /\ op \in Ops /\ op.i \in Nat /\ op.n \in Int
    BY DEF TypeInv, TypeOK, Ops
  <1>1. CASE SortStep
    <2> DEFINE m == MinIndex(op.i, op.n)
    <2>1. op.n \in Nat /\ op.i <= op.n /\ 1 <= op.i /\ Len(slots) = op.n
      BY <1>1, <1>t DEF TypeInv, SortStep, SlotsKnown
    <2>2. m \in op.i..op.n
      BY <2>1, <1>t, MinIndexRange
    <2>3. m \in DOMAIN slots /\ op.i \in DOMAIN slots
      BY <2>1, <2>2, <1>t
    <2> HIDE DEF m
    <2>4. CASE m = op.i
      <3>1. op' = [op EXCEPT !.i = @ + 1] /\ slots' = slots
        BY <1>1, <2>4 DEF SortStep, m
      <3> QED
        BY <1>1, <3>1, <1>t DEF SortStep, Ops, AllUsed
    <2>5. CASE m # op.i
      <3>1. /\ slots' = [slots EXCEPT ![op.i] = slots[m]]
            /\ op' = [op EXCEPT !.at = "swap", !.j = m, !.off = slots[op.i]]
        BY <1>1, <2>5 DEF SortStep, m
      <3>2. AllUsed'
        BY <3>1, <2>3, <1>t DEF AllUsed
      <3>3. op'.off = slots[op.i]
        BY <3>1, <1>t DEF Ops
      <3> QED
        BY <3>2, <3>3, <2>3 DEF AllUsed
    <2> QED
      BY <2>4, <2>5
  <1>2. CASE SortSwap
    <2>1. slots' = [slots EXCEPT ![op.j] = op.off] /\ op.off # Deleted
      BY <1>2 DEF SortSwap
    <2>2. op'.at = "sort"
      BY <1>2, <1>t DEF SortSwap, Ops
    <2> QED
      BY <2>1, <2>2, <1>t DEF AllUsed
  <1> QED
    BY <1>1, <1>2

LEMMA CrashesGrow ==
    ASSUME TypeInv, [Next]_vars, crashes' = 0
    PROVE  crashes = 0
  <1>1. crashes \in Nat
    BY BoundsAssumption DEF TypeInv, TypeOK
  <1>2. crashes' \in {crashes, crashes + 1}
    BY DEF Next, vars, OpenFails, Initialize, InitTruncData, InitTruncIdx, InitCount,
           InitIndexHeader, Input, Add, ModifyInput, InputHeader, InputIndexHeader, InputSlot,
           InputRoll, InputNameLen, InputName, Removal, Delete, Modify, DeleteSlot,
           DeleteIndexHeader, DeleteCount, Reading, SearchHangs, ReadFails, PrintStudent,
           Compaction, Compact, Sort, CompactRead, CompactTruncIdx, CompactTruncData,
           CompactIndexHeader, CompactSlots, CompactCount, CompactBody, Sorting,
           SortStep, SortSwap, SortFails, SortEnd, Crash
  <1> QED
    BY <1>1, <1>2

LEMMA InitHInv == Init => HInv
  <1> SUFFICES ASSUME Init PROVE HInv
    OBVIOUS
  <1>1. TypeInv
    BY InitTypeInv
  <1>2. Cardinality(Live) \in Nat
    BY <1>1, LiveFinite DEF TypeInv, TypeOK
  <1> QED
    BY <1>1, <1>2 DEF Init, HInv, AtMostLive, Idle

LEMMA NextHInv == Build # "O2" /\ HInv /\ [Next]_vars => HInv'
  <1> SUFFICES ASSUME Build # "O2", HInv, [Next]_vars PROVE HInv'
    OBVIOUS
  <1>t. TypeInv /\ TypeInv'
    BY NextTypeInv DEF HInv
  <1>s. /\ slots \in Seq(Int) /\ hdr \in Int /\ op \in Ops /\ op.n \in Int
        /\ slots' \in Seq(Int) /\ hdr' \in Int
    BY <1>t DEF TypeInv, TypeOK, Ops
  <1>c. Cardinality(Live) \in Nat /\ Cardinality(Live') \in Nat
    BY <1>s, InUseFinite DEF Live
  <1>n. SlotsKnown /\ SlotsKnown'
    BY <1>t DEF TypeInv
  <1>g. SUFFICES ASSUME crashes' = 0 PROVE AtMostLive'
    BY <1>t DEF HInv
  <1>y. crashes = 0
    BY <1>t, <1>g, CrashesGrow
  <1>k. AtMostLive
    BY <1>y DEF HInv
  <1> DEFINE Plain == {"menu", "initIdx", "inRoll", "inLen", "inName", "delData", "input",
                       "undefined"}
             Steady == op.at \notin {"inSlot", "delIdx", "cSlots", "undefined",
                                     "initData", "initHdr", "cData", "cHdr"}
  <1>l. ASSUME slots' = slots PROVE Live' = Live
    BY <1>l DEF Live
  <1>f. ASSUME UNCHANGED <<hdr, slots>>, op'.at \in Plain, Steady
        PROVE  AtMostLive'
    BY <1>f, <1>k, <1>l DEF AtMostLive
  <1>e. ASSUME UNCHANGED <<hdr, slots>>, op' = Idle, Steady
        PROVE  AtMostLive'
    BY <1>e, <1>f DEF Idle
  <1>m. ASSUME NEW at \in Points, op' = [op EXCEPT !.at = at]
        PROVE  op'.at = at /\ op'.n = op.n /\ op'.body = op.body
    BY <1>m, <1>s, OpMove
  <1>1. CASE OpenFails
    BY <1>1, <1>f DEF OpenFails, Menu
  <1>2. CASE Initialize
    <2>1. CASE InitTruncData
      BY <2>1, <1>e, <1>f, <1>m DEF InitTruncData, ExitTorn, Quit, Points, Menu
    <2>2. CASE InitTruncIdx
      <3>1. hdr' = NoHdr /\ op'.at = "initData"
        BY <2>2, <1>m DEF InitTruncIdx, Points
      <3> QED
        BY <3>1, <1>c DEF AtMostLive, NoHdr
    <2>3. CASE InitCount
      <3>1. op'.at = "initHdr" /\ UNCHANGED <<hdr, slots>> /\ op.at = "initData"
        BY <2>3, <1>m DEF InitCount, Points
      <3> QED
        BY <3>1, <1>k, <1>l DEF AtMostLive
    <2>4. CASE InitIndexHeader
      BY <2>4, <1>c DEF InitIndexHeader, AtMostLive, Idle
    <2> QED
      BY <1>2, <2>1, <2>2, <2>3, <2>4 DEF Initialize
  <1>3. CASE Input
    <2>1. ASSUME NEW app, InputHeader(app), op.at \in {"menu", "input"}
          PROVE  AtMostLive'
      <3>1. CASE hdr = NoHdr
        BY <2>1, <3>1, <1>e DEF InputHeader, Exit, Quit
      <3>2. CASE hdr # NoHdr
        <4>1. op'.at = "inIdx" /\ op'.n = hdr + 1 /\ UNCHANGED <<hdr, slots>>
          BY <2>1, <3>2 DEF InputHeader, Idle
        <4>2. hdr <= Cardinality(Live) /\ hdr >= -1
          BY <2>1, <1>k DEF AtMostLive
        <4> QED
          BY <4>1, <4>2, <1>c, <1>s, <1>l DEF AtMostLive
      <3> QED
        BY <3>1, <3>2
    <2>2. CASE Add \/ ModifyInput
      BY <2>1, <2>2 DEF Add, ModifyInput, Menu
    <2>3. CASE InputIndexHeader
      <3>1. op'.at = "inSlot" /\ hdr' = op.n /\ slots' = slots
        BY <2>3, <1>m DEF InputIndexHeader, Points
      <3>2. op.n <= Cardinality(Live) + 1 /\ op.n >= -1
        BY <2>3, <1>k DEF InputIndexHeader, AtMostLive
      <3> QED
        BY <3>1, <3>2, <1>l DEF AtMostLive
    <2>4. CASE InputSlot
      <3>1. Len(data) \in Nat
        BY <1>t DEF TypeInv, TypeOK
      <3>2. slots' = Append(slots, Len(data)) /\ hdr' = hdr /\ op'.at = "inRoll"
        BY <2>4, <1>m DEF InputSlot, Points
      <3>3. Cardinality(Live') = Cardinality(Live) + 1
        BY <3>1, <3>2, <1>s, LiveAppendOne
      <3>4. hdr <= Cardinality(Live) + 1 /\ hdr >= -1
        BY <2>4, <1>k DEF InputSlot, AtMostLive
      <3> QED
        BY <3>2, <3>3, <3>4 DEF AtMostLive
    <2>5. CASE InputRoll \/ InputNameLen
      BY <2>5, <1>f, <1>m DEF InputRoll, InputNameLen, Points
    <2>6. CASE InputName
      BY <2>6, <1>e DEF InputName
    <2> QED
      BY <1>3, <2>2, <2>3, <2>4, <2>5, <2>6 DEF Input
  <1>4. CASE Removal
    <2>1. ASSUME NEW app, DeleteSlot(app)
          PROVE  AtMostLive'
      <3>1. PICK r \in Rolls : \E k \in Found(r) : slots' = [slots EXCEPT ![k] = Deleted]
        BY <2>1 DEF DeleteSlot
      <3>2. PICK k \in Found(r) : slots' = [slots EXCEPT ![k] = Deleted]
        BY <3>1
      <3>3. k \in Live
        BY DEF Found, Scanned
      <3>4. Cardinality(Live') = Cardinality(Live) - 1
        BY <3>2, <3>3, <1>s, LiveDelete
      <3>5. op'.at = "delIdx" /\ op'.n = hdr - 1 /\ hdr' = hdr
        BY <2>1 DEF DeleteSlot, Idle
      <3>6. hdr <= Cardinality(Live) /\ hdr >= -1
        BY <2>1, <1>k DEF DeleteSlot, Menu, AtMostLive
      <3>7. hdr >= 0
        <4>1. Cardinality({m \in Live : m < k}) < hdr
          BY DEF Found, Scanned
        <4>2. Cardinality({m \in Live : m < k}) \in Nat
          <5>1. {m \in Live : m < k} \subseteq Live /\ IsFiniteSet(Live)
            BY <1>s, LiveFinite
          <5> QED
            BY <5>1, FS_Subset, FS_CardinalityType
        <4> QED
          BY <4>1, <4>2, <1>s
      <3> QED
        BY <3>4, <3>5, <3>6, <3>7, <1>c, <1>s DEF AtMostLive
    <2>2. CASE Delete \/ Modify
      BY <2>1, <2>2 DEF Delete, Modify
    <2>3. CASE DeleteIndexHeader
      <3>1. op'.at = "delData" /\ hdr' = op.n /\ slots' = slots
        BY <2>3, <1>m DEF DeleteIndexHeader, Points
      <3>2. op.n <= Cardinality(Live) /\ op.n >= -1
        BY <2>3, <1>k DEF DeleteIndexHeader, AtMostLive
      <3> QED
        BY <3>1, <3>2, <1>l DEF AtMostLive
    <2>4. CASE DeleteCount
      BY <2>4, <1>e, <1>f, <1>m DEF DeleteCount, Points
    <2> QED
      BY <1>4, <2>2, <2>3, <2>4 DEF Removal
  <1>5. CASE Reading
    <2>1. ~SearchHangs
      BY <1>k, <1>s, <1>c DEF SearchHangs, Menu, RunsOn, AtMostLive
    <2> QED
      BY <1>5, <2>1, <1>e, <1>f DEF Reading, ReadFails, PrintStudent, Exit, Quit, Menu
  <1>6. CASE Compaction
    <2>1. ASSUME NEW sorts, CompactRead(sorts)
          PROVE  AtMostLive'
      <3>0. UNCHANGED <<hdr, slots>> /\ Menu
        BY <2>1 DEF CompactRead
      <3>1. PICK n \in CountRead : CompactOverruns(n) \/ CompactExits(n) \/ CompactBuffers(n, sorts)
        BY <2>1 DEF CompactRead
      <3>2. CASE CompactOverruns(n)
        BY <3>0, <3>2, <1>f, <1>m DEF CompactOverruns, Points, Menu
      <3>3. CASE CompactExits(n)
        BY <3>0, <3>3, <1>e DEF CompactExits, Exit, Quit, Menu
      <3>4. CASE CompactBuffers(n, sorts)
        <4>1. PICK left \in [Unread \ Lengths -> Leftovers] :
                op' = [Idle EXCEPT !.at = "cIdx", !.sorts = sorts, !.n = CountAfterReads(n),
                                   !.body = PackedBody(left), !.hole = LastDeleted,
                                   !.stray = StrayStore(n)]
          BY <3>4 DEF CompactBuffers
        <4>2. op'.at = "cIdx" /\ op'.n = CountAfterReads(n) /\ op'.body = PackedBody(left)
          BY <4>1 DEF Idle
        <4>3. Len(op'.body) = RecordCells * Cardinality(Live)
          BY <4>2, <1>t, PackedBodyType DEF TypeInv, TypeOK
        <4>4. hdr <= Cardinality(Live) /\ hdr >= -1
          BY <3>0, <1>k DEF AtMostLive, Menu
        <4>5. n = Cardinality(Live)
          <5>1. n = hdr
            BY <4>4, <1>s DEF CountRead, NoHdr
          <5> QED
            BY <5>1, <3>4, <4>4, <1>c, <1>s DEF CompactBuffers, FitsBuffers
        <4>6. op'.n \in Int /\ op'.n >= -1 /\ op'.n <= Cardinality(Live)
          BY <4>2, <4>5, <1>c DEF CountAfterReads
        <4>7. RecordCells * op'.n <= Len(op'.body)
          BY <4>3, <4>6, <1>c DEF RecordCells
        <4> QED
          BY <3>0, <4>2, <4>4, <4>6, <4>7, <1>l DEF AtMostLive
      <3> QED
        BY <3>1, <3>2, <3>3, <3>4
    <2>2. CASE Compact \/ Sort
      BY <2>1, <2>2 DEF Compact, Sort
    <2>3. CASE CompactTruncIdx
      <3>1. hdr' = NoHdr /\ op'.at = "cData" /\ op'.n = op.n /\ op'.body = op.body
        BY <2>3, <1>m DEF CompactTruncIdx, Points
      <3> QED
        BY <2>3, <3>1, <1>c, <1>k DEF CompactTruncIdx, AtMostLive, NoHdr
    <2>4. CASE CompactTruncData
      <3>1. op'.at = "cHdr" /\ op'.n = op.n /\ op'.body = op.body
        BY <2>4, <1>m DEF CompactTruncData, Points
      <3> QED
        BY <2>4, <3>1, <1>k, <1>l DEF CompactTruncData, AtMostLive
    <2>5. CASE CompactIndexHeader
      <3>1. op'.at = "cSlots" /\ op'.n = op.n /\ op'.body = op.body /\ hdr' = op.n
        BY <2>5, <1>m DEF CompactIndexHeader, Points
      <3> QED
        BY <2>5, <3>1, <1>k DEF CompactIndexHeader, AtMostLive
    <2>6. CASE CompactSlots
      <3>1. hdr' = hdr /\ hdr = op.n /\ op.n >= -1 /\ RecordCells * op.n <= Len(op.body)
        BY <2>6, <1>n, <1>k DEF CompactSlots, SlotsKnown, AtMostLive
      <3>2. CASE op.n < 0
        BY <2>6, <3>1, <3>2, <1>c, <1>s DEF CompactSlots, ExitTorn, Quit, Idle, AtMostLive
      <3>3. CASE ~(op.n < 0)
        <4>1. /\ op' = [op EXCEPT !.at = "cCount"]
              /\ \E left \in [(OffsetsStored + 1)..op.n -> Leftovers] :
                    slots' = [k \in 1..op.n |-> IF k <= OffsetsStored
                                                THEN RecordCells * (k - 1) + 1 ELSE left[k]]
          BY <2>6, <3>3 DEF CompactSlots
        <4>2. op'.at = "cCount" /\ op'.n = op.n
          BY <4>1, <1>m DEF Points
        <4>3. OffsetsStored \in Int /\ op.n <= OffsetsStored
          <5>1. op.body \in Seq(Cells)
            BY <1>s DEF Ops
          <5>2. Len(op.body) \in Nat
            BY <5>1, LenProperties
          <5> DEFINE L == Len(op.body)
                     h == IF op.hole THEN 1 ELSE 0
          <5>3. h \in {0, 1} /\ L \in Nat /\ 3 * op.n <= L
            BY <3>1, <5>2 DEF RecordCells
          <5>4. OffsetsStored = (L \div 3) + h
            BY DEF OffsetsStored, RecordCells
          <5> HIDE DEF L, h
          <5>5. L \div 3 \in Nat /\ op.n <= L \div 3
            BY <5>3, <1>s
          <5> QED
            BY <5>3, <5>4, <5>5, <1>s
        <4>4. ASSUME NEW k \in 1..op.n PROVE slots'[k] = RecordCells * (k - 1) + 1
          BY <4>1, <4>3, <1>s
        <4>5. Len(slots') = op.n
          BY <4>2, <1>n DEF SlotsKnown
        <4>6. AllUsed'
          BY <4>4, <4>5, <1>s DEF AllUsed, RecordCells, Deleted
        <4>7. Cardinality(Live') = Len(slots')
          BY <4>6, <1>s, AllUsedCount DEF Live, AllUsed
        <4> QED
          BY <3>1, <4>2, <4>5, <4>6, <4>7, <1>s DEF AtMostLive
      <3> QED
        BY <3>2, <3>3, <1>s
    <2>7. CASE CompactCount
      <3>1. op'.at = "cBody" /\ UNCHANGED <<hdr, slots>>
        BY <2>7, <1>m DEF CompactCount, Points
      <3> QED
        BY <2>7, <3>1, <1>k, <1>l DEF CompactCount, AtMostLive, AllUsed
    <2>8. CASE CompactBody
      <3>1. op'.at \in {"menu", "sort"} /\ UNCHANGED <<hdr, slots>>
        BY <2>8 DEF CompactBody, Idle
      <3> QED
        BY <2>8, <3>1, <1>k, <1>l DEF CompactBody, AtMostLive, AllUsed
    <2> QED
      BY <1>6, <2>2, <2>3, <2>4, <2>5, <2>6, <2>7, <2>8 DEF Compaction
  <1>7. CASE Sorting
    <2>1. CASE SortStep \/ SortSwap
      <3>1. op'.at \in {"sort", "swap"} /\ op.at \in {"sort", "swap"}
        BY <2>1, <1>s DEF SortStep, SortSwap, Ops
      <3>2. AllUsed' /\ (op'.at = "swap" => op'.off # Deleted)
        BY <2>1, <3>1, <1>t, <1>k, SortKeepsUsed DEF AtMostLive
      <3>3. Cardinality(Live') = Len(slots')
        BY <3>2, <1>s, AllUsedCount DEF Live, AllUsed
      <3>4. hdr' = Len(slots')
        BY <3>1, <1>n DEF SlotsKnown
      <3> QED
        BY <3>1, <3>2, <3>3, <3>4, <1>s, <1>c DEF AtMostLive
    <2>2. CASE SortEnd
      BY <2>2, <1>e DEF SortEnd
    <2>3. CASE SortFails
      BY <2>3, <1>e DEF SortFails, ExitTorn, Quit
    <2> QED
      BY <1>7, <2>1, <2>2, <2>3 DEF Sorting
  <1>8. CASE Crash
    BY <1>8, <1>g, <1>y DEF Crash
  <1>9. CASE UNCHANGED vars
    BY <1>9, <1>k DEF vars, AtMostLive, AllUsed, Live
  <1> QED
    BY <1>1, <1>2, <1>3, <1>4, <1>5, <1>6, <1>7, <1>8, <1>9 DEF Next

(* Where the address of the offsets survives compaction(), search() never  *)
(* runs for ever before the process has been killed, for any limit on      *)
(* descriptors: the count is at most the slots in use (as1_os.c:304).      *)
THEOREM HangAfterCrash == Build # "O2" => (Spec => []HangNeedsCrash)
  <1> SUFFICES ASSUME Build # "O2" PROVE Spec => []HangNeedsCrash
    OBVIOUS
  <1>1. HInv /\ [Next]_vars => HInv'
    BY NextHInv
  <1>2. HInv => HangNeedsCrash
    BY BoundsAssumption DEF HInv, TypeInv, TypeOK, AtMostLive, HangNeedsCrash
  <1> QED
    BY <1>1, <1>2, InitHInv, PTL DEF Spec
-----------------------------------------------------------------------------
(* Until an option ends half-way the files hold exactly what the options   *)
(* wrote.                                                                  *)
(* The facts about records are stated of any cells d and offsets s, to be  *)
(* used before and after a step.                                           *)

KindIn(d, p, kind) == p + 1 \in DOMAIN d /\ d[p + 1].kind = kind

RecordIn(d, p) == KindIn(d, p, "roll") /\ KindIn(d, p + 1, "len") /\ KindIn(d, p + 2, "name")

Sound(d, s) ==
    \A k \in DOMAIN s :
        s[k] # Deleted => /\ RecordIn(d, s[k])
                          /\ \A m \in DOMAIN s \ {k} : s[m] # Deleted => s[m] - s[k] \notin 0..2

(* The first c cells of a record at the end of d are written, and its      *)
(* offset is the last of s.                                                *)
Grows(d, s, c) ==
    /\ s # <<>> /\ s[Len(s)] = Len(d) - c
    /\ Sound(d, [s EXCEPT ![Len(s)] = Deleted])
    /\ c >= 1 => KindIn(d, s[Len(s)], "roll")
    /\ c >= 2 => KindIn(d, s[Len(s)] + 1, "len")

Starts(d, v) == d # <<>> /\ d[1] = Count(v)

(* n records one behind the other, and where they start in the data file.  *)
Packed(b, n) ==
    /\ n \in Nat /\ b \in Seq(Cells) /\ Len(b) = 3 * n
    /\ \A j \in 1..n : /\ b[3 * j - 2].kind = "roll"
                       /\ b[3 * j - 1].kind = "len"
                       /\ b[3 * j].kind = "name"

Offsets(n) == [k \in 1..n |-> RecordCells * (k - 1) + 1]

LEMMA SoundGrows ==
    ASSUME NEW d \in Seq(Cells), NEW c \in Cells, NEW s \in Seq(Int), Sound(d, s)
    PROVE  Sound(Append(d, c), s)
  <1>1. \A p : p + 1 \in DOMAIN d => p + 1 \in DOMAIN Append(d, c) /\ Append(d, c)[p + 1] = d[p + 1]
    OBVIOUS
  <1>2. \A p : RecordIn(d, p) => RecordIn(Append(d, c), p)
    <2> SUFFICES ASSUME NEW p, RecordIn(d, p) PROVE RecordIn(Append(d, c), p)
      OBVIOUS
    <2>1. \A kind : /\ KindIn(d, p, kind) => KindIn(Append(d, c), p, kind)
                    /\ KindIn(d, p + 1, kind) => KindIn(Append(d, c), p + 1, kind)
                    /\ KindIn(d, p + 2, kind) => KindIn(Append(d, c), p + 2, kind)
      BY <1>1 DEF KindIn
    <2> QED
      BY <2>1 DEF RecordIn
  <1> QED
    BY <1>2 DEF Sound

LEMMA SoundCount ==
    ASSUME NEW d \in Seq(Cells), NEW u, NEW v, Starts(d, u),
           NEW s \in Seq(Int), Sound(d, s)
    PROVE  Sound([d EXCEPT ![1] = Count(v)], s) /\ Starts([d EXCEPT ![1] = Count(v)], v)
  <1> DEFINE d2 == [d EXCEPT ![1] = Count(v)]
  <1>1. 1 \in DOMAIN d /\ d[1].kind = "count"
    BY EmptySeq, LenProperties DEF Starts, Count
  <1>2. DOMAIN d2 = DOMAIN d /\ d2[1] = Count(v) /\ \A i \in DOMAIN d \ {1} : d2[i] = d[i]
    BY <1>1
  <1>3. \A p, kind : KindIn(d, p, kind) /\ kind # "count" => KindIn(d2, p, kind)
    BY <1>1, <1>2 DEF KindIn
  <1>4. d2 # <<>>
    BY <1>1, <1>2
  <1> HIDE DEF d2
  <1>5. \A p : RecordIn(d, p) => RecordIn(d2, p)
    BY <1>3 DEF RecordIn
  <1>6. Sound(d2, s)
    BY <1>5 DEF Sound
  <1> QED
    BY <1>2, <1>4, <1>6 DEF d2, Starts

LEMMA SoundDelete ==
    ASSUME NEW d, NEW s \in Seq(Int), NEW k, Sound(d, s)
    PROVE  Sound(d, [s EXCEPT ![k] = Deleted])
  BY DEF Sound

LEMMA SoundSwap ==
    ASSUME NEW d, NEW s \in Seq(Int), NEW i \in DOMAIN s, NEW m \in DOMAIN s, i # m,
           Sound(d, s)
    PROVE  Sound(d, [[s EXCEPT ![i] = s[m]] EXCEPT ![m] = s[i]])
  <1> DEFINE s2 == [[s EXCEPT ![i] = s[m]] EXCEPT ![m] = s[i]]
             pi == [k \in DOMAIN s |-> IF k = i THEN m ELSE IF k = m THEN i ELSE k]
  <1>1. DOMAIN s2 = DOMAIN s /\ \A k \in DOMAIN s : pi[k] \in DOMAIN s /\ s2[k] = s[pi[k]]
    OBVIOUS
  <1>2. \A k, l \in DOMAIN s : k # l => pi[k] # pi[l]
    OBVIOUS
  <1> HIDE DEF s2, pi
  <1>3. Sound(d, s2)
    <2> SUFFICES ASSUME NEW k \in DOMAIN s, s2[k] # Deleted
                 PROVE  /\ RecordIn(d, s2[k])
                        /\ \A l \in DOMAIN s \ {k} : s2[l] # Deleted => s2[l] - s2[k] \notin 0..2
      BY <1>1 DEF Sound
    <2>1. pi[k] \in DOMAIN s /\ s2[k] = s[pi[k]]
      BY <1>1
    <2>2. \A l \in DOMAIN s \ {k} : pi[l] \in DOMAIN s \ {pi[k]} /\ s2[l] = s[pi[l]]
      BY <1>1, <1>2
    <2> QED
      BY <2>1, <2>2 DEF Sound
  <1> QED
    BY <1>3 DEF s2

(* The last cell of a record makes it one of the sound ones. *)
LEMMA SoundAdd ==
    ASSUME NEW d \in Seq(Cells), NEW s \in Seq(Int), NEW v \in Int, Grows(d, s, 2)
    PROVE  Sound(Append(d, Name(v)), s)
  <1> DEFINE d2 == Append(d, Name(v))
             n  == Len(s)
             p  == s[n]
             t  == [s EXCEPT ![n] = Deleted]
  <1>1. n \in DOMAIN s /\ p \in Int /\ Len(d) \in Nat
    BY EmptySeq, LenProperties DEF Grows
  <1>2. p = Len(d) - 2 /\ KindIn(d, p, "roll") /\ KindIn(d, p + 1, "len") /\ Sound(d, t)
    BY DEF Grows
  <1>3. Name(v) \in Cells /\ t \in Seq(Int)
    BY <1>1 DEF Name, Cells, Deleted
  <1>4. Sound(d2, t)
    BY <1>2, <1>3, SoundGrows
  <1>5. RecordIn(d2, p)
    <2>1. p + 1 \in DOMAIN d /\ p \in Int
      BY <1>1, <1>2 DEF KindIn
    <2>2. d2[Len(d) + 1] = Name(v) /\ DOMAIN d2 = 1..(Len(d) + 1) /\ DOMAIN d = 1..Len(d)
          /\ \A i \in DOMAIN d : d2[i] = d[i]
      BY <1>3
    <2> HIDE DEF d2, p
    <2>3. p + 2 + 1 = Len(d) + 1 /\ p + 1 + 1 \in DOMAIN d
      BY <1>1, <1>2, <2>1, <2>2 DEF KindIn
    <2>4. KindIn(d2, p, "roll") /\ KindIn(d2, p + 1, "len")
      BY <1>2, <2>1, <2>2, <2>3 DEF KindIn
    <2>5. KindIn(d2, p + 2, "name")
      BY <1>1, <2>2, <2>3 DEF KindIn, Name
    <2> QED
      BY <2>4, <2>5 DEF RecordIn
  <1>6. ASSUME NEW k \in DOMAIN s \ {n}, s[k] # Deleted
        PROVE  s[k] \in Nat /\ s[k] + 3 <= p
    <2>1. t[k] = s[k] /\ k \in DOMAIN t
      BY <1>1
    <2>2. RecordIn(d, s[k]) /\ s[k] \in Nat
      <3>1. RecordIn(d, s[k]) /\ s[k] \in Int
        BY <1>2, <1>6, <2>1 DEF Sound
      <3>2. s[k] + 1 \in 1..Len(d)
        BY <3>1 DEF RecordIn, KindIn
      <3> QED
        BY <3>1, <3>2, <1>1
    <2>3. s[k] + 2 + 1 <= Len(d)
      BY <2>2 DEF RecordIn, KindIn
    <2>4. p \in Int /\ p + 1 \in DOMAIN d /\ d[p + 1].kind = "roll"
      BY <1>1, <1>2 DEF KindIn
    <2> HIDE DEF p
    <2>5. /\ s[k] + 1 + 1 \in DOMAIN d /\ d[s[k] + 1 + 1].kind = "len"
          /\ s[k] + 2 + 1 \in DOMAIN d /\ d[s[k] + 2 + 1].kind = "name"
      BY <2>2 DEF RecordIn, KindIn
    <2>6. s[k] + 1 + 1 # p + 1 /\ s[k] + 2 + 1 # p + 1
      BY <2>4, <2>5
    <2> DEFINE q == s[k]
    <2>7. q \in Nat /\ q + 2 + 1 <= Len(d) /\ q + 1 + 1 # p + 1 /\ q + 2 + 1 # p + 1
      BY <2>2, <2>3, <2>6
    <2>8. p = Len(d) - 2
      BY <1>2 DEF p
    <2> HIDE DEF q
    <2>9. q \in Nat /\ q + 3 <= p
      BY <1>1, <2>4, <2>7, <2>8
    <2> QED
      BY <2>9 DEF q
  <1>7. \A k \in DOMAIN s \ {n} : t[k] = s[k] /\ k \in DOMAIN t
    BY <1>1
  <1>8. p \in Nat /\ p + 2 = Len(d)
    BY <1>1, <1>2, <1>5 DEF Deleted, RecordIn, KindIn
  <1> HIDE DEF d2, n, p, t
  <1>9. Sound(d2, s)
    <2> SUFFICES ASSUME NEW k \in DOMAIN s, s[k] # Deleted
                 PROVE  /\ RecordIn(d2, s[k])
                        /\ \A m \in DOMAIN s \ {k} : s[m] # Deleted => s[m] - s[k] \notin 0..2
      BY DEF Sound
    <2>1. CASE k = n
      <3>1. s[k] = p
        BY <2>1 DEF p
      <3>2. \A m \in DOMAIN s \ {k} : s[m] # Deleted => s[m] - p \notin 0..2
        BY <1>6, <1>8, <2>1, <1>1
      <3> QED
        BY <1>5, <3>1, <3>2
    <2>2. CASE k # n
      <3>1. RecordIn(d2, s[k])
        BY <1>4, <1>7, <2>2 DEF Sound
      <3>2. \A m \in DOMAIN s \ {k} : m # n /\ s[m] # Deleted => s[m] - s[k] \notin 0..2
        BY <1>4, <1>7, <2>2 DEF Sound
      <3>3. p - s[k] \notin 0..2
        BY <1>6, <1>8, <2>2, <1>1
      <3> QED
        BY <3>1, <3>2, <3>3 DEF p, n
    <2> QED
      BY <2>1, <2>2
  <1> QED
    BY <1>9 DEF d2

(* Cells of a record after the roll number and the length. *)
LEMMA GrowsOn ==
    ASSUME NEW d \in Seq(Cells), NEW s \in Seq(Int), NEW x \in Cells, NEW c \in {0, 1},
           Grows(d, s, c), x.kind = IF c = 0 THEN "roll" ELSE "len"
    PROVE  Grows(Append(d, x), s, c + 1)
  <1> DEFINE d2 == Append(d, x)
             p  == s[Len(s)]
             t  == [s EXCEPT ![Len(s)] = Deleted]
  <1>1. Len(s) \in DOMAIN s /\ p \in Int /\ Len(d) \in Nat
    BY EmptySeq, LenProperties DEF Grows
  <1>2. s # <<>> /\ p = Len(d) - c /\ Sound(d, t) /\ (c >= 1 => KindIn(d, p, "roll"))
    BY DEF Grows
  <1>3. t \in Seq(Int)
    BY <1>1 DEF Deleted
  <1>4. Sound(d2, t)
    BY <1>2, <1>3, SoundGrows
  <1>5. /\ Len(d2) = Len(d) + 1 /\ d2[Len(d) + 1] = x
        /\ DOMAIN d2 = 1..(Len(d) + 1) /\ DOMAIN d = 1..Len(d)
        /\ \A i \in DOMAIN d : d2[i] = d[i]
    OBVIOUS
  <1> HIDE DEF d2, p, t
  <1>6. CASE c = 0
    <2>1. p = Len(d2) - 1 /\ KindIn(d2, p, "roll")
      BY <1>1, <1>2, <1>5, <1>6 DEF KindIn
    <2> QED
      BY <1>2, <1>4, <1>6, <2>1 DEF Grows, p, t, d2
  <1>7. CASE c = 1
    <2>1. p = Len(d2) - 2 /\ KindIn(d2, p, "roll") /\ KindIn(d2, p + 1, "len")
      BY <1>1, <1>2, <1>5, <1>7 DEF KindIn
    <2> QED
      BY <1>2, <1>4, <1>7, <2>1 DEF Grows, p, t, d2
  <1> QED
    BY <1>6, <1>7

(* Behind a count the packed records lie where their offsets say, and no   *)
(* other cell starts a record.                                             *)
LEMMA PackedRecords ==
    ASSUME NEW b, NEW n, Packed(b, n), NEW v \in Int
    PROVE  /\ Len(<<Count(v)>> \o b) = 3 * n + 1
           /\ \A k \in 1..n : RecordIn(<<Count(v)>> \o b, 3 * k - 2)
           /\ \A p \in Int : KindIn(<<Count(v)>> \o b, p, "roll") => \E k \in 1..n : p = 3 * k - 2
  <1> DEFINE d == <<Count(v)>> \o b
  <1>1. n \in Nat /\ b \in Seq(Cells) /\ Len(b) = 3 * n
    BY DEF Packed
  <1>2. /\ Len(d) = 3 * n + 1 /\ DOMAIN d = 1..(3 * n + 1) /\ d[1] = Count(v)
        /\ \A i \in 1..(3 * n) : d[i + 1] = b[i]
    BY <1>1 DEF Count, Cells
  <1> HIDE DEF d
  <1>4. ASSUME NEW k \in 1..n PROVE RecordIn(d, 3 * k - 2)
    <2>1. /\ 3 * k - 2 \in 1..(3 * n) /\ 3 * k - 1 \in 1..(3 * n) /\ 3 * k \in 1..(3 * n)
          /\ 3 * k - 2 + 1 + 1 = 3 * k - 1 + 1 /\ 3 * k - 2 + 2 + 1 = 3 * k + 1
      BY <1>1, <1>4
    <2>2. /\ 3 * k - 2 + 1 \in DOMAIN d /\ 3 * k - 1 + 1 \in DOMAIN d /\ 3 * k + 1 \in DOMAIN d
      <3>1. \A i \in 1..(3 * n) : i + 1 \in DOMAIN d
        BY <1>1, <1>2
      <3> QED
        BY <2>1, <3>1
    <2>3. /\ d[3 * k - 2 + 1].kind = "roll" /\ d[3 * k - 1 + 1].kind = "len"
          /\ d[3 * k + 1].kind = "name"
      BY <1>2, <2>1, <1>4 DEF Packed
    <2> QED
      BY <2>1, <2>2, <2>3 DEF RecordIn, KindIn
  <1>5. ASSUME NEW p \in Int, KindIn(d, p, "roll")
        PROVE  \E k \in 1..n : p = 3 * k - 2
    <2>1. p + 1 \in 1..(3 * n + 1) /\ d[p + 1].kind = "roll"
      BY <1>2, <1>5 DEF KindIn
    <2>2. p # 0
      <3>1. d[1].kind = "count"
        BY <1>2 DEF Count
      <3> QED
        BY <2>1, <3>1
    <2>3. p \in 1..(3 * n) /\ b[p].kind = "roll"
      BY <1>1, <1>2, <2>1, <2>2
    <2>4. \E j \in 1..n : p \in {3 * j - 2, 3 * j - 1, 3 * j}
      <3> DEFINE j == ((p - 1) \div 3) + 1
      <3>1. j \in 1..n /\ p \in {3 * j - 2, 3 * j - 1, 3 * j}
        BY <1>1, <2>3
      <3> QED
        BY <3>1
    <2>5. PICK j \in 1..n : p \in {3 * j - 2, 3 * j - 1, 3 * j}
      BY <2>4
    <2>6. b[3 * j - 1].kind = "len" /\ b[3 * j].kind = "name"
      BY <2>5 DEF Packed
    <2> QED
      BY <2>3, <2>5, <2>6
  <1> QED
    BY <1>2, <1>4, <1>5 DEF d

(* The records compaction() writes lie where it says. *)
LEMMA SoundPacked ==
    ASSUME NEW b, NEW n, Packed(b, n)
    PROVE  Sound(<<Count(n)>> \o b, Offsets(n))
  <1> DEFINE d == <<Count(n)>> \o b
             s == Offsets(n)
  <1>1. n \in Nat /\ n \in Int
    BY DEF Packed
  <1>2. \A k \in 1..n : RecordIn(d, 3 * k - 2)
    BY <1>1, PackedRecords
  <1>3. DOMAIN s = 1..n /\ \A k \in 1..n : s[k] = 3 * k - 2
    BY <1>1 DEF Offsets, RecordCells
  <1> HIDE DEF d, s
  <1>5. \A k, m \in 1..n : k # m => (3 * m - 2) - (3 * k - 2) \notin 0..2
    BY <1>1
  <1>6. Sound(d, s)
    BY <1>2, <1>3, <1>5 DEF Sound
  <1> QED
    BY <1>6 DEF d, s

LEMMA LeastNatural ==
    ASSUME NEW S, S \subseteq Nat, S # {}
    PROVE  \E m \in S : \A k \in S : m <= k
  <1> DEFINE R == OpToRel(<, Nat)
  <1>1. IsWellFoundedOn(R, Nat)
    BY NatLessThanWellFounded, Zenon
  <1>2. \A x, y \in Nat : y < x => <<y, x>> \in R
    BY DEF OpToRel
  <1> HIDE DEF R
  <1>3. PICK m \in S : \A k \in S : <<k, m>> \notin R
    BY <1>1, WFMin
  <1>4. \A k \in S : ~(k < m)
    BY <1>2, <1>3
  <1>5. ASSUME NEW k \in S PROVE m <= k
    <2>1. k \in Nat /\ m \in Nat /\ ~(k < m)
      BY <1>4
    <2> QED
      BY <2>1
  <1> QED
    BY <1>5

Below(set, k) == {m \in set : m < k}

LEMMA BelowStep ==
    ASSUME NEW N \in Nat, NEW set \in SUBSET (1..N)
    PROVE  /\ Below(set, 1) = {} /\ Below(set, N + 1) = set
           /\ \A k \in Nat : /\ k \notin set => Below(set, k + 1) = Below(set, k)
                             /\ k \in set => Below(set, k + 1) = Below(set, k) \cup {k}
  <1>1. \A m \in set : ~(m < 1) /\ m < N + 1
    OBVIOUS
  <1>2. ASSUME NEW k \in Nat
        PROVE  /\ k \notin set => Below(set, k + 1) = Below(set, k)
               /\ k \in set => Below(set, k + 1) = Below(set, k) \cup {k}
    <2>1. \A m \in set : m < k + 1 <=> m < k \/ m = k
      OBVIOUS
    <2>2. ~(k < k) /\ k < k + 1
      OBVIOUS
    <2> QED
      BY <2>1, <2>2, Zenon DEF Below
  <1> QED
    BY <1>1, <1>2 DEF Below

LEMMA BelowFinite ==
    ASSUME NEW N \in Nat, NEW set \in SUBSET (1..N)
    PROVE  /\ IsFiniteSet(set) /\ Cardinality(set) \in Nat
           /\ \A k : IsFiniteSet(Below(set, k)) /\ Cardinality(Below(set, k)) \in Nat
  <1>1. IsFiniteSet(set)
    <2>1. IsFiniteSet(1..N)
      BY FS_Interval
    <2> QED
      BY <2>1, FS_Subset
  <1>2. \A k : Below(set, k) \subseteq set
    BY DEF Below
  <1> QED
    BY <1>1, <1>2, FS_Subset, FS_CardinalityType

LEMMA NthIn ==
    ASSUME NEW N \in Nat, NEW set \in SUBSET (1..N), NEW j \in 1..Cardinality(set)
    PROVE  Nth(set, j) \in set /\ Cardinality(Below(set, Nth(set, j))) = j - 1
  <1> DEFINE C(k) == Cardinality(Below(set, k))
             S == {k \in 1..(N + 1) : C(k) >= j}
  <1>1. Cardinality(set) \in Nat /\ IsFiniteSet(set)
    BY BelowFinite
  <1>2. ASSUME NEW k PROVE IsFiniteSet(Below(set, k)) /\ C(k) \in Nat
    BY BelowFinite
  <1>3. N + 1 \in S
    BY <1>1, BelowStep
  <1>4. S \subseteq Nat
    OBVIOUS
  <1>5. PICK k \in S : \A l \in S : k <= l
    <2> HIDE DEF S
    <2> QED
      BY <1>3, <1>4, LeastNatural
  <1>6. k \in 1..(N + 1) /\ C(k) >= j
    BY <1>5
  <1>7. k # 1
    <2>1. C(1) = 0
      BY BelowStep, FS_EmptySet
    <2> QED
      BY <1>1, <1>6, <2>1
  <1>8. PICK l \in Nat : k = l + 1 /\ l \in 1..(N + 1)
    <2>1. k - 1 \in Nat /\ k = (k - 1) + 1 /\ k - 1 \in 1..(N + 1)
      BY <1>6, <1>7
    <2> QED
      BY <2>1
  <1>9. ~(C(l) >= j)
    <2>1. l \notin S
      <3> HIDE DEF S
      <3> QED
        BY <1>5, <1>8
    <2> QED
      BY <1>8, <2>1
  <1>10. l \in set
    <2>1. l \notin set => C(k) = C(l)
      BY <1>8, BelowStep
    <2> QED
      BY <1>6, <1>9, <2>1
  <1>11. C(k) = C(l) + 1
    <2>1. Below(set, k) = Below(set, l) \cup {l}
      BY <1>8, <1>10, BelowStep
    <2>2. l \notin Below(set, l)
      BY <1>8 DEF Below
    <2> QED
      BY <1>2, <2>1, <2>2, FS_AddElement
  <1>12. C(l) = j - 1
    <2>1. C(l) \in Nat /\ C(k) \in Nat
      BY <1>2
    <2> HIDE DEF C
    <2> QED
      BY <1>1, <1>6, <1>9, <1>11, <2>1
  <1>13. \E q \in set : Cardinality({m \in set : m < q}) = j - 1
    BY <1>10, <1>12 DEF Below
  <1> QED
    BY <1>13 DEF Nth, Below

(* Where the three cells of record j of the body were read. *)
LEMMA SourceAt ==
    ASSUME slots \in Seq(Int), NEW j \in 1..Cardinality(Live)
    PROVE  /\ Nth(Live, j) \in Live /\ slots[Nth(Live, j)] \in Int
           /\ 3 * j - 2 \in BodyCells /\ 3 * j - 1 \in BodyCells /\ 3 * j \in BodyCells
           /\ Source(3 * j - 2) = slots[Nth(Live, j)] + 1
           /\ Source(3 * j - 1) = slots[Nth(Live, j)] + 2
           /\ Source(3 * j) = slots[Nth(Live, j)] + 3
  <1> DEFINE p == slots[Nth(Live, j)]
             N == Cardinality(Live)
  <1>0. N \in Nat
    BY LiveFinite
  <1>1. Nth(Live, j) \in Live
    <2>1. Len(slots) \in Nat /\ Live \in SUBSET (1..Len(slots))
      BY LenProperties DEF Live
    <2> HIDE DEF Live
    <2> QED
      BY <2>1, NthIn
  <1>2. p \in Int
    BY <1>1 DEF Live
  <1>3. /\ 3 * j - 2 \in 1..(3 * N) /\ 3 * j - 1 \in 1..(3 * N) /\ 3 * j \in 1..(3 * N)
    <2> HIDE DEF N
    <2> QED
      BY <1>0 DEF N
  <1>4. /\ ((3 * j - 2) - 1) \div 3 = j - 1 /\ ((3 * j - 2) - 1) % 3 = 0
        /\ ((3 * j - 1) - 1) \div 3 = j - 1 /\ ((3 * j - 1) - 1) % 3 = 1
        /\ ((3 * j) - 1) \div 3 = j - 1 /\ ((3 * j) - 1) % 3 = 2
        /\ (j - 1) + 1 = j
    <2>1. j \in Nat /\ j >= 1
      BY <1>0
    <2> QED
      BY <2>1
  <1>5. /\ Source(3 * j - 2) = p + 0 + 1
        /\ Source(3 * j - 1) = p + 1 + 1
        /\ Source(3 * j) = p + 2 + 1
    BY <1>4 DEF Source, RecordCells
  <1> HIDE DEF p
  <1>6. p + 0 + 1 = p + 1 /\ p + 1 + 1 = p + 2 /\ p + 2 + 1 = p + 3
    BY <1>2
  <1> QED
    BY <1>1, <1>2, <1>3, <1>5, <1>6 DEF p, BodyCells, RecordCells

(* Whatever is read where a record lies or the file ends, the body is a    *)
(* sequence of records.                                                    *)
LEMMA PackedBodyPacked ==
    ASSUME slots \in Seq(Int), data \in Seq(Cells), \A k \in Live : RecordAt(slots[k]),
           NEW left \in [Unread \ Lengths -> Leftovers]
    PROVE  Packed(PackedBody(left), Cardinality(Live))
  <1> DEFINE b == PackedBody(left)
             N == Cardinality(Live)
  <1>1. N \in Nat /\ b \in Seq(Cells) /\ Len(b) = 3 * N
    BY LiveFinite, PackedBodyType DEF RecordCells
  <1>2. \A c \in BodyCells : b[c] = IF c \in Unread THEN UnreadCell(c, left) ELSE data[Source(c)]
    BY DEF PackedBody
  <1>3. \A c \in BodyCells : c \notin Unread => Source(c) \in DOMAIN data
    BY DEF Unread
  <1>4. ASSUME NEW j \in 1..N
        PROVE  /\ b[3 * j - 2].kind = "roll"
               /\ b[3 * j - 1].kind = "len"
               /\ b[3 * j].kind = "name"
    <2> DEFINE p == slots[Nth(Live, j)]
    <2>1. /\ Nth(Live, j) \in Live /\ p \in Int
          /\ 3 * j - 2 \in BodyCells /\ 3 * j - 1 \in BodyCells /\ 3 * j \in BodyCells
          /\ Source(3 * j - 2) = p + 1 /\ Source(3 * j - 1) = p + 2 /\ Source(3 * j) = p + 3
      BY SourceAt
    <2>2. \A c \in 1..3 : p + c \in DOMAIN data => data[p + c].kind = <<"roll", "len", "name">>[c]
      BY <2>1 DEF RecordAt, RecordCells
    <2>3. (3 * j - 2) % 3 = 1 /\ (3 * j - 1) % 3 = 2 /\ (3 * j) % 3 = 0
      <3>1. j \in Nat /\ j >= 1
        BY <1>1
      <3> QED
        BY <3>1
    <2> HIDE DEF b, p
    <2>4. b[3 * j - 2].kind = "roll"
      <3>1. CASE 3 * j - 2 \in Unread
        <4>1. b[3 * j - 2] = Roll(left[3 * j - 2])
          BY <1>2, <2>1, <2>3, <3>1 DEF UnreadCell, RecordCells
        <4> QED
          BY <4>1 DEF Roll
      <3>2. CASE 3 * j - 2 \notin Unread
        <4>1. b[3 * j - 2] = data[p + 1] /\ p + 1 \in DOMAIN data
          BY <1>2, <1>3, <2>1, <3>2
        <4> QED
          BY <4>1, <2>2
      <3> QED
        BY <3>1, <3>2
    <2>5. b[3 * j - 1].kind = "len"
      <3>1. CASE 3 * j - 1 \in Unread
        <4>1. b[3 * j - 1] = NameLen
          BY <1>2, <2>1, <2>3, <3>1 DEF UnreadCell, RecordCells
        <4> QED
          BY <4>1 DEF NameLen
      <3>2. CASE 3 * j - 1 \notin Unread
        <4>1. b[3 * j - 1] = data[p + 2] /\ p + 2 \in DOMAIN data
          BY <1>2, <1>3, <2>1, <3>2
        <4> QED
          BY <4>1, <2>2
      <3> QED
        BY <3>1, <3>2
    <2>6. b[3 * j].kind = "name"
      <3>1. CASE 3 * j \in Unread
        <4>1. b[3 * j] = Name(left[3 * j])
          BY <1>2, <2>1, <2>3, <3>1 DEF UnreadCell, RecordCells
        <4> QED
          BY <4>1 DEF Name
      <3>2. CASE 3 * j \notin Unread
        <4>1. b[3 * j] = data[p + 3] /\ p + 3 \in DOMAIN data
          BY <1>2, <1>3, <2>1, <3>2
        <4> QED
          BY <4>1, <2>2
      <3> QED
        BY <3>1, <3>2
    <2> QED
      BY <2>4, <2>5, <2>6
  <1> HIDE DEF b, N
  <1>5. Packed(b, N)
    BY <1>1, <1>4 DEF Packed
  <1> QED
    BY <1>5 DEF b, N

(* Where every offset is that of a record, everything is read. *)
LEMMA RecordsRead ==
    ASSUME slots \in Seq(Int), \A k \in Live : RecordIn(data, slots[k])
    PROVE  Unread = {} /\ \A k \in Live : RecordAt(slots[k]) /\ slots[k] >= 0
  <1>1. ASSUME NEW k \in Live
        PROVE  /\ slots[k] + 1 \in DOMAIN data /\ data[slots[k] + 1].kind = "roll"
               /\ slots[k] + 2 \in DOMAIN data /\ data[slots[k] + 2].kind = "len"
               /\ slots[k] + 3 \in DOMAIN data /\ data[slots[k] + 3].kind = "name"
    <2> DEFINE p == slots[k]
    <2>1. p \in Int /\ RecordIn(data, p)
      BY DEF Live
    <2> HIDE DEF p
    <2>2. p + 1 + 1 = p + 2 /\ p + 2 + 1 = p + 3
      BY <2>1
    <2>3. /\ p + 1 \in DOMAIN data /\ data[p + 1].kind = "roll"
          /\ p + 2 \in DOMAIN data /\ data[p + 2].kind = "len"
          /\ p + 3 \in DOMAIN data /\ data[p + 3].kind = "name"
      BY <2>1, <2>2 DEF RecordIn, KindIn
    <2> QED
      BY <2>3 DEF p
  <1>2. ASSUME NEW c \in BodyCells PROVE Source(c) \in DOMAIN data
    <2>1. Cardinality(Live) \in Nat
      BY LiveFinite
    <2> DEFINE j == ((c - 1) \div 3) + 1
               N == Cardinality(Live)
    <2>2. c \in Nat /\ 1 <= c /\ c <= 3 * N
      BY <2>1 DEF BodyCells, RecordCells
    <2>3. j \in 1..N /\ c \in {3 * j - 2, 3 * j - 1, 3 * j}
      <3> HIDE DEF N
      <3> QED
        BY <2>1, <2>2 DEF N
    <2> HIDE DEF j
    <2>4. /\ Nth(Live, j) \in Live
          /\ Source(c) \in {slots[Nth(Live, j)] + 1, slots[Nth(Live, j)] + 2, slots[Nth(Live, j)] + 3}
      BY <2>3, SourceAt
    <2> QED
      BY <2>4, <1>1
  <1>3. ASSUME NEW k \in Live PROVE RecordAt(slots[k]) /\ slots[k] >= 0
    <2>1. slots[k] \in Int /\ \A i \in DOMAIN data : i >= 1
      BY DEF Live
    <2> QED
      BY <1>1, <2>1 DEF RecordAt, RecordCells
  <1> QED
    BY <1>2, <1>3 DEF Unread

(* The cells of record j of the body are then those of the slot it was     *)
(* read by.                                                                *)
LEMMA PackedBodyAt ==
    ASSUME slots \in Seq(Int), \A k \in Live : RecordIn(data, slots[k]),
           NEW j \in 1..Cardinality(Live), NEW left
    PROVE  /\ Nth(Live, j) \in Live
           /\ PackedBody(left)[3 * j - 2] = data[slots[Nth(Live, j)] + 1]
           /\ PackedBody(left)[3 * j - 1] = data[slots[Nth(Live, j)] + 2]
           /\ PackedBody(left)[3 * j] = data[slots[Nth(Live, j)] + 3]
  <1>1. Unread = {}
    BY RecordsRead
  <1>2. \A c \in BodyCells : PackedBody(left)[c] = data[Source(c)]
    BY <1>1 DEF PackedBody
  <1> QED
    BY <1>2, SourceAt

-----------------------------------------------------------------------------
(* The invariant: what the counts, the first cell, the offsets and the     *)
(* length of the data file are at each point of an option.                 *)

CountsExact ==
    /\ op.at \in {"menu", "inIdx", "inRoll", "inLen", "inName", "delData", "input",
                  "sort", "swap"} => hdr = Cardinality(Live)
    /\ op.at \in {"inSlot", "delIdx"} => hdr = Cardinality(Live) + 1
    /\ op.at = "inIdx"   => op.n = hdr + 1
    /\ op.at = "delIdx"  => op.n = hdr - 1
    /\ op.at = "delData" => op.n = hdr

StartsExact ==
    /\ op.at \in {"menu", "inSlot", "inRoll", "inLen", "inName", "delIdx", "sort", "swap"}
         => Starts(data, hdr)
    /\ op.at \in {"inIdx", "delData", "input"} => Starts(data, hdr + 1)
    /\ op.at = "initHdr" => data = <<Count(0)>>

(* What compaction() may make of a count of m records: in build O0 the     *)
(* read() of the last slot falls on it.                                    *)
Kept(m) == IF Build = "O0" THEN {m, 0, -1} ELSE {m}

SoundExact ==
    /\ op.at \in {"menu", "inIdx", "inSlot", "delIdx", "delData", "input", "sort"}
         => Sound(data, slots)
    /\ op.at = "inRoll" => Grows(data, slots, 0)
    /\ op.at = "inLen"  => Grows(data, slots, 1)
    /\ op.at = "inName" => Grows(data, slots, 2)
    /\ Rewriting => \E m \in Nat : Packed(op.body, m) /\ op.n \in Kept(m)
    /\ op.at \in {"cCount", "cBody"} => slots = Offsets(op.n)
    /\ op.at = "cBody" => data = <<Count(op.n)>>
    /\ op.at \in {"sort", "swap"} => AllUsed
    /\ op.at = "swap" => op.off # Deleted /\ Sound(data, [slots EXCEPT ![op.j] = op.off])

RoomExact ==
    LET c == 3 * Cardinality(Live)
    IN  /\ op.at \in {"menu", "inIdx", "inSlot", "delIdx", "delData", "input", "sort", "swap"}
             => Len(data) >= c + 1
        /\ op.at = "inRoll" => Len(data) >= c - 2
        /\ op.at = "inLen"  => Len(data) >= c - 1
        /\ op.at = "inName" => Len(data) >= c
        /\ op.at \notin {"hang", "undefined"}

Exact == CountsExact /\ StartsExact /\ SoundExact /\ RoomExact

EInv == TypeInv /\ (~torn => Exact)

LEMMA InitEInv == Init => EInv
  <1> SUFFICES ASSUME Init PROVE EInv
    OBVIOUS
  <1>1. TypeInv
    BY InitTypeInv
  <1>2. Live = {} /\ op.at = "menu" /\ slots = <<>> /\ data = <<Count(0)>> /\ hdr = 0
    BY DEF Init, Live, Idle
  <1>3. Cardinality(Live) = 0
    BY <1>2, FS_EmptySet
  <1>4. Starts(data, 0) /\ Sound(data, slots) /\ Len(data) = 1
    BY <1>2 DEF Starts, Sound
  <1> QED
    BY <1>1, <1>2, <1>3, <1>4
      DEF EInv, Exact, CountsExact, StartsExact, SoundExact, RoomExact, Rewriting

(* An offset behind the last cell starts a record. *)
LEMMA GrowsFirst ==
    ASSUME NEW d \in Seq(Cells), NEW s \in Seq(Int), Sound(d, s)
    PROVE  Grows(d, Append(s, Len(d)), 0)
  <1> DEFINE s2 == Append(s, Len(d))
             t  == [s2 EXCEPT ![Len(s2)] = Deleted]
  <1>1. /\ Len(d) \in Nat /\ Len(s2) = Len(s) + 1 /\ s2[Len(s2)] = Len(d) /\ s2 # <<>>
        /\ DOMAIN t = 1..(Len(s) + 1) /\ DOMAIN s = 1..Len(s) /\ t[Len(s) + 1] = Deleted
        /\ \A k \in DOMAIN s : t[k] = s[k] /\ k \in DOMAIN t
    <2>1. /\ Len(d) \in Nat /\ Len(s) \in Nat /\ s2 \in Seq(Int)
          /\ Len(s2) = Len(s) + 1 /\ s2[Len(s) + 1] = Len(d)
          /\ DOMAIN s2 = 1..(Len(s) + 1) /\ DOMAIN s = 1..Len(s)
          /\ \A k \in DOMAIN s : s2[k] = s[k]
      OBVIOUS
    <2> HIDE DEF s2
    <2>2. s2 # <<>>
      BY <2>1
    <2> QED
      BY <2>1, <2>2
  <1>2. \A k \in DOMAIN t : t[k] # Deleted => k \in DOMAIN s
    BY <1>1
  <1> HIDE DEF s2, t
  <1>3. Sound(d, t)
    BY <1>1, <1>2 DEF Sound
  <1>4. Len(d) = Len(d) - 0
    BY <1>1
  <1> QED
    BY <1>1, <1>3, <1>4 DEF Grows, t, s2

(* Only an initialization that has opened both files ends what an option   *)
(* that ended half-way left.                                               *)
LEMMA TornStays ==
    ASSUME [Next]_vars, torn, ~InitTruncData
    PROVE  torn'
  BY DEF Next, vars, OpenFails, Initialize, InitTruncIdx, InitCount,
         InitIndexHeader, Input, Add, ModifyInput, InputHeader, InputIndexHeader, InputSlot,
         InputRoll, InputNameLen, InputName, Removal, Delete, Modify, DeleteSlot,
         DeleteIndexHeader, DeleteCount, Reading, SearchHangs, ReadFails, PrintStudent,
         Compaction, Compact, Sort, CompactRead, CompactOverruns, CompactExits, CompactBuffers,
         CompactTruncIdx, CompactTruncData, CompactIndexHeader, CompactSlots, CompactCount,
         CompactBody, Sorting, SortStep, SortSwap, SortFails, SortEnd, Crash, Exit, ExitTorn

(* compaction() accepts files in which every offset is that of a record,   *)
(* and finds room for them.                                                *)
LEMMA SoundFits ==
    ASSUME slots \in Seq(Int), Sound(data, slots),
           NEW n \in Int, n = Cardinality(Live), Len(data) >= 3 * n + 1, Len(data) \in Nat
    PROVE  /\ FitsBuffers(n) /\ ~BadOffset /\ ~LengthUnread
           /\ \A k \in Live : RecordIn(data, slots[k])
  <1>1. \A k \in Live : RecordIn(data, slots[k])
    BY DEF Sound, Live
  <1>2. Unread = {} /\ \A k \in Live : RecordAt(slots[k]) /\ slots[k] >= 0
    BY <1>1, RecordsRead
  <1>3. FitsBuffers(n)
    BY <1>2 DEF FitsBuffers, RecordCells
  <1>4. ~BadOffset
    <2> SUFFICES ASSUME NEW k \in Live PROVE ~(slots[k] < 0)
      BY DEF BadOffset
    <2>1. slots[k] \in Int /\ slots[k] >= 0
      BY <1>2 DEF Live
    <2> QED
      BY <2>1
  <1> QED
    BY <1>1, <1>2, <1>3, <1>4 DEF LengthUnread

LEMMA NextEInv == EInv /\ [Next]_vars => EInv'
  <1> SUFFICES ASSUME EInv, [Next]_vars PROVE EInv'
    OBVIOUS
  <1>t. TypeInv /\ TypeInv'
    BY NextTypeInv DEF EInv
  <1>s. /\ data \in Seq(Cells) /\ slots \in Seq(Int) /\ hdr \in Int /\ op \in Ops
        /\ op.n \in Int /\ fds \in Nat /\ fds <= MaxFds /\ MaxFds \in Nat
        /\ data' \in Seq(Cells) /\ slots' \in Seq(Int) /\ hdr' \in Int
        /\ Len(data) \in Nat /\ Len(data') \in Nat
    BY <1>t, FdsAssumption DEF TypeInv, TypeOK, Ops
  <1>c. Cardinality(Live) \in Nat /\ Cardinality(Live') \in Nat
    BY <1>s, InUseFinite DEF Live
  <1>n. SlotsKnown /\ SlotsKnown'
    BY <1>t DEF TypeInv
  <1>g. SUFFICES ASSUME ~torn' PROVE Exact'
    BY <1>t DEF EInv
  <1>i. CASE InitTruncData
    <2>1. op' = [op EXCEPT !.at = "initIdx"]
      BY <1>i, <1>g DEF InitTruncData, ExitTorn
    <2>2. op'.at = "initIdx"
      BY <2>1, <1>s, OpMove DEF Points
    <2> QED
      BY <2>2 DEF Exact, CountsExact, StartsExact, SoundExact, RoomExact, Rewriting
  <1>j. SUFFICES ASSUME ~InitTruncData PROVE Exact'
    BY <1>i
  <1>y. ~torn
    BY <1>g, <1>j, TornStays
  <1>x. CountsExact /\ StartsExact /\ SoundExact /\ RoomExact
    BY <1>y DEF EInv, Exact
  <1>m. ASSUME NEW at \in Points, op' = [op EXCEPT !.at = at]
        PROVE  op'.at = at /\ op'.n = op.n /\ op'.body = op.body
    BY <1>m, <1>s, OpMove
  <1>l. ASSUME slots' = slots PROVE Live' = Live
    BY <1>l DEF Live
  <1>e. ASSUME op'.at = "menu", hdr' = Cardinality(Live'), Starts(data', hdr'),
               Sound(data', slots'), Len(data') >= 3 * Cardinality(Live') + 1
        PROVE  Exact'
    BY <1>e DEF Exact, CountsExact, StartsExact, SoundExact, RoomExact, Rewriting
  <1>h. ASSUME op.at = "menu"
        PROVE  /\ hdr = Cardinality(Live) /\ hdr # NoHdr /\ Starts(data, hdr)
               /\ Sound(data, slots) /\ Len(data) >= 3 * Cardinality(Live) + 1
    BY <1>h, <1>x, <1>c DEF CountsExact, StartsExact, SoundExact, RoomExact, NoHdr
  <1>r. ASSUME op.at = "menu", UNCHANGED <<data, hdr, slots>>, op'.at = "menu"
        PROVE  Exact'
    BY <1>r, <1>h, <1>e, <1>l
  <1>a. ASSUME NEW x \in Cells, data' = Append(data, x)
        PROVE  /\ Len(data') = Len(data) + 1 /\ \A v : Starts(data, v) => Starts(data', v)
    BY <1>a, <1>s DEF Starts
  <1>1. CASE OpenFails
    BY <1>1, <1>r DEF OpenFails, Menu
  <1>2. CASE Initialize
    <2>2. CASE InitTruncIdx
      <3>1. op'.at = "initData"
        BY <2>2, <1>m DEF InitTruncIdx, Points
      <3> QED
        BY <3>1 DEF Exact, CountsExact, StartsExact, SoundExact, RoomExact, Rewriting
    <2>3. CASE InitCount
      <3>1. op'.at = "initHdr" /\ data' = <<Count(0)>>
        BY <2>3, <1>m DEF InitCount, Points
      <3> QED
        BY <3>1 DEF Exact, CountsExact, StartsExact, SoundExact, RoomExact, Rewriting
    <2>4. CASE InitIndexHeader
      <3>1. op'.at = "menu" /\ hdr' = 0 /\ data' = <<Count(0)>> /\ slots' = <<>>
        BY <2>4, <1>x, <1>n DEF InitIndexHeader, StartsExact, SlotsKnown, Idle
      <3>2. Live' = {}
        BY <3>1 DEF Live
      <3>3. Cardinality(Live') = 0
        BY <3>2, FS_EmptySet
      <3>4. Starts(data', 0) /\ Sound(data', slots') /\ Len(data') = 1
        BY <3>1 DEF Starts, Sound
      <3> QED
        BY <3>1, <3>3, <3>4, <1>e
    <2> QED
      BY <1>2, <1>j, <2>2, <2>3, <2>4 DEF Initialize
  <1>3. CASE Input
    <2>1. ASSUME op'.at = "inIdx", op'.n = hdr + 1, UNCHANGED <<hdr, slots>>,
                 hdr = Cardinality(Live), Starts(data', hdr + 1), Sound(data', slots),
                 Len(data') >= 3 * Cardinality(Live) + 1
          PROVE  Exact'
      BY <2>1, <1>l DEF Exact, CountsExact, StartsExact, SoundExact, RoomExact, Rewriting
    <2>2. CASE Add
      <3>1. /\ WriteCount(hdr + 1, FALSE) /\ UNCHANGED <<hdr, slots>>
            /\ op' = [Idle EXCEPT !.at = "inIdx", !.app = FALSE, !.n = hdr + 1]
        BY <2>2, <1>h DEF Add, Menu, InputHeader
      <3>2. op'.at = "inIdx" /\ op'.n = hdr + 1
        BY <3>1 DEF Idle
      <3>3. data' = [data EXCEPT ![1] = Count(hdr + 1)]
        BY <2>2, <3>1, <1>h DEF Add, Menu, WriteCount, Starts
      <3>4. Len(data') = Len(data)
        BY <3>3, <1>s
      <3>5. Starts(data', hdr + 1) /\ Sound(data', slots)
        BY <2>2, <3>3, <1>h, <1>s, SoundCount DEF Add, Menu
      <3> QED
        BY <2>1, <2>2, <3>1, <3>2, <3>4, <3>5, <1>h DEF Add, Menu
    <2>3. CASE ModifyInput
      <3>1. /\ hdr = Cardinality(Live) /\ hdr # NoHdr /\ Starts(data, hdr + 1)
            /\ Sound(data, slots) /\ Len(data) >= 3 * Cardinality(Live) + 1
        BY <2>3, <1>x, <1>c
          DEF ModifyInput, CountsExact, StartsExact, SoundExact, RoomExact, NoHdr
      <3>2. /\ WriteCount(hdr + 1, TRUE) /\ UNCHANGED <<hdr, slots>>
            /\ op' = [Idle EXCEPT !.at = "inIdx", !.app = TRUE, !.n = hdr + 1]
        BY <2>3, <3>1 DEF ModifyInput, InputHeader
      <3>3. op'.at = "inIdx" /\ op'.n = hdr + 1
        BY <3>2 DEF Idle
      <3>4. data' = Append(data, Count(hdr + 1)) /\ Count(hdr + 1) \in Cells
        BY <3>2, <1>s DEF WriteCount, Count, Cells
      <3>5. Len(data') = Len(data) + 1 /\ Starts(data', hdr + 1)
        BY <3>1, <3>4, <1>a
      <3>6. Sound(data', slots)
        BY <3>1, <3>4, <1>s, SoundGrows
      <3> QED
        BY <2>1, <3>1, <3>2, <3>3, <3>5, <3>6, <1>c, <1>s
    <2>4. CASE InputIndexHeader
      <3>1. op'.at = "inSlot" /\ hdr' = op.n /\ UNCHANGED <<data, slots>>
        BY <2>4, <1>m DEF InputIndexHeader, Points
      <3>2. /\ op.n = hdr + 1 /\ hdr = Cardinality(Live) /\ Starts(data, hdr + 1)
            /\ Sound(data, slots) /\ Len(data) >= 3 * Cardinality(Live) + 1
        BY <2>4, <1>x DEF InputIndexHeader, CountsExact, StartsExact, SoundExact, RoomExact
      <3> QED
        BY <3>1, <3>2, <1>l DEF Exact, CountsExact, StartsExact, SoundExact, RoomExact, Rewriting
    <2>5. CASE InputSlot
      <3>1. op'.at = "inRoll" /\ slots' = Append(slots, Len(data)) /\ UNCHANGED <<data, hdr>>
        BY <2>5, <1>m DEF InputSlot, Points
      <3>2. /\ hdr = Cardinality(Live) + 1 /\ Starts(data, hdr)
            /\ Sound(data, slots) /\ Len(data) >= 3 * Cardinality(Live) + 1
        BY <2>5, <1>x DEF InputSlot, CountsExact, StartsExact, SoundExact, RoomExact
      <3>3. Cardinality(Live') = Cardinality(Live) + 1
        BY <3>1, <1>s, LiveAppendOne
      <3>4. Grows(data', slots', 0)
        BY <3>1, <3>2, <1>s, GrowsFirst
      <3>5. Len(data') >= 3 * Cardinality(Live') - 2
        BY <3>1, <3>2, <3>3, <1>c, <1>s
      <3> QED
        BY <3>1, <3>2, <3>3, <3>4, <3>5
          DEF Exact, CountsExact, StartsExact, SoundExact, RoomExact, Rewriting
    <2>6. CASE InputRoll
      <3>1. PICK r \in Rolls : data' = Append(data, Roll(r))
        BY <2>6 DEF InputRoll
      <3>2. Roll(r) \in Cells /\ Roll(r).kind = "roll"
        BY RollsAssumption DEF Roll, Cells
      <3>3. op'.at = "inLen" /\ UNCHANGED <<hdr, slots>>
        BY <2>6, <1>m DEF InputRoll, Points
      <3>4. /\ hdr = Cardinality(Live) /\ Starts(data, hdr) /\ Grows(data, slots, 0)
            /\ Len(data) >= 3 * Cardinality(Live) - 2
        BY <2>6, <1>x DEF InputRoll, CountsExact, StartsExact, SoundExact, RoomExact
      <3>5. Grows(data', slots, 1)
        <4>1. Grows(data', slots, 0 + 1)
          BY <3>1, <3>2, <3>4, <1>s, GrowsOn
        <4> QED
          BY <4>1
      <3>6. Starts(data', hdr) /\ Len(data') >= 3 * Cardinality(Live) - 1
        BY <3>1, <3>2, <3>4, <1>a, <1>c, <1>s
      <3> QED
        BY <3>3, <3>4, <3>5, <3>6, <1>l
          DEF Exact, CountsExact, StartsExact, SoundExact, RoomExact, Rewriting
    <2>7. CASE InputNameLen
      <3>1. data' = Append(data, NameLen) /\ NameLen \in Cells /\ NameLen.kind = "len"
        BY <2>7 DEF InputNameLen, NameLen, Cells
      <3>3. op'.at = "inName" /\ UNCHANGED <<hdr, slots>>
        BY <2>7, <1>m DEF InputNameLen, Points
      <3>4. /\ hdr = Cardinality(Live) /\ Starts(data, hdr) /\ Grows(data, slots, 1)
            /\ Len(data) >= 3 * Cardinality(Live) - 1
        BY <2>7, <1>x DEF InputNameLen, CountsExact, StartsExact, SoundExact, RoomExact
      <3>5. Grows(data', slots, 2)
        <4>1. Grows(data', slots, 1 + 1)
          BY <3>1, <3>4, <1>s, GrowsOn
        <4> QED
          BY <4>1
      <3>6. Starts(data', hdr) /\ Len(data') >= 3 * Cardinality(Live)
        BY <3>1, <3>4, <1>a, <1>c, <1>s
      <3> QED
        BY <3>3, <3>4, <3>5, <3>6, <1>l
          DEF Exact, CountsExact, StartsExact, SoundExact, RoomExact, Rewriting
    <2>8. CASE InputName
      <3>1. PICK v \in Names : data' = Append(data, Name(v))
        BY <2>8 DEF InputName
      <3>2. v \in Int /\ Name(v) \in Cells
        BY NamesAssumption DEF Name, Cells
      <3>3. op'.at = "menu" /\ UNCHANGED <<hdr, slots>>
        BY <2>8 DEF InputName, Idle
      <3>4. /\ hdr = Cardinality(Live) /\ Starts(data, hdr) /\ Grows(data, slots, 2)
            /\ Len(data) >= 3 * Cardinality(Live)
        BY <2>8, <1>x DEF InputName, CountsExact, StartsExact, SoundExact, RoomExact
      <3>5. Sound(data', slots)
        BY <3>1, <3>2, <3>4, <1>s, SoundAdd
      <3>6. Starts(data', hdr) /\ Len(data') >= 3 * Cardinality(Live) + 1
        BY <3>1, <3>2, <3>4, <1>a, <1>c, <1>s
      <3> QED
        BY <3>3, <3>4, <3>5, <3>6, <1>l, <1>e
    <2> QED
      BY <1>3, <2>2, <2>3, <2>4, <2>5, <2>6, <2>7, <2>8 DEF Input
  <1>4. CASE Removal
    <2>1. ASSUME NEW app, DeleteSlot(app)
          PROVE  Exact'
      <3>1. PICK r \in Rolls : \E k \in Found(r) : slots' = [slots EXCEPT ![k] = Deleted]
        BY <2>1 DEF DeleteSlot
      <3>2. PICK k \in Found(r) : slots' = [slots EXCEPT ![k] = Deleted]
        BY <3>1
      <3>3. k \in Live
        BY DEF Found, Scanned
      <3>4. Cardinality(Live') = Cardinality(Live) - 1
        BY <3>2, <3>3, <1>s, LiveDelete
      <3>5. op'.at = "delIdx" /\ op'.n = hdr - 1 /\ UNCHANGED <<data, hdr>>
        BY <2>1 DEF DeleteSlot, Idle
      <3>6. /\ hdr = Cardinality(Live) /\ Starts(data, hdr) /\ Sound(data, slots)
            /\ Len(data) >= 3 * Cardinality(Live) + 1
        BY <2>1, <1>h DEF DeleteSlot, Menu
      <3>7. Sound(data', slots')
        BY <3>2, <3>5, <3>6, <1>s, SoundDelete
      <3>8. hdr' = Cardinality(Live') + 1 /\ Len(data') >= 3 * Cardinality(Live') + 1
        BY <3>4, <3>5, <3>6, <1>c, <1>s
      <3> QED
        BY <3>5, <3>6, <3>7, <3>8
          DEF Exact, CountsExact, StartsExact, SoundExact, RoomExact, Rewriting
    <2>2. CASE Delete \/ Modify
      BY <2>1, <2>2 DEF Delete, Modify
    <2>3. CASE DeleteIndexHeader
      <3>1. op'.at = "delData" /\ op'.n = op.n /\ hdr' = op.n /\ UNCHANGED <<data, slots>>
        BY <2>3, <1>m DEF DeleteIndexHeader, Points
      <3>2. /\ op.n = hdr - 1 /\ hdr = Cardinality(Live) + 1 /\ Starts(data, hdr)
            /\ Sound(data, slots) /\ Len(data) >= 3 * Cardinality(Live) + 1
        BY <2>3, <1>x DEF DeleteIndexHeader, CountsExact, StartsExact, SoundExact, RoomExact
      <3>3. hdr' = Cardinality(Live) /\ hdr' + 1 = hdr
        BY <3>1, <3>2, <1>c
      <3> QED
        BY <3>1, <3>2, <3>3, <1>l
          DEF Exact, CountsExact, StartsExact, SoundExact, RoomExact, Rewriting
    <2>4. CASE DeleteCount
      <3>1. /\ op.n = hdr /\ hdr = Cardinality(Live) /\ Starts(data, hdr + 1)
            /\ Sound(data, slots) /\ Len(data) >= 3 * Cardinality(Live) + 1
        BY <2>4, <1>x DEF DeleteCount, CountsExact, StartsExact, SoundExact, RoomExact
      <3>2. WriteCount(hdr, op.app) /\ UNCHANGED <<hdr, slots>> /\ op.app \in BOOLEAN
        BY <2>4, <3>1, <1>s DEF DeleteCount, Ops
      <3>3. CASE op.app = TRUE
        <4>1. op'.at = "input"
          BY <2>4, <3>3, <1>m DEF DeleteCount, Points
        <4>2. data' = Append(data, Count(hdr)) /\ Count(hdr) \in Cells
          BY <3>2, <3>3, <1>s DEF WriteCount, Count, Cells
        <4>3. Len(data') = Len(data) + 1 /\ Starts(data', hdr + 1)
          BY <3>1, <4>2, <1>a
        <4>4. Sound(data', slots)
          BY <3>1, <4>2, <1>s, SoundGrows
        <4>5. Len(data') >= 3 * Cardinality(Live) + 1
          BY <3>1, <4>3, <1>c, <1>s
        <4> QED
          BY <3>1, <3>2, <4>1, <4>3, <4>4, <4>5, <1>l
            DEF Exact, CountsExact, StartsExact, SoundExact, RoomExact, Rewriting
      <3>4. CASE op.app = FALSE
        <4>1. op'.at = "menu"
          BY <2>4, <3>4 DEF DeleteCount, Idle
        <4>2. data' = [data EXCEPT ![1] = Count(hdr)]
          BY <3>1, <3>2, <3>4 DEF WriteCount, Starts
        <4>3. Len(data') = Len(data)
          BY <4>2, <1>s
        <4>4. Starts(data', hdr) /\ Sound(data', slots)
          BY <3>1, <4>2, <1>s, SoundCount
        <4> QED
          BY <3>1, <3>2, <4>1, <4>3, <4>4, <1>l, <1>e
      <3> QED
        BY <3>2, <3>3, <3>4
    <2> QED
      BY <1>4, <2>2, <2>3, <2>4 DEF Removal
  <1>5. CASE Reading
    <2>1. ~SearchHangs
      BY <1>h, <1>s, <1>c DEF SearchHangs, Menu, RunsOn
    <2> QED
      BY <1>5, <2>1, <1>r DEF Reading, ReadFails, PrintStudent, Exit, Quit, Menu, Idle
  <1>6. CASE Compaction
    <2>a. ASSUME op'.at \in {"cIdx", "cData", "cHdr", "cSlots"},
                 NEW m \in Nat, Packed(op'.body, m), op'.n \in Kept(m)
          PROVE  Exact'
      BY <2>a DEF Exact, CountsExact, StartsExact, SoundExact, RoomExact, Rewriting
    <2>b. op.at \in {"cIdx", "cData", "cHdr", "cSlots", "cCount", "cBody"}
            => \E m \in Nat : Packed(op.body, m) /\ op.n \in Kept(m)
      BY <1>x DEF SoundExact, Rewriting
    <2>1. ASSUME NEW sorts, CompactRead(sorts)
          PROVE  Exact'
      <3>0. UNCHANGED <<data, hdr, slots>> /\ Menu
        BY <2>1 DEF CompactRead
      <3>1. /\ hdr = Cardinality(Live) /\ hdr # NoHdr /\ Starts(data, hdr)
            /\ Sound(data, slots) /\ Len(data) >= 3 * Cardinality(Live) + 1
        BY <3>0, <1>h DEF Menu
      <3>2. PICK n \in CountRead : CompactOverruns(n) \/ CompactExits(n) \/ CompactBuffers(n, sorts)
        BY <2>1 DEF CompactRead
      <3>3. n = hdr
        BY <3>1 DEF CountRead
      <3>4. FitsBuffers(n) /\ ~BadOffset /\ ~LengthUnread /\ \A k \in Live : RecordIn(data, slots[k])
        BY <3>1, <3>3, <1>s, SoundFits
      <3>5. ~CompactOverruns(n)
        BY <3>4 DEF CompactOverruns
      <3>6. CASE CompactExits(n)
        <4>1. op'.at = "menu"
          BY <3>6 DEF CompactExits, Exit, Quit, Idle
        <4> QED
          BY <3>0, <4>1, <1>r DEF Menu
      <3>7. CASE CompactBuffers(n, sorts)
        <4>1. PICK left \in [Unread \ Lengths -> Leftovers] :
                op' = [Idle EXCEPT !.at = "cIdx", !.sorts = sorts, !.n = CountAfterReads(n),
                                   !.body = PackedBody(left), !.hole = LastDeleted,
                                   !.stray = StrayStore(n)]
          BY <3>7 DEF CompactBuffers
        <4>2. op'.at = "cIdx" /\ op'.n = CountAfterReads(n) /\ op'.body = PackedBody(left)
          BY <4>1 DEF Idle
        <4>3. Packed(op'.body, Cardinality(Live))
          BY <4>2, <3>4, <1>s, RecordsRead, PackedBodyPacked
        <4>4. op'.n \in Kept(Cardinality(Live))
          BY <4>2, <3>1, <3>3 DEF CountAfterReads, Kept
        <4> QED
          BY <2>a, <4>2, <4>3, <4>4, <1>c
      <3> QED
        BY <3>2, <3>5, <3>6, <3>7
    <2>2. CASE Compact \/ Sort
      BY <2>1, <2>2 DEF Compact, Sort
    <2>3. CASE CompactTruncIdx \/ CompactTruncData \/ CompactIndexHeader
      <3>1. /\ op.at \in {"cIdx", "cData", "cHdr"} /\ op'.at \in {"cData", "cHdr", "cSlots"}
            /\ op'.n = op.n /\ op'.body = op.body
        BY <2>3, <1>m DEF CompactTruncIdx, CompactTruncData, CompactIndexHeader, Points
      <3> QED
        BY <2>a, <2>b, <3>1
    <2>4. CASE CompactSlots
      <3>1. PICK m \in Nat : Packed(op.body, m) /\ op.n \in Kept(m)
        BY <2>4, <2>b DEF CompactSlots
      <3>2. /\ op' = [op EXCEPT !.at = "cCount"]
            /\ \E left \in [(OffsetsStored + 1)..op.n -> Leftovers] :
                  slots' = [k \in 1..op.n |-> IF k <= OffsetsStored
                                              THEN RecordCells * (k - 1) + 1 ELSE left[k]]
        BY <2>4, <1>g DEF CompactSlots, ExitTorn
      <3>3. op'.at = "cCount" /\ op'.n = op.n /\ op'.body = op.body
        BY <3>2, <1>m DEF Points
      <3>4. OffsetsStored \in {m, m + 1}
        <4>1. Len(op.body) = 3 * m
          BY <3>1 DEF Packed
        <4>2. (3 * m) \div 3 = m
          OBVIOUS
        <4> QED
          BY <4>1, <4>2 DEF OffsetsStored, RecordCells
      <3>5. op.n <= m /\ op.n \in Int
        BY <3>1 DEF Kept
      <3>6. slots' = Offsets(op.n)
        <4> DEFINE N == op.n
        <4>1. \A k \in 1..N : k <= OffsetsStored
          BY <3>4, <3>5
        <4> HIDE DEF N
        <4>2. slots' = [k \in 1..N |-> RecordCells * (k - 1) + 1]
          BY <3>2, <4>1 DEF N
        <4> QED
          BY <4>2 DEF Offsets, N
      <3> QED
        BY <3>1, <3>3, <3>6
          DEF Exact, CountsExact, StartsExact, SoundExact, RoomExact, Rewriting
    <2>5. CASE CompactCount
      <3>1. (\E m \in Nat : Packed(op.body, m) /\ op.n \in Kept(m)) /\ slots = Offsets(op.n)
        BY <2>5, <2>b, <1>x DEF CompactCount, SoundExact
      <3>2. data' = <<Count(op.n)>> /\ UNCHANGED slots
        BY <2>5 DEF CompactCount
      <3>3. op'.at = "cBody" /\ op'.n = op.n /\ op'.body = op.body
        BY <2>5, <1>m DEF CompactCount, Points
      <3> QED
        BY <3>1, <3>2, <3>3
          DEF Exact, CountsExact, StartsExact, SoundExact, RoomExact, Rewriting
    <2>6. CASE CompactBody
      <3> DEFINE n == op.n
      <3>1. PICK m \in Nat : Packed(op.body, m) /\ n \in Kept(m)
        BY <2>6, <2>b DEF CompactBody
      <3>2. hdr = n /\ Len(slots) = n
        BY <2>6, <1>n DEF CompactBody, SlotsKnown
      <3>3. slots = Offsets(n) /\ data = <<Count(n)>>
        BY <2>6, <1>x DEF CompactBody, SoundExact
      <3>4. n \in {m, 0}
        <4>1. Len(slots) \in Nat
          BY <1>s, LenProperties
        <4> QED
          BY <3>1, <3>2, <4>1 DEF Kept
      <3>5. data' = <<Count(n)>> \o op.body /\ UNCHANGED <<hdr, slots>>
        BY <2>6, <3>3 DEF CompactBody
      <3>6. Sound(data', slots')
        <4>1. CASE n = m
          BY <3>1, <3>3, <3>5, <4>1, SoundPacked
        <4>2. CASE n = 0
          <5>1. slots' = <<>>
            BY <3>2, <3>5, <4>2, <1>s, EmptySeq
          <5> QED
            BY <5>1 DEF Sound
        <4> QED
          BY <3>4, <4>1, <4>2
      <3>7. Starts(data', n) /\ Len(data') >= 3 * n + 1
        <4>1. op.body \in Seq(Cells) /\ Len(op.body) = 3 * m
          BY <3>1 DEF Packed
        <4>2. Count(n) \in Cells
          BY <3>4 DEF Count, Cells
        <4> HIDE DEF n
        <4>3. Len(data') = 3 * m + 1 /\ data'[1] = Count(n)
          BY <3>5, <4>1, <4>2
        <4>4. data' # <<>>
          BY <4>3
        <4> QED
          BY <3>4, <4>3, <4>4 DEF Starts
      <3>8. AllUsed
        BY <3>3, <3>4 DEF AllUsed, Offsets, RecordCells, Deleted
      <3>9. Cardinality(Live') = n
        BY <3>2, <3>5, <3>8, <1>l, <1>s, AllUsedCount DEF Live, AllUsed
      <3>10. AllUsed'
        BY <3>5, <3>8 DEF AllUsed
      <3>11. op'.at \in {"menu", "sort"}
        BY <2>6 DEF CompactBody, Idle
      <3> HIDE DEF n
      <3> QED
        BY <3>2, <3>5, <3>6, <3>7, <3>9, <3>10, <3>11
          DEF Exact, CountsExact, StartsExact, SoundExact, RoomExact, Rewriting
    <2> QED
      BY <1>6, <2>2, <2>3, <2>4, <2>5, <2>6 DEF Compaction
  <1>7. CASE Sorting
    <2>1. ASSUME SortStep \/ SortSwap,
                 op'.at = "sort"  => Sound(data, slots'),
                 op'.at = "swap" => Sound(data, [slots' EXCEPT ![op'.j] = op'.off])
          PROVE  Exact'
      <3>1. op'.at \in {"sort", "swap"} /\ op.at \in {"sort", "swap"} /\ UNCHANGED <<data, hdr>>
        BY <2>1, <1>s DEF SortStep, SortSwap, Ops
      <3>2. AllUsed /\ AllUsed' /\ (op'.at = "swap" => op'.off # Deleted)
        BY <2>1, <3>1, <1>t, <1>x, SortKeepsUsed DEF SoundExact
      <3>3. Cardinality(Live') = Len(slots') /\ Cardinality(Live) = Len(slots)
        BY <3>2, <1>s, AllUsedCount DEF Live, AllUsed
      <3>4. hdr' = Len(slots') /\ hdr = Len(slots)
        BY <3>1, <1>n DEF SlotsKnown
      <3>5. Starts(data, hdr) /\ Len(data) >= 3 * Cardinality(Live) + 1
        BY <3>1, <1>x DEF StartsExact, RoomExact
      <3> QED
        BY <2>1, <3>1, <3>2, <3>3, <3>4, <3>5
          DEF Exact, CountsExact, StartsExact, SoundExact, RoomExact, Rewriting
    <2>2. CASE SortStep
      <3> DEFINE m == MinIndex(op.i, op.n)
                 i == op.i
      <3>1. op.n \in Nat /\ i \in Nat /\ i <= op.n /\ 1 <= i /\ Len(slots) = op.n
        BY <2>2, <1>s, <1>n DEF SortStep, SlotsKnown, Ops
      <3>2. m \in i..op.n
        BY <3>1, MinIndexRange
      <3>3. m \in DOMAIN slots /\ i \in DOMAIN slots
        BY <3>1, <3>2, <1>s
      <3>4. Sound(data, slots)
        BY <2>2, <1>x DEF SortStep, SoundExact
      <3> HIDE DEF m
      <3>5. CASE m = i
        <4>1. op' = [op EXCEPT !.i = @ + 1] /\ slots' = slots
          BY <2>2, <3>5 DEF SortStep, m
        <4>2. op'.at = "sort"
          BY <2>2, <4>1, <1>s DEF SortStep, Ops
        <4> QED
          BY <2>1, <2>2, <3>4, <4>1, <4>2
      <3>6. CASE m # i
        <4>1. /\ slots' = [slots EXCEPT ![i] = slots[m]]
              /\ op' = [op EXCEPT !.at = "swap", !.j = m, !.off = slots[i]]
          BY <2>2, <3>6 DEF SortStep, m
        <4>2. op'.at = "swap" /\ op'.j = m /\ op'.off = slots[i]
          BY <4>1, <1>s DEF Ops
        <4>3. Sound(data, [slots' EXCEPT ![m] = slots[i]])
          BY <3>3, <3>4, <3>6, <4>1, <1>s, SoundSwap
        <4> QED
          BY <2>1, <2>2, <4>2, <4>3
      <3> QED
        BY <3>5, <3>6
    <2>3. CASE SortSwap
      <3>1. slots' = [slots EXCEPT ![op.j] = op.off] /\ op'.at = "sort"
        BY <2>3, <1>s DEF SortSwap, Ops
      <3>2. Sound(data, slots')
        BY <2>3, <3>1, <1>x DEF SortSwap, SoundExact
      <3> QED
        BY <2>1, <2>3, <3>1, <3>2
    <2>4. CASE SortEnd
      <3>1. op'.at = "menu" /\ UNCHANGED <<data, hdr, slots>> /\ op.at = "sort"
        BY <2>4 DEF SortEnd, Idle
      <3> QED
        BY <3>1, <1>x, <1>e, <1>l DEF CountsExact, StartsExact, SoundExact, RoomExact
    <2>5. ~SortFails
      BY <1>g DEF SortFails, ExitTorn
    <2> QED
      BY <1>7, <2>2, <2>3, <2>4, <2>5 DEF Sorting
  <1>8. CASE Crash
    BY <1>8, <1>g DEF Crash, ExitTorn
  <1>9. CASE UNCHANGED vars
    BY <1>9, <1>x, <1>l
      DEF vars, Exact, CountsExact, StartsExact, SoundExact, RoomExact, Rewriting, AllUsed
  <1> QED
    BY <1>1, <1>2, <1>3, <1>4, <1>5, <1>6, <1>7, <1>8, <1>9 DEF Next

(* Until an option ends half-way, and from the next initialization on,     *)
(* both files count the records the index file has offsets for whenever    *)
(* the menu is shown, whatever modify wrote at the end of the data file,   *)
(* in every build and with any limit on descriptors (main).                *)
THEOREM CountsStayEqual == Spec => []CountsAgree
  <1>1. EInv => CountsAgree
    BY DEF EInv, Exact, CountsExact, StartsExact, Starts, CountsAgree, Menu
  <1> QED
    BY <1>1, NextEInv, InitEInv, PTL DEF Spec

(* And every offset is that of a whole record that shares no cell with     *)
(* another one, for any number of records and any sequence of options      *)
(* (input_record, compaction).                                             *)
THEOREM RecordsStayDisjoint == Spec => []RecordsDisjoint
  <1>1. EInv => RecordsDisjoint
    <2>1. ASSUME Sound(data, slots), NEW k \in Live
          PROVE  /\ WholeAt(slots[k])
                 /\ \A m \in Live \ {k} : slots[m] - slots[k] \notin 0..2
      <3>1. WholeAt(slots[k])
        BY <2>1 DEF Sound, RecordIn, KindIn, WholeAt, KindAt, Live
      <3>2. \A m \in Live \ {k} : slots[m] - slots[k] \notin 0..2
        BY <2>1 DEF Sound, Live
      <3> QED
        BY <3>1, <3>2
    <2> QED
      BY <2>1 DEF EInv, Exact, SoundExact, RecordsDisjoint, Menu
  <1> QED
    BY <1>1, NextEInv, InitEInv, PTL DEF Spec

(* compaction() then finds what it reads: it has room for the records in   *)
(* idx_buff[n] and in the buffer of data_end bytes, every offset is one    *)
(* lseek() takes, and no read() meets the end of the file.  Only the       *)
(* offset it stores for a deleted last slot may have no room (StrayStore). *)
BuffersHold ==
    Menu /\ ~torn => /\ CountRead = {hdr} /\ FitsBuffers(hdr)
                     /\ ~BadOffset /\ Unread = {}

THEOREM BuffersFit == Spec => []BuffersHold
  <1>1. EInv => BuffersHold
    <2> SUFFICES ASSUME EInv, Menu, ~torn
                 PROVE  CountRead = {hdr} /\ FitsBuffers(hdr) /\ ~BadOffset /\ Unread = {}
      BY DEF BuffersHold
    <2>1. TypeInv /\ Exact
      BY DEF EInv
    <2>2. slots \in Seq(Int) /\ data \in Seq(Cells) /\ hdr \in Int /\ Len(data) \in Nat
      BY <2>1, LenProperties DEF TypeInv, TypeOK
    <2>3. hdr = Cardinality(Live) /\ Sound(data, slots) /\ Len(data) >= 3 * hdr + 1
      BY <2>1 DEF Menu, Exact, CountsExact, SoundExact, RoomExact
    <2>4. hdr # NoHdr
      BY <2>2, <2>3, LiveFinite DEF NoHdr
    <2>5. /\ FitsBuffers(hdr) /\ ~BadOffset
          /\ \A k \in Live : RecordIn(data, slots[k])
      BY <2>2, <2>3, SoundFits
    <2>6. Unread = {}
      BY <2>2, <2>5, RecordsRead
    <2> QED
      BY <2>4, <2>5, <2>6 DEF CountRead
  <1> QED
    BY <1>1, NextEInv, InitEInv, PTL DEF Spec

-----------------------------------------------------------------------------
(* Kills included, a stored record is lost only where the program rewrites *)
(* the files.  The data file starts with a count, so that no write of one  *)
(* hits a record; a truncated file has nothing to lose; and an exchange    *)
(* has the offset twice that its second write overwrites.                  *)

SInv ==
    /\ TypeInv
    /\ data # <<>> => data[1].kind = "count"
    /\ op.at \in {"inIdx", "inSlot", "inRoll", "inLen", "inName", "input", "cBody"} => data # <<>>
    /\ op.at \in {"initIdx", "cHdr", "cSlots", "cCount"} => data = <<>>
    /\ op.at = "swap" => op.i \in 1..op.n /\ op.i # op.j /\ slots[op.i] = slots[op.j]

(* What is in d is in d2, but for the count at its start. *)
LEMMA KeepsMore ==
    ASSUME NEW d, NEW d2, DOMAIN d \subseteq DOMAIN d2,
           \A i \in DOMAIN d : d2[i] = d[i] \/ (i = 1 /\ d[1].kind = "count"),
           NEW p \in Int, RecordIn(d, p)
    PROVE  RecordIn(d2, p) /\ \A c \in 1..RecordCells : d2[p + c] = d[p + c]
  <1>0. p \in Int
    BY DEF Deleted
  <1>1. /\ p + 1 \in DOMAIN d /\ d[p + 1].kind = "roll"
        /\ p + 2 \in DOMAIN d /\ d[p + 2].kind = "len"
        /\ p + 3 \in DOMAIN d /\ d[p + 3].kind = "name"
    <2>1. p + 1 + 1 = p + 2 /\ p + 2 + 1 = p + 3
      BY <1>0
    <2> QED
      BY <2>1 DEF RecordIn, KindIn
  <1>2. d2[p + 1] = d[p + 1] /\ d2[p + 2] = d[p + 2] /\ d2[p + 3] = d[p + 3]
    BY <1>1
  <1>3. RecordIn(d2, p)
    <2>1. p + 1 + 1 = p + 2 /\ p + 2 + 1 = p + 3
      BY <1>0
    <2> QED
      BY <1>1, <1>2, <2>1 DEF RecordIn, KindIn
  <1>4. \A c \in 1..RecordCells : c = 1 \/ c = 2 \/ c = 3
    BY DEF RecordCells
  <1> QED
    BY <1>2, <1>3, <1>4

(* A step that keeps the cells and the offsets keeps what is stored. *)
LEMMA StoredKept ==
    ASSUME slots \in Seq(Int),
           \A p \in Int : RecordIn(data, p)
             => RecordIn(data', p) /\ \A c \in 1..RecordCells : data'[p + c] = data[p + c],
           \A k \in Live : \E m \in Live' : slots'[m] = slots[k]
    PROVE  \A p \in Stored : p \in Stored' /\ \A c \in 1..RecordCells : data'[p + c] = data[p + c]
  <1> SUFFICES ASSUME NEW p \in Stored
               PROVE  p \in Stored' /\ \A c \in 1..RecordCells : data'[p + c] = data[p + c]
    OBVIOUS
  <1>1. PICK k \in Live : p = slots[k] /\ WholeAt(slots[k])
    BY DEF Stored
  <1>2. p \in Int /\ RecordIn(data, p)
    BY <1>1 DEF Live, WholeAt, KindAt, RecordIn, KindIn
  <1>3. PICK m \in Live' : slots'[m] = p
    BY <1>1
  <1>4. RecordIn(data', p) /\ \A c \in 1..RecordCells : data'[p + c] = data[p + c]
    BY <1>2
  <1>5. WholeAt(p)'
    BY <1>4 DEF WholeAt, KindAt, RecordIn, KindIn
  <1>6. p \in Stored'
    BY <1>3, <1>5 DEF Stored
  <1> QED
    BY <1>4, <1>6

(* A count is written over a count, or behind the last cell. *)
LEMMA WriteCountKeeps ==
    ASSUME data \in Seq(Cells), data # <<>> => data[1].kind = "count",
           NEW v \in Int, NEW app, WriteCount(v, app)
    PROVE  /\ data' # <<>> /\ data'[1].kind = "count"
           /\ DOMAIN data \subseteq DOMAIN data'
           /\ \A i \in DOMAIN data : data'[i] = data[i] \/ (i = 1 /\ data[1].kind = "count")
  <1>1. Count(v) \in Cells /\ Count(v).kind = "count"
    BY DEF Count, Cells
  <1>2. CASE data = <<>>
    <2>1. data' = <<Count(v)>>
      BY <1>1, <1>2 DEF WriteCount
    <2> QED
      BY <1>1, <1>2, <2>1
  <1>3. CASE data # <<>>
    <2>1. 1 \in DOMAIN data
      BY <1>3, EmptySeq, LenProperties
    <2>2. CASE data' = Append(data, Count(v))
      BY <1>1, <1>3, <2>1, <2>2
    <2>3. CASE data' = [data EXCEPT ![1] = Count(v)]
      BY <1>1, <1>3, <2>1, <2>3
    <2> QED
      BY <1>3, <2>2, <2>3 DEF WriteCount
  <1> QED
    BY <1>2, <1>3

LEMMA AppendKeeps ==
    ASSUME data \in Seq(Cells), data # <<>>, data[1].kind = "count",
           NEW x \in Seq(Cells), data' = data \o x
    PROVE  /\ data' # <<>> /\ data'[1].kind = "count"
           /\ DOMAIN data \subseteq DOMAIN data'
           /\ \A i \in DOMAIN data : data'[i] = data[i]
  <1>1. 1 \in DOMAIN data
    BY EmptySeq, LenProperties
  <1>2. /\ Len(data') = Len(data) + Len(x) /\ data' \in Seq(Cells)
        /\ Len(x) \in Nat /\ Len(data) \in Nat
        /\ \A i \in DOMAIN data : data'[i] = data[i]
    OBVIOUS
  <1>3. DOMAIN data \subseteq DOMAIN data'
    BY <1>2
  <1> QED
    BY <1>1, <1>2, <1>3

LEMMA InitSInv == Init => SInv
  <1> SUFFICES ASSUME Init PROVE SInv
    OBVIOUS
  <1>1. TypeInv
    BY InitTypeInv
  <1>2. op.at = "menu" /\ data = <<Count(0)>>
    BY DEF Init, Idle
  <1> QED
    BY <1>1, <1>2 DEF SInv, Count

(* The part of SInv that is not about types, and the property of a step.   *)
Step ==
    op'.at # "delIdx" /\ data' # <<>> /\ op.at \notin {"cIdx", "sort"}
      => \A p \in Stored : /\ p \in Stored'
                           /\ \A c \in 1..RecordCells : data'[p + c] = data[p + c]

LEMMA NextSInv == SInv /\ [Next]_vars => SInv' /\ Step
  <1> SUFFICES ASSUME SInv, [Next]_vars PROVE SInv' /\ Step
    OBVIOUS
  <1>t. TypeInv /\ TypeInv' /\ SlotsKnown
    BY NextTypeInv DEF SInv, TypeInv
  <1>s. /\ data \in Seq(Cells) /\ slots \in Seq(Int) /\ op \in Ops /\ op.n \in Int
        /\ op.body \in Seq(Cells) /\ data' \in Seq(Cells)
    BY <1>t DEF TypeInv, TypeOK, Ops
  <1>x. /\ data # <<>> => data[1].kind = "count"
        /\ op.at \in {"inIdx", "inSlot", "inRoll", "inLen", "inName", "input", "cBody"}
             => data # <<>>
        /\ op.at \in {"initIdx", "cHdr", "cSlots", "cCount"} => data = <<>>
        /\ op.at = "swap" => op.i \in 1..op.n /\ op.i # op.j /\ slots[op.i] = slots[op.j]
    BY DEF SInv
  <1>m. ASSUME NEW at \in Points, op' = [op EXCEPT !.at = at]
        PROVE  op'.at = at
    BY <1>m, <1>s, OpMove
  <1> DEFINE Filled == {"inIdx", "inSlot", "inRoll", "inLen", "inName", "input", "cBody"}
             Empty  == {"initIdx", "cHdr", "cSlots", "cCount"}
  <1>i. ASSUME data' # <<>> => data'[1].kind = "count",
               op'.at \in Filled => data' # <<>>, op'.at \in Empty => data' = <<>>,
               op'.at # "swap"
        PROVE  SInv'
    BY <1>i, <1>t DEF SInv
  <1>k. ASSUME DOMAIN data \subseteq DOMAIN data',
               \A i \in DOMAIN data : data'[i] = data[i] \/ (i = 1 /\ data[1].kind = "count"),
               \A k \in Live : \E m \in Live' : slots'[m] = slots[k]
        PROVE  Step
    <2>1. \A p \in Int : RecordIn(data, p)
            => RecordIn(data', p) /\ \A c \in 1..RecordCells : data'[p + c] = data[p + c]
      BY <1>k, KeepsMore
    <2> QED
      BY <1>s, <1>k, <2>1, StoredKept DEF Step
  <1>l. slots' = slots => \A k \in Live : \E m \in Live' : slots'[m] = slots[k]
    BY DEF Live
  <1>f. ASSUME UNCHANGED <<data, slots>>, op'.at # "swap",
               op'.at \in Filled => op.at \in Filled, op'.at \in Empty => op.at \in Empty
        PROVE  SInv' /\ Step
    BY <1>f, <1>x, <1>i, <1>k, <1>l
  <1>b. ASSUME op'.at # "swap", op'.at \notin Empty, UNCHANGED slots,
               NEW v \in Int, NEW app, WriteCount(v, app)
        PROVE  SInv' /\ Step
    BY <1>b, <1>s, <1>x, <1>i, <1>k, <1>l, WriteCountKeeps
  <1>a. ASSUME op.at \in Filled, op'.at # "swap", op'.at \notin Empty, UNCHANGED slots,
               NEW z \in Seq(Cells), data' = data \o z
        PROVE  SInv' /\ Step
    BY <1>a, <1>s, <1>x, <1>i, <1>k, <1>l, AppendKeeps
  <1>o. ASSUME NEW z \in Cells
        PROVE  Append(data, z) = data \o <<z>> /\ <<z>> \in Seq(Cells)
    BY <1>o, <1>s
  <1>v. ASSUME op'.at \notin Filled, op'.at # "swap", data' = <<>>
        PROVE  SInv' /\ Step
    BY <1>v, <1>i DEF Step
  <1>q. ASSUME Live = {} \/ data = <<>> PROVE Step
    <2>1. Stored = {}
      BY <1>q DEF Stored, WholeAt, KindAt
    <2> QED
      BY <2>1 DEF Step
  <1>1. CASE OpenFails
    BY <1>1, <1>f DEF OpenFails, Menu
  <1>2. CASE Initialize
    <2>1. CASE InitTruncData
      BY <2>1, <1>v, <1>m DEF InitTruncData, ExitTorn, Quit, Idle, Points
    <2>2. CASE InitTruncIdx
      BY <2>2, <1>x, <1>v, <1>m DEF InitTruncIdx, Points
    <2>3. CASE InitCount
      <3>1. op'.at = "initHdr" /\ data' = <<Count(0)>>
        BY <2>3, <1>m DEF InitCount, Points
      <3>2. Live = {}
        BY <2>3, <1>t DEF InitCount, SlotsKnown, Live
      <3> QED
        BY <3>1, <3>2, <1>i, <1>q DEF Count
    <2>4. CASE InitIndexHeader
      BY <2>4, <1>f DEF InitIndexHeader, Idle
    <2> QED
      BY <1>2, <2>1, <2>2, <2>3, <2>4 DEF Initialize
  <1>3. CASE Input
    <2>1. ASSUME NEW app, InputHeader(app), op.at \in {"menu", "input"}
          PROVE  SInv' /\ Step
      <3>1. CASE hdr = NoHdr
        BY <2>1, <3>1, <1>f DEF InputHeader, Exit, Quit, Idle
      <3>2. CASE hdr # NoHdr
        <4>1. WriteCount(hdr + 1, app) /\ op'.at = "inIdx" /\ UNCHANGED slots
          BY <2>1, <3>2 DEF InputHeader, Idle
        <4>2. hdr + 1 \in Int
          BY <1>t DEF TypeInv, TypeOK
        <4> QED
          BY <4>1, <4>2, <1>b
      <3> QED
        BY <3>1, <3>2
    <2>2. CASE Add \/ ModifyInput
      BY <2>1, <2>2 DEF Add, ModifyInput, Menu
    <2>3. CASE InputIndexHeader
      BY <2>3, <1>f, <1>m DEF InputIndexHeader, Points
    <2>4. CASE InputSlot
      <3>1. slots' = Append(slots, Len(data)) /\ UNCHANGED data /\ op'.at = "inRoll"
        BY <2>4, <1>m DEF InputSlot, Points
      <3>2. \A k \in Live : k \in Live' /\ slots'[k] = slots[k]
        BY <3>1, <1>s DEF Live
      <3> QED
        BY <2>4, <3>1, <3>2, <1>x, <1>i, <1>k DEF InputSlot
    <2>5. CASE InputRoll
      <3>1. PICK r \in Rolls : data' = Append(data, Roll(r))
        BY <2>5 DEF InputRoll
      <3>2. Roll(r) \in Cells
        BY RollsAssumption DEF Roll, Cells
      <3> QED
        BY <2>5, <3>1, <3>2, <1>o, <1>a, <1>m DEF InputRoll, Points
    <2>6. CASE InputNameLen
      <3>1. NameLen \in Cells
        BY DEF NameLen, Cells
      <3> QED
        BY <2>6, <3>1, <1>o, <1>a, <1>m DEF InputNameLen, Points
    <2>7. CASE InputName
      <3>1. PICK v \in Names : data' = Append(data, Name(v))
        BY <2>7 DEF InputName
      <3>2. Name(v) \in Cells
        BY NamesAssumption DEF Name, Cells
      <3> QED
        BY <2>7, <3>1, <3>2, <1>o, <1>a DEF InputName, Idle
    <2> QED
      BY <1>3, <2>2, <2>3, <2>4, <2>5, <2>6, <2>7 DEF Input
  <1>4. CASE Removal
    <2>1. ASSUME NEW app, DeleteSlot(app)
          PROVE  SInv' /\ Step
      <3>1. op'.at = "delIdx" /\ UNCHANGED data
        BY <2>1 DEF DeleteSlot, Idle
      <3> QED
        BY <3>1, <1>x, <1>i DEF Step
    <2>2. CASE Delete \/ Modify
      BY <2>1, <2>2 DEF Delete, Modify
    <2>3. CASE DeleteIndexHeader
      BY <2>3, <1>f, <1>m DEF DeleteIndexHeader, Points
    <2>4. CASE DeleteCount
      <3>1. op'.at \in {"input", "menu"}
        BY <2>4, <1>m DEF DeleteCount, Idle, Points
      <3> QED
        BY <2>4, <3>1, <1>b, <1>s DEF DeleteCount
    <2> QED
      BY <1>4, <2>2, <2>3, <2>4 DEF Removal
  <1>5. CASE Reading
    <2>1. op'.at \in {"menu", "hang"} /\ UNCHANGED <<data, slots>>
      BY <1>5, <1>m DEF Reading, SearchHangs, ReadFails, PrintStudent, Exit, Quit, Menu, Idle, Points
    <2> QED
      BY <2>1, <1>f
  <1>6. CASE Compaction
    <2>1. ASSUME NEW sorts, CompactRead(sorts)
          PROVE  SInv' /\ Step
      <3>1. op'.at \in {"menu", "undefined", "cIdx"} /\ UNCHANGED <<data, slots>>
        <4>1. UNCHANGED <<data, slots>>
          BY <2>1 DEF CompactRead
        <4>2. PICK n \in CountRead : CompactOverruns(n) \/ CompactExits(n) \/ CompactBuffers(n, sorts)
          BY <2>1 DEF CompactRead
        <4>3. CASE CompactOverruns(n)
          BY <4>1, <4>3, <1>m DEF CompactOverruns, Points
        <4>4. CASE CompactExits(n)
          BY <4>1, <4>4 DEF CompactExits, Exit, Quit, Idle
        <4>5. CASE CompactBuffers(n, sorts)
          BY <4>1, <4>5 DEF CompactBuffers, Idle
        <4> QED
          BY <4>2, <4>3, <4>4, <4>5
      <3>2. op.at = "menu"
        BY <2>1 DEF CompactRead, Menu
      <3> QED
        BY <3>1, <3>2, <1>f
    <2>2. CASE Compact \/ Sort
      BY <2>1, <2>2 DEF Compact, Sort
    <2>3. CASE CompactTruncIdx
      <3>1. op'.at = "cData" /\ op.at = "cIdx" /\ UNCHANGED data
        BY <2>3, <1>m DEF CompactTruncIdx, Points
      <3> QED
        BY <3>1, <1>x, <1>i DEF Step
    <2>4. CASE CompactTruncData
      BY <2>4, <1>v, <1>m DEF CompactTruncData, Points
    <2>5. CASE CompactIndexHeader
      BY <2>5, <1>f, <1>m DEF CompactIndexHeader, Points
    <2>6. CASE CompactSlots
      <3>1. op'.at \in {"menu", "cCount"} /\ data' = <<>>
        BY <2>6, <1>m, <1>x DEF CompactSlots, ExitTorn, Quit, Idle, Points
      <3> QED
        BY <3>1, <1>v
    <2>7. CASE CompactCount
      <3>1. op'.at = "cBody" /\ data' = <<Count(op.n)>>
        BY <2>7, <1>m DEF CompactCount, Points
      <3>2. data = <<>>
        BY <2>7, <1>x DEF CompactCount
      <3> QED
        BY <3>1, <3>2, <1>i, <1>q DEF Count
    <2>8. CASE CompactBody
      <3>1. op'.at \in {"menu", "sort"}
        BY <2>8 DEF CompactBody, Idle
      <3> QED
        BY <2>8, <3>1, <1>a, <1>s DEF CompactBody
    <2> QED
      BY <1>6, <2>2, <2>3, <2>4, <2>5, <2>6, <2>7, <2>8 DEF Compaction
  <1>7. CASE Sorting
    <2>1. CASE SortStep
      <3> DEFINE m == MinIndex(op.i, op.n)
                 i == op.i
      <3>1. op.n \in Nat /\ i \in Nat /\ i <= op.n /\ 1 <= i /\ Len(slots) = op.n
        BY <2>1, <1>s, <1>t DEF SortStep, SlotsKnown, Ops
      <3>2. m \in i..op.n
        BY <3>1, MinIndexRange
      <3>3. op.at = "sort" /\ UNCHANGED data
        BY <2>1 DEF SortStep
      <3>4. Step
        BY <3>3 DEF Step
      <3> HIDE DEF m
      <3>5. CASE m = i
        <4>1. op' = [op EXCEPT !.i = @ + 1]
          BY <2>1, <3>5 DEF SortStep, m
        <4>2. op'.at = "sort"
          BY <4>1, <3>3, <1>s DEF Ops
        <4> QED
          BY <3>3, <3>4, <4>2, <1>x, <1>i
      <3>6. CASE m # i
        <4>1. /\ slots' = [slots EXCEPT ![i] = slots[m]]
              /\ op' = [op EXCEPT !.at = "swap", !.j = m, !.off = slots[i]]
          BY <2>1, <3>6 DEF SortStep, m
        <4>2. op'.at = "swap" /\ op'.j = m /\ op'.i = i /\ op'.n = op.n
          BY <4>1, <1>s DEF Ops
        <4>3. slots'[i] = slots[m] /\ slots'[m] = slots[m]
          BY <3>1, <3>2, <3>6, <4>1, <1>s
        <4>4. i \in 1..op.n
          BY <3>1
        <4> QED
          BY <3>3, <3>4, <3>6, <4>2, <4>3, <4>4, <1>t, <1>x DEF SInv
      <3> QED
        BY <3>5, <3>6
    <2>2. CASE SortSwap
      <3>1. slots' = [slots EXCEPT ![op.j] = op.off] /\ op'.at = "sort" /\ UNCHANGED data
        BY <2>2, <1>s DEF SortSwap, Ops
      <3>2. op.i \in DOMAIN slots /\ op.i # op.j /\ slots[op.i] = slots[op.j]
        BY <2>2, <1>s, <1>t, <1>x DEF SortSwap, SlotsKnown
      <3>3. \A k \in Live : \E m \in Live' : slots'[m] = slots[k]
        <4> SUFFICES ASSUME NEW k \in Live PROVE \E m \in Live' : slots'[m] = slots[k]
          OBVIOUS
        <4>1. CASE k = op.j
          <5>1. slots'[op.i] = slots[k] /\ op.i \in Live'
            BY <3>1, <3>2, <4>1, <1>s DEF Live
          <5> QED
            BY <5>1
        <4>2. CASE k # op.j
          <5>1. slots'[k] = slots[k] /\ k \in Live'
            BY <3>1, <4>2, <1>s DEF Live
          <5> QED
            BY <5>1
        <4> QED
          BY <4>1, <4>2
      <3> QED
        BY <3>1, <3>3, <1>x, <1>i, <1>k
    <2>3. CASE SortEnd
      BY <2>3, <1>f DEF SortEnd, Idle
    <2>4. CASE SortFails
      BY <2>4, <1>f DEF SortFails, ExitTorn, Quit, Idle
    <2> QED
      BY <1>7, <2>1, <2>2, <2>3, <2>4 DEF Sorting
  <1>8. CASE Crash
    BY <1>8, <1>f DEF Crash, ExitTorn, Quit, Idle
  <1>9. CASE UNCHANGED vars
    <2>1. UNCHANGED <<data, slots, op>>
      BY <1>9 DEF vars
    <2>2. SInv'
      BY <2>1, <1>t, <1>x DEF SInv
    <2> QED
      BY <2>1, <2>2, <1>k, <1>l
  <1> QED
    BY <1>1, <1>2, <1>3, <1>4, <1>5, <1>6, <1>7, <1>8, <1>9 DEF Next

(* A whole record with its offset in the index file outlives every step,   *)
(* a kill between any two writes included, in every build: only a deletion *)
(* and the rewriting of options 0, 5 and 7 take it (all of as1_os.c).      *)
THEOREM StoredRecordsSurvive == Spec => RecordsSurvive
  <1>1. SInv /\ [Next]_vars => SInv'
    BY NextSInv
  <1>2. SInv /\ [Next]_vars => Step
    BY NextSInv
  <1> QED
    BY <1>1, <1>2, InitSInv, PTL DEF Spec, RecordsSurvive, Step

-----------------------------------------------------------------------------
(* Compaction and sort, also of files that an option left half-way: the    *)
(* body compaction() collects is a sequence of records whatever it read,   *)
(* and sort() exits before it changes a slot unless it can read a roll     *)
(* number behind every offset.                                             *)

(* Only compaction and sort lead to one of their own points. *)
LEMMA BusySteps ==
    ASSUME TypeInv, [Next]_vars,
           op'.at \in {"cIdx", "cData", "cHdr", "cSlots", "cCount", "cBody", "sort", "swap"}
    PROVE  Compaction \/ Sorting \/ UNCHANGED vars
  <1>s. op \in Ops
    BY DEF TypeInv, TypeOK
  <1>m. ASSUME NEW at \in Points, op' = [op EXCEPT !.at = at]
        PROVE  op'.at = at
    BY <1>m, <1>s, OpMove
  <1> DEFINE Others == {"menu", "initIdx", "initData", "initHdr", "inIdx", "inSlot", "inRoll",
                        "inLen", "inName", "delIdx", "delData", "input", "hang"}
  <1>i. Idle.at \in Others
    BY DEF Idle
  <1>1. ASSUME OpenFails \/ Crash PROVE op'.at \in Others
    BY <1>1, <1>i DEF OpenFails, Menu, Crash, ExitTorn, Quit
  <1>2. ASSUME Initialize PROVE op'.at \in Others
    BY <1>2, <1>i, <1>m DEF Initialize, InitTruncData, InitTruncIdx, InitCount, InitIndexHeader,
                            ExitTorn, Quit, Points
  <1>3. ASSUME Input PROVE op'.at \in Others
    <2>1. ASSUME NEW app, InputHeader(app) PROVE op'.at \in Others
      <3>1. CASE hdr = NoHdr
        BY <2>1, <3>1, <1>i DEF InputHeader, Exit, Quit
      <3>2. CASE hdr # NoHdr
        BY <2>1, <3>2 DEF InputHeader, Idle
      <3> QED
        BY <3>1, <3>2
    <2>2. CASE Add \/ ModifyInput
      BY <2>1, <2>2 DEF Add, ModifyInput
    <2>3. CASE InputIndexHeader \/ InputSlot \/ InputRoll \/ InputNameLen \/ InputName
      BY <2>3, <1>i, <1>m DEF InputIndexHeader, InputSlot, InputRoll, InputNameLen, InputName, Points
    <2> QED
      BY <1>3, <2>2, <2>3 DEF Input
  <1>4. ASSUME Removal PROVE op'.at \in Others
    <2>1. CASE Delete \/ Modify
      BY <2>1 DEF Delete, Modify, DeleteSlot, Idle
    <2>2. CASE DeleteIndexHeader \/ DeleteCount
      BY <2>2, <1>i, <1>m DEF DeleteIndexHeader, DeleteCount, Points
    <2> QED
      BY <1>4, <2>1, <2>2 DEF Removal
  <1>5. ASSUME Reading PROVE op'.at \in Others
    BY <1>5, <1>i, <1>m DEF Reading, SearchHangs, ReadFails, PrintStudent, Exit, Quit, Menu, Points
  <1>6. op'.at \notin Others
    OBVIOUS
  <1> HIDE DEF Others
  <1> QED
    BY <1>1, <1>2, <1>3, <1>4, <1>5, <1>6 DEF Next

(* The m records of the body have room in the count, and their offsets are *)
(* the first of the index file.                                            *)
PackedFor(m) ==
    /\ Packed(op.body, m) /\ m <= op.n
    /\ op.at \in {"cCount", "cBody"} => \A k \in 1..m : slots[k] = 3 * k - 2

PackInv ==
    /\ TypeInv
    /\ Rewriting => \E m \in Nat : PackedFor(m)
    /\ op.at = "cBody" => data = <<Count(op.n)>>

LEMMA InitPackInv == Init => PackInv
  BY InitTypeInv DEF Init, Idle, PackInv, Rewriting

LEMMA NextPackInv == Build # "O0" /\ PackInv /\ [Next]_vars => PackInv'
  <1> SUFFICES ASSUME Build # "O0", PackInv, [Next]_vars PROVE PackInv'
    OBVIOUS
  <1>t. TypeInv /\ TypeInv' /\ SlotsKnown
    BY NextTypeInv DEF PackInv, TypeInv
  <1>s. /\ data \in Seq(Cells) /\ slots \in Seq(Int) /\ op \in Ops /\ op.n \in Int
        /\ op.body \in Seq(Cells)
    BY <1>t DEF TypeInv, TypeOK, Ops
  <1>m. ASSUME NEW at \in Points, op' = [op EXCEPT !.at = at]
        PROVE  op'.at = at /\ op'.n = op.n /\ op'.body = op.body
    BY <1>m, <1>s, OpMove
  <1>o. SUFFICES ASSUME Rewriting' PROVE PackInv'
    BY <1>t DEF PackInv, Rewriting
  <1>b. Rewriting => \E m \in Nat : PackedFor(m)
    BY DEF PackInv
  <1>c. ASSUME op'.at \in {"cIdx", "cData", "cHdr", "cSlots"},
               NEW m \in Nat, Packed(op'.body, m), m <= op'.n
        PROVE  PackInv'
    <2>1. PackedFor(m)'
      BY <1>c DEF PackedFor
    <2> QED
      BY <1>c, <1>t, <2>1 DEF PackInv
  <1>1. ASSUME NEW sorts, CompactRead(sorts) PROVE PackInv'
    <2>1. op.at = "menu"
      BY <1>1 DEF CompactRead, Menu
    <2>2. PICK n \in CountRead : CompactOverruns(n) \/ CompactExits(n) \/ CompactBuffers(n, sorts)
      BY <1>1 DEF CompactRead
    <2>3. ~CompactOverruns(n)
      BY <1>m, <1>o DEF CompactOverruns, Rewriting, Points
    <2>4. ~CompactExits(n)
      BY <1>o DEF CompactExits, Exit, Quit, Idle, Rewriting
    <2>5. FitsBuffers(n) /\ CompactBuffers(n, sorts)
      BY <2>2, <2>3, <2>4 DEF CompactBuffers
    <2>6. PICK left \in [Unread \ Lengths -> Leftovers] :
            op' = [Idle EXCEPT !.at = "cIdx", !.sorts = sorts, !.n = CountAfterReads(n),
                               !.body = PackedBody(left), !.hole = LastDeleted,
                               !.stray = StrayStore(n)]
      BY <2>5 DEF CompactBuffers
    <2>7. op'.at = "cIdx" /\ op'.n = n /\ op'.body = PackedBody(left)
      BY <2>6 DEF Idle, CountAfterReads
    <2>8. Packed(op'.body, Cardinality(Live)) /\ Cardinality(Live) <= op'.n
      BY <2>5, <2>7, <1>s, PackedBodyPacked DEF FitsBuffers
    <2>9. Cardinality(Live) \in Nat
      BY <1>s, LiveFinite
    <2> QED
      BY <2>7, <2>8, <2>9, <1>c
  <1>2. CASE Compact \/ Sort
    BY <1>1, <1>2 DEF Compact, Sort
  <1>3. CASE CompactTruncIdx \/ CompactTruncData \/ CompactIndexHeader
    <2>1. Rewriting /\ op'.at \in {"cData", "cHdr", "cSlots"} /\ op'.n = op.n /\ op'.body = op.body
      BY <1>3, <1>m DEF CompactTruncIdx, CompactTruncData, CompactIndexHeader, Points, Rewriting
    <2> QED
      BY <2>1, <1>b, <1>c DEF PackedFor
  <1>4. CASE CompactSlots
    <2>1. PICK m \in Nat : Packed(op.body, m) /\ m <= op.n
      BY <1>4, <1>b DEF CompactSlots, Rewriting, PackedFor
    <2>2. ~ExitTorn
      BY <1>o DEF ExitTorn, Quit, Idle, Rewriting
    <2>3. /\ op' = [op EXCEPT !.at = "cCount"]
          /\ \E left \in [(OffsetsStored + 1)..op.n -> Leftovers] :
                slots' = [k \in 1..op.n |-> IF k <= OffsetsStored
                                            THEN RecordCells * (k - 1) + 1 ELSE left[k]]
      BY <1>4, <2>2 DEF CompactSlots
    <2>4. op'.at = "cCount" /\ op'.n = op.n /\ op'.body = op.body
      BY <2>3, <1>m DEF Points
    <2>5. m <= OffsetsStored
      <3>1. Len(op.body) = 3 * m
        BY <2>1 DEF Packed
      <3>2. (3 * m) \div 3 = m
        OBVIOUS
      <3> QED
        BY <3>1, <3>2 DEF OffsetsStored, RecordCells
    <2>6. OffsetsStored \in Int
      <3>1. Len(op.body) \in Nat
        BY <1>s, LenProperties
      <3> QED
        BY <3>1 DEF OffsetsStored, RecordCells
    <2>7. \A k \in 1..m : slots'[k] = 3 * k - 2
      <3> DEFINE N == op.n
                 F == OffsetsStored
      <3>1. \A k \in 1..m : k \in 1..N /\ k <= F
        BY <2>1, <2>5, <2>6, <1>s
      <3> HIDE DEF N, F
      <3>2. \A k \in 1..N : k <= F => slots'[k] = RecordCells * (k - 1) + 1
        BY <2>3 DEF N, F
      <3> QED
        BY <3>1, <3>2 DEF RecordCells
    <2>8. PackedFor(m)'
      BY <2>1, <2>4, <2>7 DEF PackedFor
    <2> QED
      BY <2>4, <2>8, <1>t DEF PackInv
  <1>5. CASE CompactCount
    <2>1. PICK m \in Nat : PackedFor(m)
      BY <1>5, <1>b DEF CompactCount, Rewriting
    <2>2. op.at = "cCount" /\ data' = <<Count(op.n)>> /\ UNCHANGED slots
      BY <1>5 DEF CompactCount
    <2>3. op'.at = "cBody" /\ op'.n = op.n /\ op'.body = op.body
      BY <1>5, <1>m DEF CompactCount, Points
    <2>4. PackedFor(m)'
      BY <2>1, <2>2, <2>3 DEF PackedFor
    <2> QED
      BY <2>2, <2>3, <2>4, <1>t DEF PackInv
  <1>6. ~CompactBody
    <2>1. CompactBody => op'.at \in {"menu", "sort"}
      BY DEF CompactBody, Idle
    <2> QED
      BY <2>1, <1>o DEF Rewriting
  <1>7. ~Sorting
    <2>1. ~SortStep /\ ~SortSwap
      BY <1>o, <1>s DEF SortStep, SortSwap, Rewriting, Ops
    <2>2. ~SortFails /\ ~SortEnd
      BY <1>o DEF SortFails, SortEnd, ExitTorn, Quit, Idle, Rewriting
    <2> QED
      BY <2>1, <2>2 DEF Sorting
  <1>8. CASE UNCHANGED vars
    BY <1>8, <1>t DEF vars, PackInv, PackedFor, Rewriting
  <1>9. Compaction \/ UNCHANGED vars
    BY <1>t, <1>o, <1>7, BusySteps DEF Rewriting
  <1> QED
    BY <1>2, <1>3, <1>4, <1>5, <1>6, <1>8, <1>9 DEF Compaction

Packs ==
    op.at = "cBody" /\ crashes' = crashes
        => LET kept == Len(op.body) \div RecordCells
           IN  /\ Len(data') = 1 + RecordCells * kept
               /\ Stored' = {RecordCells * k - 2 : k \in 1..kept}
               /\ ~torn => Len(slots') = kept

LEMMA NextPacks == Build # "O0" /\ PackInv /\ EInv /\ Next => Packs
  <1> SUFFICES ASSUME Build # "O0", PackInv, EInv, Next, op.at = "cBody", crashes' = crashes
               PROVE  Packs
    BY DEF Packs
  <1>t. TypeInv /\ TypeInv' /\ SlotsKnown
    BY NextTypeInv DEF PackInv, TypeInv
  <1>s. /\ op.n \in Int /\ slots \in Seq(Int) /\ crashes \in Nat /\ op \in Ops
        /\ Len(slots) \in Nat /\ DOMAIN slots = 1..Len(slots)
    BY <1>t, BoundsAssumption, LenProperties DEF TypeInv, TypeOK, Ops
  <1>1. CompactBody
    <2>1. ~Crash
      BY <1>s DEF Crash
    <2> QED
      BY <2>1 DEF Next, OpenFails, Initialize, InitTruncData, InitTruncIdx, InitCount,
           InitIndexHeader, Input, Add, ModifyInput, InputIndexHeader, InputSlot,
           InputRoll, InputNameLen, InputName, Removal, Delete, Modify, DeleteSlot,
           DeleteIndexHeader, DeleteCount, Reading, SearchHangs, ReadFails, PrintStudent,
           Compaction, Compact, Sort, CompactRead, CompactTruncIdx, CompactTruncData,
           CompactIndexHeader, CompactSlots, CompactCount, Sorting, SortStep, SortSwap,
           SortFails, SortEnd, Menu
  <1>2. PICK m \in Nat : /\ Packed(op.body, m) /\ m <= op.n
                         /\ \A k \in 1..m : slots[k] = 3 * k - 2
    BY DEF PackInv, PackedFor, Rewriting
  <1>3. data' = <<Count(op.n)>> \o op.body /\ UNCHANGED slots
    BY <1>1 DEF CompactBody, PackInv
  <1>4. /\ Len(data') = 3 * m + 1
        /\ \A k \in 1..m : RecordIn(data', 3 * k - 2)
        /\ \A p \in Int : KindIn(data', p, "roll") => \E k \in 1..m : p = 3 * k - 2
    <2> DEFINE d == <<Count(op.n)>> \o op.body
    <2>1. /\ Len(d) = 3 * m + 1
          /\ \A k \in 1..m : RecordIn(d, 3 * k - 2)
          /\ \A p \in Int : KindIn(d, p, "roll") => \E k \in 1..m : p = 3 * k - 2
      BY <1>2, <1>s, PackedRecords
    <2>2. data' = d
      BY <1>3
    <2> HIDE DEF d
    <2> QED
      BY <2>1, <2>2
  <1>5. Len(op.body) \div RecordCells = m
    <2>1. Len(op.body) = 3 * m
      BY <1>2 DEF Packed
    <2>2. (3 * m) \div 3 = m
      OBVIOUS
    <2> QED
      BY <2>1, <2>2 DEF RecordCells
  <1>6. Len(slots) = op.n
    BY <1>t DEF SlotsKnown
  <1>7. ASSUME NEW k \in 1..m PROVE 3 * k - 2 \in Stored'
    <2>1. k \in DOMAIN slots' /\ slots'[k] = 3 * k - 2
      BY <1>2, <1>3, <1>6, <1>s
    <2>2. 3 * k - 2 # Deleted
      BY DEF Deleted
    <2>3. WholeAt(slots[k])'
      BY <1>4, <2>1 DEF RecordIn, KindIn, WholeAt, KindAt
    <2> QED
      BY <2>1, <2>2, <2>3 DEF Stored, Live
  <1>8. ASSUME NEW k \in Live', WholeAt(slots[k])' PROVE \E j \in 1..m : slots'[k] = 3 * j - 2
    <2>1. slots'[k] \in Int
      BY <1>3, <1>s DEF Live
    <2>2. KindIn(data', slots'[k], "roll")
      BY <1>8 DEF WholeAt, KindAt, KindIn
    <2> QED
      BY <1>4, <2>1, <2>2
  <1>9. Stored' = {3 * k - 2 : k \in 1..m}
    <2>1. \A p \in Stored' : p \in {3 * k - 2 : k \in 1..m}
      BY <1>8 DEF Stored
    <2> QED
      BY <1>7, <2>1
  <1>10. ASSUME ~torn PROVE Len(slots') = m
    <2>1. PICK q \in Nat : Packed(op.body, q) /\ op.n \in Kept(q)
      BY <1>10 DEF EInv, Exact, SoundExact, Rewriting
    <2>2. q = m
      <3>1. Len(op.body) = 3 * m /\ Len(op.body) = 3 * q
        BY <1>2, <2>1 DEF Packed
      <3> QED
        BY <3>1
    <2> QED
      BY <1>3, <1>6, <2>1, <2>2 DEF Kept
  <1> DEFINE kept == Len(op.body) \div RecordCells
  <1>k. kept = m
    BY <1>5
  <1> HIDE DEF kept
  <1>11. Len(data') = 1 + RecordCells * kept
    BY <1>4, <1>k DEF RecordCells
  <1>12. Stored' = {RecordCells * k - 2 : k \in 1..kept}
    BY <1>k, <1>9 DEF RecordCells
  <1>13. ~torn => Len(slots') = kept
    BY <1>k, <1>10
  <1> USE DEF kept
  <1> QED
    BY <1>11, <1>12, <1>13 DEF Packs

(* Where compaction() keeps its count, it leaves the count and the packed  *)
(* records in the data file and nothing else, for any number of records    *)
(* and any holes, also of files that a kill or a failed option left: what  *)
(* slots there are besides those of the records then hold no offset of     *)
(* another record.  If no option ended half-way there are no others        *)
(* (compaction).                                                           *)
THEOREM CompactionAlwaysPacks == Build # "O0" => (Spec => CompactionPacks)
  <1> SUFFICES ASSUME Build # "O0" PROVE Spec => CompactionPacks
    OBVIOUS
  <1>1. PackInv /\ [Next]_vars => PackInv'
    BY NextPackInv
  <1>2. PackInv /\ EInv /\ [Next]_vars => [Packs]_vars
    BY NextPacks
  <1> QED
    BY <1>1, <1>2, InitPackInv, InitEInv, NextEInv, PTL DEF Spec, CompactionPacks, Packs

-----------------------------------------------------------------------------
(* The order sort() leaves.                                                *)

ValueAt(d, p) == d[p + 1].val

(* The slots before i have their final place. *)
SortedTo(d, s, i) ==
    \A k, m \in DOMAIN s :
        k < m /\ k < i /\ ValueAt(d, s[m]) < MinRoll => ValueAt(d, s[k]) <= ValueAt(d, s[m])

AllRead(d, s) == \A k \in DOMAIN s : s[k] + 1 \in DOMAIN d

(* The value behind a slot is a number. *)
LEMMA RollAtInt ==
    ASSUME NEW d \in Seq(Cells), NEW s, AllRead(d, s), NEW k \in DOMAIN s
    PROVE  ValueAt(d, s[k]) \in Int
  <1>1. s[k] + 1 \in DOMAIN d
    BY DEF AllRead
  <1>2. d[s[k] + 1] \in Cells
    BY <1>1, ElementOfSeq, LenProperties
  <1> QED
    BY <1>2 DEF ValueAt, Cells

(* Some slot of start..k has the first of the least values.                *)
LEMMA LeastExists ==
    ASSUME NEW start \in Nat, NEW end \in Nat, start <= end,
           \A k \in start..end : RollAt(k) \in Int
    PROVE  \E q \in start..end : FirstLeast(q, start, end)
  <1> DEFINE Has(k) == \E q \in start..k : FirstLeast(q, start, k)
             Bad == {k \in start..end : ~Has(k)}
  <1>1. Has(start)
    <2>1. start..start = {start}
      OBVIOUS
    <2>2. RollAt(start) <= RollAt(start)
      OBVIOUS
    <2> QED
      BY <2>1, <2>2 DEF FirstLeast
  <1>2. ASSUME NEW k \in start..end, k # start, Has(k - 1) PROVE Has(k)
    <2>1. PICK q \in start..(k - 1) : FirstLeast(q, start, k - 1)
      BY <1>2
    <2>2. \A m \in start..k : m = k \/ m \in start..(k - 1)
      BY <1>2
    <2>3. /\ q \in start..k /\ k \in start..k /\ q < k
          /\ q \in start..end /\ \A m \in start..k : m \in start..end
      BY <1>2
    <2>4. CASE RollAt(q) <= RollAt(k)
      <3>1. FirstLeast(q, start, k)
        BY <2>1, <2>2, <2>3, <2>4 DEF FirstLeast
      <3> QED
        BY <2>3, <3>1
    <2>5. CASE ~(RollAt(q) <= RollAt(k))
      <3>1. RollAt(k) < RollAt(q) /\ RollAt(k) \in Int /\ RollAt(q) \in Int
        BY <2>3, <2>5
      <3>2. \A m \in start..(k - 1) : RollAt(k) < RollAt(m)
        BY <2>1, <2>3, <3>1 DEF FirstLeast
      <3>3. FirstLeast(k, start, k)
        BY <2>2, <2>3, <3>1, <3>2 DEF FirstLeast
      <3> QED
        BY <2>3, <3>3
    <2> QED
      BY <2>4, <2>5
  <1>3. ASSUME Bad # {} PROVE FALSE
    <2>1. Bad \subseteq Nat
      OBVIOUS
    <2>2. PICK k \in Bad : \A l \in Bad : k <= l
      <3> HIDE DEF Bad
      <3> QED
        BY <1>3, <2>1, LeastNatural
    <2>3. k \in start..end /\ ~Has(k)
      BY <2>2
    <2>4. k # start
      BY <1>1, <2>3
    <2>5. k - 1 \in start..end /\ ~(k <= k - 1)
      BY <2>3, <2>4
    <2>6. k - 1 \notin Bad
      <3> HIDE DEF Bad
      <3> QED
        BY <2>2, <2>5
    <2>7. Has(k - 1)
      BY <2>5, <2>6
    <2> HIDE DEF Has
    <2> QED
      BY <1>2, <2>3, <2>4, <2>7
  <1>4. end \in start..end
    OBVIOUS
  <1>5. Has(end)
    BY <1>3, <1>4
  <1> QED
    BY <1>5

(* index_of_min() finds a least roll number, if one is below MIN_ROLL.     *)
LEMMA MinIndexLeast ==
    ASSUME NEW start \in Nat, NEW end \in Nat, start <= end,
           \A k \in start..end : RollAt(k) \in Int,
           NEW q \in start..end, RollAt(q) < MinRoll
    PROVE  RollAt(MinIndex(start, end)) <= RollAt(q)
  <1>1. PICK l \in start..end : FirstLeast(l, start, end)
    BY LeastExists
  <1>2. RollAt(l) <= RollAt(q)
    BY <1>1 DEF FirstLeast
  <1>3. RollAt(l) < MinRoll
    BY <1>2, RollsAssumption
  <1> DEFINE Good(k) == RollAt(k) < MinRoll /\ FirstLeast(k, start, end)
  <1>4. \E k \in start..end : Good(k)
    BY <1>1, <1>3
  <1>5. MinIndex(start, end) = CHOOSE k \in start..end : Good(k)
    BY <1>4 DEF MinIndex
  <1> HIDE DEF Good
  <1>6. Good(MinIndex(start, end))
    BY <1>4, <1>5
  <1> QED
    BY <1>6 DEF Good, FirstLeast

(* One step of sort() puts slot i in its place.                            *)
LEMMA SortedStep ==
    ASSUME NEW d, NEW s \in Seq(Int), NEW i \in DOMAIN s, NEW m \in DOMAIN s, i <= m,
           SortedTo(d, s, i),
           \A q \in DOMAIN s : i <= q /\ ValueAt(d, s[q]) < MinRoll
             => ValueAt(d, s[m]) <= ValueAt(d, s[q])
    PROVE  SortedTo(d, [[s EXCEPT ![i] = s[m]] EXCEPT ![m] = s[i]], i + 1)
  <1> DEFINE s2 == [[s EXCEPT ![i] = s[m]] EXCEPT ![m] = s[i]]
             pi == [k \in DOMAIN s |-> IF k = i THEN m ELSE IF k = m THEN i ELSE k]
  <1>1. DOMAIN s2 = DOMAIN s /\ \A k \in DOMAIN s : pi[k] \in DOMAIN s /\ s2[k] = s[pi[k]]
    OBVIOUS
  <1>2. \A k \in DOMAIN s : k \in Nat
    BY LenProperties
  <1>3. \A k \in DOMAIN s : (k < i => pi[k] = k) /\ (i < k => i <= pi[k])
    BY <1>2
  <1>4. pi[i] = m
    OBVIOUS
  <1>5. \A k, l \in DOMAIN s : k < i /\ k < l => k < pi[l]
    BY <1>2
  <1> HIDE DEF s2, pi
  <1>6. ASSUME NEW k \in DOMAIN s, NEW l \in DOMAIN s, k < l, k < i + 1,
               ValueAt(d, s2[l]) < MinRoll
        PROVE  ValueAt(d, s2[k]) <= ValueAt(d, s2[l])
    <2>1. CASE k < i
      <3>1. s2[l] = s[pi[l]] /\ s2[k] = s[k] /\ pi[l] \in DOMAIN s /\ k < pi[l]
        BY <1>1, <1>3, <1>5, <1>6, <2>1
      <3>2. ValueAt(d, s[pi[l]]) < MinRoll
        BY <1>6, <3>1
      <3> QED
        BY <2>1, <3>1, <3>2 DEF SortedTo
    <2>2. CASE k = i
      <3>1. s2[l] = s[pi[l]] /\ s2[k] = s[m] /\ pi[l] \in DOMAIN s /\ i <= pi[l]
        BY <1>1, <1>3, <1>4, <1>6, <2>2
      <3> QED
        BY <1>6, <3>1
    <2> QED
      BY <1>2, <1>6, <2>1, <2>2
  <1>7. SortedTo(d, s2, i + 1)
    BY <1>1, <1>6 DEF SortedTo
  <1> QED
    BY <1>7 DEF s2

(* What is read behind each offset is a cell from the first step of sort() *)
(* on: index_of_min(), which reads all of them, has not exited.            *)
SortInv ==
    /\ TypeInv
    /\ op.at = "sort" => (op.i > 1 => AllRead(data, slots)) /\ SortedTo(data, slots, op.i)
    /\ op.at = "swap" => LET s == [slots EXCEPT ![op.j] = op.off]
                         IN  AllRead(data, s) /\ SortedTo(data, s, op.i + 1)

LEMMA InitSortInv == Init => SortInv
  BY InitTypeInv DEF Init, Idle, SortInv

LEMMA NextSortInv == SortInv /\ [Next]_vars => SortInv'
  <1> SUFFICES ASSUME SortInv, [Next]_vars PROVE SortInv'
    OBVIOUS
  <1>t. TypeInv /\ TypeInv' /\ SlotsKnown /\ SlotsKnown'
    BY NextTypeInv DEF SortInv, TypeInv
  <1>s. /\ data \in Seq(Cells) /\ slots \in Seq(Int) /\ op \in Ops /\ op.n \in Int /\ op.i \in Nat
        /\ slots' \in Seq(Int)
    BY <1>t DEF TypeInv, TypeOK, Ops
  <1>x. /\ op.at = "sort" => (op.i > 1 => AllRead(data, slots)) /\ SortedTo(data, slots, op.i)
        /\ op.at = "swap" => LET s == [slots EXCEPT ![op.j] = op.off]
                             IN  AllRead(data, s) /\ SortedTo(data, s, op.i + 1)
    BY DEF SortInv
  <1>o. SUFFICES ASSUME op'.at \in {"sort", "swap"} PROVE SortInv'
    BY <1>t DEF SortInv
  <1>m. ASSUME NEW at \in Points, op' = [op EXCEPT !.at = at]
        PROVE  op'.at = at
    BY <1>m, <1>s, OpMove
  <1>1. CASE Compaction
    <2>1. ASSUME NEW sorts, CompactRead(sorts) PROVE FALSE
      <3>1. PICK n \in CountRead :
              CompactOverruns(n) \/ CompactExits(n) \/ CompactBuffers(n, sorts)
        BY <2>1 DEF CompactRead
      <3>2. ~CompactOverruns(n)
        BY <1>m, <1>o DEF CompactOverruns, Points
      <3>3. ~CompactExits(n)
        BY <1>o DEF CompactExits, Exit, Quit, Idle
      <3>4. ~CompactBuffers(n, sorts)
        BY <1>o DEF CompactBuffers, Idle
      <3> QED
        BY <3>1, <3>2, <3>3, <3>4
    <2>2. ~CompactTruncIdx /\ ~CompactTruncData /\ ~CompactIndexHeader /\ ~CompactCount
      BY <1>m, <1>o DEF CompactTruncIdx, CompactTruncData, CompactIndexHeader, CompactCount, Points
    <2>3. ~CompactSlots
      BY <1>m, <1>o DEF CompactSlots, ExitTorn, Quit, Idle, Points
    <2>4. CompactBody
      BY <1>1, <2>1, <2>2, <2>3 DEF Compaction, Compact, Sort
    <2>5. op'.at = "sort" /\ op'.i = 1
      BY <1>o, <2>4 DEF CompactBody, Idle
    <2>6. SortedTo(data', slots', 1)
      <3>1. \A k \in DOMAIN slots' : ~(k < 1)
        BY <1>s, LenProperties
      <3> QED
        BY <3>1 DEF SortedTo
    <2> QED
      BY <2>5, <2>6, <1>t DEF SortInv
  <1>2. CASE SortStep
    <2> DEFINE m == MinIndex(op.i, op.n)
               i == op.i
               s2 == [[slots EXCEPT ![i] = slots[m]] EXCEPT ![m] = slots[i]]
    <2>1. op.n \in Nat /\ i \in Nat /\ i <= op.n /\ 1 <= i /\ Len(slots) = op.n
      BY <1>2, <1>s, <1>t DEF SortStep, SlotsKnown
    <2>2. m \in i..op.n
      BY <2>1, MinIndexRange
    <2>3. m \in DOMAIN slots /\ i \in DOMAIN slots /\ i <= m
      BY <2>1, <2>2, <1>s
    <2>4. op.at = "sort" /\ UNCHANGED data /\ SortReads /\ SortedTo(data, slots, i)
      BY <1>2, <1>x DEF SortStep
    <2>5. AllRead(data, slots)
      <3>1. CASE i > 1
        BY <3>1, <2>4, <1>x
      <3>2. CASE ~(i > 1)
        <4>1. \A k \in DOMAIN slots : k \in op.i..op.n
          BY <3>2, <2>1, <1>s
        <4> QED
          BY <4>1, <2>4 DEF SortReads, AllRead
      <3> QED
        BY <3>1, <3>2
    <2>6. \A k \in DOMAIN slots : RollAt(k) \in Int /\ RollAt(k) = ValueAt(data, slots[k])
      BY <2>5, <1>s, RollAtInt DEF RollAt, ValueAt
    <2>7. \A q \in DOMAIN slots : i <= q /\ ValueAt(data, slots[q]) < MinRoll
            => ValueAt(data, slots[m]) <= ValueAt(data, slots[q])
      <3>1. \A k \in i..op.n : k \in DOMAIN slots
        BY <2>1, <1>s
      <3>2. \A q \in DOMAIN slots : i <= q => q \in i..op.n
        BY <2>1, <1>s
      <3>3. \A q \in i..op.n : RollAt(q) < MinRoll => RollAt(m) <= RollAt(q)
        BY <2>1, <2>6, <3>1, MinIndexLeast
      <3> HIDE DEF m
      <3> QED
        BY <2>3, <2>6, <3>2, <3>3
    <2> HIDE DEF m
    <2>8. SortedTo(data, s2, i + 1)
      BY <2>3, <2>4, <2>7, <1>s, SortedStep
    <2>9. AllRead(data, s2)
      BY <2>3, <2>5, <1>s DEF AllRead
    <2>10. CASE m = i
      <3>1. op' = [op EXCEPT !.i = @ + 1] /\ slots' = slots
        BY <1>2, <2>10 DEF SortStep, m
      <3>2. op'.at = "sort" /\ op'.i = i + 1
        BY <2>4, <3>1, <1>s DEF Ops
      <3>3. s2 = slots
        BY <2>3, <2>10, <1>s
      <3> HIDE DEF s2
      <3> QED
        BY <2>4, <2>5, <2>8, <3>1, <3>2, <3>3, <1>t DEF SortInv
    <2>11. CASE m # i
      <3>1. /\ slots' = [slots EXCEPT ![i] = slots[m]]
            /\ op' = [op EXCEPT !.at = "swap", !.j = m, !.off = slots[i]]
        BY <1>2, <2>11 DEF SortStep, m
      <3>2. op'.at = "swap" /\ op'.j = m /\ op'.off = slots[i] /\ op'.i = i
        BY <3>1, <1>s DEF Ops
      <3>3. [slots' EXCEPT ![op'.j] = op'.off] = s2
        BY <3>1, <3>2
      <3> HIDE DEF s2
      <3> QED
        BY <2>4, <2>8, <2>9, <3>2, <3>3, <1>t DEF SortInv
    <2> QED
      BY <2>10, <2>11
  <1>3. CASE SortSwap
    <2>1. /\ op.at = "swap" /\ slots' = [slots EXCEPT ![op.j] = op.off]
          /\ op'.at = "sort" /\ op'.i = op.i + 1 /\ UNCHANGED data
      BY <1>3, <1>s DEF SortSwap, Ops
    <2>2. AllRead(data, slots') /\ SortedTo(data, slots', op.i + 1)
      BY <2>1, <1>x
    <2> QED
      BY <2>1, <2>2, <1>t DEF SortInv
  <1>4. ~SortFails /\ ~SortEnd
    BY <1>o DEF SortFails, SortEnd, ExitTorn, Quit, Idle
  <1>5. CASE UNCHANGED vars
    <2>1. UNCHANGED <<data, slots, op>>
      BY <1>5 DEF vars
    <2>2. (op.at = "sort" => (op.i > 1 => AllRead(data, slots)) /\ SortedTo(data, slots, op.i))'
      BY <1>x, <2>1 DEF AllRead, SortedTo
    <2>3. (op.at = "swap" => LET s == [slots EXCEPT ![op.j] = op.off]
                             IN  AllRead(data, s) /\ SortedTo(data, s, op.i + 1))'
      BY <1>x, <2>1 DEF AllRead, SortedTo
    <2> QED
      BY <1>t, <2>2, <2>3 DEF SortInv
  <1>6. Compaction \/ Sorting \/ UNCHANGED vars
    BY <1>t, <1>o, BusySteps
  <1> QED
    BY <1>1, <1>2, <1>3, <1>4, <1>5, <1>6 DEF Sorting

(* Where sort() is done, the roll numbers below MIN_ROLL come first and    *)
(* ascend: in every build, for any number of records, any roll numbers and *)
(* MIN_ROLL, and on any files a kill or a failed option left (sort,        *)
(* index_of_min).  Of those from MIN_ROLL on, which the menu promises to   *)
(* sort as well, the order says nothing.                                   *)
SortedAtEnd ==
    op.at = "sort" /\ op.i > op.n
        => \A k, m \in DOMAIN slots : k < m /\ RollAt(m) < MinRoll => RollAt(k) <= RollAt(m)

THEOREM SortAlwaysOrders == Spec => []SortedAtEnd
  <1>1. SortInv => SortedAtEnd
    <2> SUFFICES ASSUME SortInv, op.at = "sort", op.i > op.n
                 PROVE  \A k, m \in DOMAIN slots :
                          k < m /\ RollAt(m) < MinRoll => RollAt(k) <= RollAt(m)
      BY DEF SortedAtEnd
    <2>1. slots \in Seq(Int) /\ Len(slots) = op.n /\ op.i \in Nat /\ SortedTo(data, slots, op.i)
      BY DEF SortInv, TypeInv, TypeOK, SlotsKnown, Ops
    <2>2. \A k \in DOMAIN slots : k < op.i
      BY <2>1
    <2> QED
      BY <2>1, <2>2 DEF SortedTo, RollAt, ValueAt
  <1> QED
    BY <1>1, NextSortInv, InitSortInv, PTL DEF Spec

-----------------------------------------------------------------------------
(* The numbers of a finite set in order.                                   *)

LEMMA BelowLess ==
    ASSUME NEW N \in Nat, NEW set \in SUBSET (1..N), NEW k \in set, NEW l \in Nat, k < l
    PROVE  Cardinality(Below(set, k)) + 1 <= Cardinality(Below(set, l))
  <1>0. IsFiniteSet(Below(set, k)) /\ IsFiniteSet(Below(set, l))
        /\ Cardinality(Below(set, k)) \in Nat
    BY BelowFinite
  <1>1. k \notin Below(set, k)
    <2>1. ~(k < k)
      OBVIOUS
    <2> QED
      BY <2>1 DEF Below
  <1>2. Cardinality(Below(set, k) \cup {k}) = Cardinality(Below(set, k)) + 1
    BY <1>0, <1>1, FS_AddElement
  <1>3. Below(set, k) \cup {k} \subseteq Below(set, l)
    <2>1. \A m \in set : m < k => m < l
      OBVIOUS
    <2> QED
      BY <2>1, Zenon DEF Below
  <1>4. Cardinality(Below(set, k) \cup {k}) <= Cardinality(Below(set, l))
    BY <1>0, <1>3, FS_Subset
  <1> QED
    BY <1>2, <1>4

LEMMA NthIs ==
    ASSUME NEW N \in Nat, NEW set \in SUBSET (1..N), NEW k \in set,
           NEW j, j = Cardinality(Below(set, k)) + 1
    PROVE  j \in 1..Cardinality(set) /\ Nth(set, j) = k
  <1>0. /\ Cardinality(set) \in Nat /\ k \in Nat /\ \A q : Cardinality(Below(set, q)) \in Nat
        /\ \A q \in set : q \in Nat
    <2>1. Cardinality(set) \in Nat /\ \A q : Cardinality(Below(set, q)) \in Nat
      BY BelowFinite
    <2> QED
      BY <2>1
  <1>1. j \in 1..Cardinality(set)
    <2>1. Below(set, N + 1) = set /\ k < N + 1 /\ N + 1 \in Nat
      BY BelowStep
    <2>2. Cardinality(Below(set, k)) + 1 <= Cardinality(set)
      BY <2>1, BelowLess
    <2> QED
      BY <1>0, <2>2
  <1>2. Nth(set, j) \in set /\ Cardinality(Below(set, Nth(set, j))) = j - 1
    BY <1>1, NthIn
  <1>3. ASSUME NEW q \in set, Cardinality(Below(set, q)) = j - 1 PROVE q = k
    <2>0. Cardinality(Below(set, q)) = Cardinality(Below(set, k))
      BY <1>0, <1>3
    <2>1. ASSUME q < k PROVE FALSE
      <3>1. Cardinality(Below(set, q)) + 1 <= Cardinality(Below(set, k))
        BY <1>0, <2>1, BelowLess
      <3> QED
        BY <1>0, <2>0, <3>1
    <2>2. ASSUME k < q PROVE FALSE
      <3>1. Cardinality(Below(set, k)) + 1 <= Cardinality(Below(set, q))
        BY <1>0, <2>2, BelowLess
      <3> QED
        BY <1>0, <2>0, <3>1
    <2> QED
      BY <1>0, <2>1, <2>2
  <1> QED
    BY <1>1, <1>2, <1>3

LEMMA NthOrder ==
    ASSUME NEW N \in Nat, NEW set \in SUBSET (1..N),
           NEW i \in 1..Cardinality(set), NEW j \in 1..Cardinality(set), i < j
    PROVE  Nth(set, i) < Nth(set, j)
  <1> DEFINE k == Nth(set, i)
             l == Nth(set, j)
  <1>1. /\ k \in set /\ Cardinality(Below(set, k)) = i - 1
        /\ l \in set /\ Cardinality(Below(set, l)) = j - 1
    BY NthIn
  <1>2. Cardinality(set) \in Nat
    BY BelowFinite
  <1> HIDE DEF k, l
  <1>3. k # l /\ k \in Nat /\ l \in Nat
    BY <1>1, <1>2
  <1>4. ASSUME l < k PROVE FALSE
    <2>1. Cardinality(Below(set, l)) + 1 <= Cardinality(Below(set, k))
      BY <1>1, <1>3, <1>4, BelowLess
    <2> QED
      BY <1>1, <1>2, <2>1
  <1>5. k < l
    BY <1>3, <1>4
  <1> QED
    BY <1>5 DEF k, l

LEMMA NthInterval ==
    ASSUME NEW n \in Nat, NEW j \in 1..n
    PROVE  Nth(1..n, j) = j
  <1>1. Below(1..n, j) = 1..(j - 1)
    BY DEF Below
  <1>2. Cardinality(1..(j - 1)) = j - 1
    BY FS_Interval
  <1>3. j = Cardinality(Below(1..n, j)) + 1 /\ 1..n \in SUBSET (1..n)
    BY <1>1, <1>2
  <1> QED
    BY <1>3, NthIs

LEMMA NthAdd ==
    ASSUME NEW N \in Nat, NEW set \in SUBSET (1..N), NEW new,
           \A k : k \in new <=> k \in set \/ k = N + 1
    PROVE  /\ Cardinality(new) = Cardinality(set) + 1
           /\ Nth(new, Cardinality(set) + 1) = N + 1
           /\ \A j \in 1..Cardinality(set) : Nth(new, j) = Nth(set, j)
  <1>0. IsFiniteSet(set) /\ Cardinality(set) \in Nat
    BY BelowFinite
  <1>1. Cardinality(new) = Cardinality(set) + 1
    <2>1. N + 1 \notin set /\ new = set \cup {N + 1}
      OBVIOUS
    <2> QED
      BY <1>0, <2>1, FS_AddElement
  <1>2. N + 1 \in Nat /\ new \in SUBSET (1..(N + 1)) /\ N + 1 \in new
    <2>1. \A k \in set : k \in 1..(N + 1)
      OBVIOUS
    <2>2. N + 1 \in 1..(N + 1)
      OBVIOUS
    <2>3. \A k \in new : k \in 1..(N + 1)
      BY <2>1, <2>2
    <2> QED
      BY <2>3
  <1>3. Below(new, N + 1) = set
    <2>1. (\A k \in set : k < N + 1) /\ ~(N + 1 < N + 1)
      OBVIOUS
    <2> QED
      BY <2>1, Zenon DEF Below
  <1>4. ASSUME NEW j \in 1..Cardinality(set) PROVE Nth(new, j) = Nth(set, j)
    <2> DEFINE k == Nth(set, j)
    <2>1. k \in set /\ Cardinality(Below(set, k)) = j - 1
      BY NthIn
    <2> HIDE DEF k
    <2>2. ~(N + 1 < k)
      BY <2>1
    <2>3. Below(new, k) = Below(set, k) /\ k \in new
      BY <2>1, <2>2, Zenon DEF Below
    <2>4. j = Cardinality(Below(new, k)) + 1
      BY <1>0, <2>1, <2>3
    <2>5. Nth(new, j) = k
      BY <1>2, <2>3, <2>4, NthIs
    <2> QED
      BY <2>5 DEF k
  <1>5. Nth(new, Cardinality(set) + 1) = N + 1
    BY <1>2, <1>3, NthIs
  <1> QED
    BY <1>1, <1>4, <1>5

LEMMA NthRemove ==
    ASSUME NEW N \in Nat, NEW set \in SUBSET (1..N), NEW p \in 1..Cardinality(set),
           NEW new, \A k : k \in new <=> k \in set /\ k # Nth(set, p)
    PROVE  /\ Cardinality(new) = Cardinality(set) - 1
           /\ \A j \in 1..(Cardinality(set) - 1) :
                Nth(new, j) = IF j < p THEN Nth(set, j) ELSE Nth(set, j + 1)
  <1> DEFINE x == Nth(set, p)
  <1>0. IsFiniteSet(set) /\ Cardinality(set) \in Nat /\ \A k \in set : k \in Nat
    <2>1. IsFiniteSet(set) /\ Cardinality(set) \in Nat
      BY BelowFinite
    <2>2. \A k \in 1..N : k \in Nat
      OBVIOUS
    <2> QED
      BY <2>1, <2>2
  <1>2. p \in 1..Cardinality(set) /\ Nth(set, p) = x /\ x \in set
    BY NthIn
  <1>x. \A k : k \in new <=> k \in set /\ k # x
    OBVIOUS
  <1> HIDE DEF x
  <1>1. Cardinality(new) = Cardinality(set) - 1 /\ new \in SUBSET (1..N)
    <2>1. new = set \ {x}
      BY <1>x
    <2> QED
      BY <1>0, <1>2, <2>1, FS_RemoveElement
  <1>3. ASSUME NEW j \in 1..(Cardinality(set) - 1)
        PROVE  Nth(new, j) = IF j < p THEN Nth(set, j) ELSE Nth(set, j + 1)
    <2>1. CASE j < p
      <3> DEFINE k == Nth(set, j)
      <3>1. j \in 1..Cardinality(set)
        BY <1>0
      <3>2. k \in set /\ Cardinality(Below(set, k)) = j - 1
        BY <3>1, NthIn
      <3>3. k < x
        BY <1>2, <2>1, <3>1, NthOrder
      <3> HIDE DEF k
      <3>4. k # x /\ ~(x < k)
        BY <1>0, <1>2, <3>2, <3>3
      <3>5. k \in new /\ Below(new, k) = Below(set, k)
        BY <1>x, <3>2, <3>4, Zenon DEF Below
      <3>6. j = Cardinality(Below(new, k)) + 1
        BY <1>0, <3>2, <3>5
      <3>7. Nth(new, j) = k
        BY <1>1, <3>5, <3>6, NthIs, ZenonT(60)
      <3> QED
        BY <2>1, <3>7 DEF k
    <2>2. CASE ~(j < p)
      <3> DEFINE k == Nth(set, j + 1)
      <3>1. j + 1 \in 1..Cardinality(set) /\ p < j + 1 /\ (j + 1) - 1 = j
        BY <1>0, <1>2, <2>2
      <3>2. k \in set /\ Cardinality(Below(set, k)) = j
        BY <3>1, NthIn
      <3>3. x < k
        BY <1>2, <3>1, NthOrder
      <3> HIDE DEF k
      <3>4. k # x
        BY <1>0, <3>2, <3>3
      <3>5. k \in new /\ Below(new, k) = Below(set, k) \ {x} /\ x \in Below(set, k)
        BY <1>x, <1>2, <3>2, <3>3, <3>4, Zenon DEF Below
      <3>6. Cardinality(Below(new, k)) = j - 1
        <4>1. IsFiniteSet(Below(set, k))
          BY BelowFinite
        <4> QED
          BY <3>2, <3>5, <4>1, FS_RemoveElement
      <3>7. j = Cardinality(Below(new, k)) + 1
        BY <1>0, <3>6
      <3>8. Nth(new, j) = k
        BY <1>1, <3>5, <3>7, NthIs, ZenonT(60)
      <3> QED
        BY <2>2, <3>8 DEF k
    <2> QED
      BY <2>1, <2>2
  <1> QED
    BY <1>1, <1>2, <1>3

-----------------------------------------------------------------------------
(* The table of a file of cells d with the offsets s.                      *)

Rec(d, p)     == [roll |-> d[p + 1].val, name |-> d[p + 3].val]
Wholes(d, s)  == {k \in DOMAIN s : RecordIn(d, s[k])}
TableOf(d, s) == [j \in 1..Cardinality(Wholes(d, s)) |-> Rec(d, s[Nth(Wholes(d, s), j)])]
BodyTable(b)  == [j \in 1..(Len(b) \div 3) |-> Rec(b, 3 * (j - 1))]
AnyRecord     == [roll : Int, name : Int]

(* What Remove and Exchange of the table make of t. *)
Without(t, p)   == SubSeq(t, 1, p - 1) \o SubSeq(t, p + 1, Len(t))
Swapped(t, i, m) == [t EXCEPT ![i] = t[m], ![m] = t[i]]

LEMMA TableIs ==
    /\ Rewriting => Table = BodyTable(op.body)
    /\ ~Rewriting => Table = TableOf(data, Shown)
  BY DEF Table, BodyTable, TableOf, Rec, Wholes, Whole, WholeAt, KindAt, RecordIn, KindIn,
         RecordCells

LEMMA WholesIn ==
    ASSUME NEW d, NEW s \in Seq(Int)
    PROVE  /\ Len(s) \in Nat /\ Wholes(d, s) \in SUBSET (1..Len(s))
           /\ Cardinality(Wholes(d, s)) \in Nat
           /\ \A j \in 1..Cardinality(Wholes(d, s)) : Nth(Wholes(d, s), j) \in Wholes(d, s)
  <1>1. Len(s) \in Nat /\ Wholes(d, s) \in SUBSET (1..Len(s))
    BY LenProperties DEF Wholes
  <1> QED
    BY <1>1, BelowFinite, NthIn

(* Where a record is whole, its cells are cells. *)
LEMMA RecordCellsIn ==
    ASSUME NEW d, NEW p \in Int, RecordIn(d, p)
    PROVE  /\ p + 1 \in DOMAIN d /\ d[p + 1].kind = "roll"
           /\ p + 2 \in DOMAIN d /\ d[p + 2].kind = "len"
           /\ p + 3 \in DOMAIN d /\ d[p + 3].kind = "name"
  <1>1. p + 1 + 1 = p + 2 /\ p + 2 + 1 = p + 3
    OBVIOUS
  <1> QED
    BY <1>1 DEF RecordIn, KindIn

LEMMA TableType ==
    ASSUME NEW d \in Seq(Cells), NEW s \in Seq(Int)
    PROVE  TableOf(d, s) \in Seq(AnyRecord) /\ Len(TableOf(d, s)) = Cardinality(Wholes(d, s))
  <1> DEFINE K == Wholes(d, s)
  <1>1. Cardinality(K) \in Nat
    BY WholesIn
  <1>2. ASSUME NEW k \in K PROVE Rec(d, s[k]) \in AnyRecord
    <2>1. s[k] \in Int /\ RecordIn(d, s[k])
      BY DEF Wholes, Deleted
    <2>2. s[k] + 1 \in DOMAIN d /\ s[k] + 3 \in DOMAIN d
      BY <2>1, RecordCellsIn
    <2>3. d[s[k] + 1] \in Cells /\ d[s[k] + 3] \in Cells
      BY <2>2, ElementOfSeq, LenProperties
    <2>4. d[s[k] + 1].val \in Int /\ d[s[k] + 3].val \in Int
      BY <2>3 DEF Cells
    <2> QED
      BY <2>4 DEF Rec, AnyRecord
  <1>3. \A j \in 1..Cardinality(K) : Rec(d, s[Nth(K, j)]) \in AnyRecord
    BY <1>2, WholesIn
  <1> HIDE DEF K
  <1>4. /\ [j \in 1..Cardinality(K) |-> Rec(d, s[Nth(K, j)])] \in Seq(AnyRecord)
        /\ Len([j \in 1..Cardinality(K) |-> Rec(d, s[Nth(K, j)])]) = Cardinality(K)
    BY <1>1, <1>3
  <1> QED
    BY <1>4 DEF K, TableOf

LEMMA TableKept ==
    ASSUME NEW d, NEW d2, NEW s \in Seq(Int), NEW s2 \in Seq(Int),
           Wholes(d2, s2) = Wholes(d, s),
           \A k \in Wholes(d, s) : Rec(d2, s2[k]) = Rec(d, s[k])
    PROVE  TableOf(d2, s2) = TableOf(d, s)
  <1>1. \A j \in 1..Cardinality(Wholes(d, s)) : Nth(Wholes(d, s), j) \in Wholes(d, s)
    BY WholesIn
  <1> QED
    BY <1>1 DEF TableOf

LEMMA TableEmpty ==
    ASSUME NEW d, NEW s, \A k \in DOMAIN s : ~RecordIn(d, s[k])
    PROVE  TableOf(d, s) = <<>>
  <1>1. Wholes(d, s) = {}
    BY DEF Wholes
  <1>2. Cardinality(Wholes(d, s)) = 0
    BY <1>1, FS_EmptySet
  <1> QED
    BY <1>2 DEF TableOf

LEMMA TableCount ==
    ASSUME NEW d \in Seq(Cells), NEW u, Starts(d, u), NEW s \in Seq(Int),
           NEW d2, DOMAIN d2 = DOMAIN d, d2[1].kind = "count",
           \A i \in DOMAIN d \ {1} : d2[i] = d[i]
    PROVE  TableOf(d2, s) = TableOf(d, s)
  <1>1. 1 \in DOMAIN d /\ d[1].kind = "count"
    BY EmptySeq, LenProperties DEF Starts, Count
  <1>2. DOMAIN d2 = DOMAIN d /\ d2[1].kind = "count" /\ \A i \in DOMAIN d \ {1} : d2[i] = d[i]
    OBVIOUS
  <1>3. \A p, kind : kind # "count" => (KindIn(d2, p, kind) <=> KindIn(d, p, kind))
    BY <1>1, <1>2 DEF KindIn
  <1>4. \A p : RecordIn(d2, p) <=> RecordIn(d, p)
    BY <1>3 DEF RecordIn
  <1>5. Wholes(d2, s) = Wholes(d, s)
    BY <1>4 DEF Wholes
  <1>6. ASSUME NEW k \in Wholes(d, s) PROVE Rec(d2, s[k]) = Rec(d, s[k])
    <2>1. s[k] \in Int /\ RecordIn(d, s[k])
      BY DEF Wholes, Deleted
    <2>2. /\ s[k] + 1 \in DOMAIN d /\ d[s[k] + 1].kind = "roll"
          /\ s[k] + 3 \in DOMAIN d /\ d[s[k] + 3].kind = "name"
      BY <2>1, RecordCellsIn
    <2>3. d2[s[k] + 1] = d[s[k] + 1] /\ d2[s[k] + 3] = d[s[k] + 3]
      BY <1>1, <1>2, <2>2
    <2> QED
      BY <2>3 DEF Rec
  <1> QED
    BY <1>5, <1>6, TableKept

(* A cell at the end that is no name completes no record. *)
LEMMA TableGrow ==
    ASSUME NEW d \in Seq(Cells), NEW x \in Cells, x.kind # "name", NEW s \in Seq(Int)
    PROVE  TableOf(Append(d, x), s) = TableOf(d, s)
  <1> DEFINE d2 == Append(d, x)
  <1>1. /\ DOMAIN d2 = 1..(Len(d) + 1) /\ DOMAIN d = 1..Len(d) /\ Len(d) \in Nat
        /\ d2[Len(d) + 1] = x /\ \A i \in DOMAIN d : d2[i] = d[i]
    OBVIOUS
  <1> HIDE DEF d2
  <1>2. ASSUME NEW p \in Int PROVE RecordIn(d2, p) <=> RecordIn(d, p)
    <2>1. ASSUME RecordIn(d2, p) PROVE RecordIn(d, p)
      <3>1. /\ p + 1 \in DOMAIN d2 /\ p + 2 \in DOMAIN d2 /\ p + 3 \in DOMAIN d2
            /\ d2[p + 1].kind = "roll" /\ d2[p + 2].kind = "len" /\ d2[p + 3].kind = "name"
        BY <2>1, RecordCellsIn
      <3>2. p + 3 # Len(d) + 1
        BY <1>1, <3>1
      <3>3. p + 1 \in DOMAIN d /\ p + 2 \in DOMAIN d /\ p + 3 \in DOMAIN d
        BY <1>1, <3>1, <3>2
      <3>4. p + 1 + 1 = p + 2 /\ p + 2 + 1 = p + 3
        OBVIOUS
      <3> QED
        BY <1>1, <3>1, <3>3, <3>4 DEF RecordIn, KindIn
    <2>2. ASSUME RecordIn(d, p) PROVE RecordIn(d2, p)
      <3>1. /\ p + 1 \in DOMAIN d /\ p + 2 \in DOMAIN d /\ p + 3 \in DOMAIN d
            /\ d[p + 1].kind = "roll" /\ d[p + 2].kind = "len" /\ d[p + 3].kind = "name"
        BY <2>2, RecordCellsIn
      <3>2. p + 1 + 1 = p + 2 /\ p + 2 + 1 = p + 3
        OBVIOUS
      <3>3. \A i \in DOMAIN d : i \in DOMAIN d2
        BY <1>1
      <3> QED
        BY <1>1, <3>1, <3>2, <3>3 DEF RecordIn, KindIn
    <2> QED
      BY <2>1, <2>2
  <1>3. \A k \in DOMAIN s : s[k] \in Int
    BY DEF Deleted
  <1>4. Wholes(d2, s) = Wholes(d, s)
    BY <1>2, <1>3 DEF Wholes
  <1>5. ASSUME NEW k \in Wholes(d, s) PROVE Rec(d2, s[k]) = Rec(d, s[k])
    <2>1. s[k] \in Int /\ RecordIn(d, s[k])
      BY DEF Wholes, Deleted
    <2>2. s[k] + 1 \in DOMAIN d /\ s[k] + 3 \in DOMAIN d
      BY <2>1, RecordCellsIn
    <2> QED
      BY <1>1, <2>2 DEF Rec
  <1>6. TableOf(d2, s) = TableOf(d, s)
    BY <1>4, <1>5, TableKept
  <1> QED
    BY <1>6 DEF d2

(* A new offset that starts no record yet is not seen. *)
LEMMA TableSlot ==
    ASSUME NEW d \in Seq(Cells), NEW s \in Seq(Int)
    PROVE  TableOf(d, Append(s, Len(d))) = TableOf(d, s)
  <1> DEFINE s2 == Append(s, Len(d))
  <1>1. Len(d) \in Nat /\ Len(d) \in Int /\ DOMAIN d = 1..Len(d)
    BY LenProperties
  <1>2. /\ s2 \in Seq(Int) /\ DOMAIN s2 = 1..(Len(s) + 1) /\ DOMAIN s = 1..Len(s)
        /\ Len(s) \in Nat /\ s2[Len(s) + 1] = Len(d) /\ \A k \in DOMAIN s : s2[k] = s[k]
    BY <1>1
  <1> HIDE DEF s2
  <1>3. ~RecordIn(d, Len(d))
    BY <1>1 DEF RecordIn, KindIn
  <1>4. \A k \in DOMAIN s2 : k \in DOMAIN s \/ k = Len(s) + 1
    BY <1>2
  <1>5. \A k \in DOMAIN s : k \in DOMAIN s2
    BY <1>2
  <1>6. Wholes(d, s2) = Wholes(d, s)
    BY <1>2, <1>3, <1>4, <1>5 DEF Wholes
  <1>7. \A k \in Wholes(d, s) : Rec(d, s2[k]) = Rec(d, s[k])
    BY <1>2 DEF Wholes
  <1>8. TableOf(d, s2) = TableOf(d, s)
    BY <1>2, <1>6, <1>7, TableKept
  <1> QED
    BY <1>8 DEF s2

LEMMA IsAppend ==
    ASSUME NEW S, NEW t \in Seq(S), NEW u \in Seq(S), NEW r \in S, Len(u) = Len(t) + 1,
           \A j \in 1..Len(t) : u[j] = t[j], u[Len(t) + 1] = r
    PROVE  u = Append(t, r)
  <1>1. /\ Append(t, r) \in Seq(S) /\ Len(Append(t, r)) = Len(t) + 1 /\ Len(t) \in Nat
        /\ \A j \in 1..Len(t) : Append(t, r)[j] = t[j]
        /\ Append(t, r)[Len(t) + 1] = r
    BY AppendProperties, LenProperties
  <1>2. \A j \in 1..Len(u) : u[j] = Append(t, r)[j]
    BY <1>1
  <1> QED
    BY <1>1, <1>2, SeqEqual

LEMMA IsRemoved ==
    ASSUME NEW S, NEW t \in Seq(S), NEW u \in Seq(S), NEW p \in 1..Len(t), Len(u) = Len(t) - 1,
           \A j \in 1..Len(u) : /\ j < p => u[j] = t[j]
                                /\ p <= j => u[j] = t[j + 1]
    PROVE  u = Without(t, p)
  <1> DEFINE a == SubSeq(t, 1, p - 1)
             b == SubSeq(t, p + 1, Len(t))
  <1>1. Len(t) \in Nat /\ \A j \in 1..Len(t) : t[j] \in S
    BY LenProperties
  <1>2. /\ a \in Seq(S) /\ Len(a) = p - 1
        /\ \A j \in 1..(p - 1) : a[j] = t[j]
    <2>1. /\ 1 \in Int /\ p - 1 \in Int /\ \A j \in 1..(p - 1) : t[j] \in S
          /\ (IF 1 <= p - 1 THEN (p - 1) - 1 + 1 ELSE 0) = p - 1 /\ (p - 1) - 1 + 1 = p - 1
          /\ \A j \in 1..(p - 1) : 1 + j - 1 = j
      BY <1>1
    <2>2. /\ a \in Seq(S) /\ Len(a) = IF 1 <= p - 1 THEN (p - 1) - 1 + 1 ELSE 0
          /\ \A j \in 1..((p - 1) - 1 + 1) : a[j] = t[1 + j - 1]
      BY <2>1, SubSeqProperties
    <2> HIDE DEF a
    <2> QED
      BY <2>1, <2>2
  <1>3. /\ b \in Seq(S) /\ Len(b) = Len(t) - p
        /\ \A j \in 1..(Len(t) - p) : b[j] = t[p + j]
    <2>1. /\ p + 1 \in Int /\ Len(t) \in Int /\ \A j \in (p + 1)..Len(t) : t[j] \in S
          /\ (IF p + 1 <= Len(t) THEN Len(t) - (p + 1) + 1 ELSE 0) = Len(t) - p
          /\ Len(t) - (p + 1) + 1 = Len(t) - p
          /\ \A j \in 1..(Len(t) - p) : p + 1 + j - 1 = p + j
      BY <1>1
    <2>2. /\ b \in Seq(S) /\ Len(b) = IF p + 1 <= Len(t) THEN Len(t) - (p + 1) + 1 ELSE 0
          /\ \A j \in 1..(Len(t) - (p + 1) + 1) : b[j] = t[p + 1 + j - 1]
      BY <2>1, SubSeqProperties
    <2> HIDE DEF b
    <2> QED
      BY <2>1, <2>2
  <1> HIDE DEF a, b
  <1>4. /\ a \o b \in Seq(S) /\ Len(a \o b) = Len(a) + Len(b)
        /\ \A j \in 1..(Len(a) + Len(b)) : (a \o b)[j] = IF j <= Len(a) THEN a[j] ELSE b[j - Len(a)]
    BY <1>2, <1>3, ConcatProperties
  <1>5. Len(a \o b) = Len(u)
    BY <1>1, <1>2, <1>3, <1>4
  <1>6. ASSUME NEW j \in 1..Len(u) PROVE u[j] = (a \o b)[j]
    <2>1. j \in 1..(Len(a) + Len(b)) /\ j \in Nat
      BY <1>1, <1>2, <1>3
    <2>2. CASE j < p
      BY <1>1, <1>2, <1>4, <2>1, <2>2
    <2>3. CASE p <= j
      <3>1. ~(j <= Len(a)) /\ j - Len(a) \in 1..(Len(t) - p) /\ p + (j - Len(a)) = j + 1
        BY <1>1, <1>2, <1>3, <2>1, <2>3
      <3> QED
        BY <1>3, <1>4, <2>1, <2>3, <3>1
    <2> QED
      BY <2>1, <2>2, <2>3
  <1>7. u = a \o b
    BY <1>4, <1>5, <1>6, SeqEqual
  <1> QED
    BY <1>7 DEF a, b, Without

(* The name completes the record at the end of the file. *)
LEMMA TableInsert ==
    ASSUME NEW d \in Seq(Cells), NEW s \in Seq(Int), NEW v \in Int, Grows(d, s, 2)
    PROVE  /\ TableOf(Append(d, Name(v)), s)
                = Append(TableOf(d, s), [roll |-> d[s[Len(s)] + 1].val, name |-> v])
           /\ s[Len(s)] + 1 \in DOMAIN d /\ d[s[Len(s)] + 1].kind = "roll"
  <1> DEFINE d2 == Append(d, Name(v))
             n  == Len(s)
             p  == s[n]
             t  == [s EXCEPT ![n] = Deleted]
             K  == Wholes(d, s)
  <1>1. n \in DOMAIN s /\ p \in Int /\ Len(d) \in Nat /\ n \in Nat /\ DOMAIN s = 1..n
    BY EmptySeq, LenProperties DEF Grows
  <1>2. p = Len(d) - 2 /\ KindIn(d, p, "roll") /\ KindIn(d, p + 1, "len") /\ Sound(d, t)
    BY DEF Grows
  <1>3. Name(v) \in Cells /\ Name(v).val = v
    BY DEF Name, Cells
  <1>4. /\ DOMAIN d2 = 1..(Len(d) + 1) /\ DOMAIN d = 1..Len(d) /\ d2[Len(d) + 1] = Name(v)
        /\ \A i \in DOMAIN d : d2[i] = d[i] /\ i \in DOMAIN d2 /\ d2 \in Seq(Cells)
    BY <1>1, <1>3
  <1>5. Sound(d2, s)
    BY SoundAdd
  <1>6. \A k \in DOMAIN s \ {n} : t[k] = s[k] /\ k \in DOMAIN t
    BY <1>1
  <1> HIDE DEF d2, p, t
  <1>7. p \in Int /\ p + 1 \in DOMAIN d /\ p + 3 = Len(d) + 1 /\ p # Deleted
    BY <1>1, <1>2 DEF Deleted, KindIn
  <1>8. n \notin K
    <2>1. ~RecordIn(d, p)
      BY <1>1, <1>4, <1>7, RecordCellsIn
    <2> QED
      BY <2>1 DEF K, Wholes, p
  <1>9. ASSUME NEW k \in DOMAIN s \ {n}
        PROVE  /\ RecordIn(d2, s[k]) <=> RecordIn(d, s[k])
               /\ RecordIn(d, s[k]) => Rec(d2, s[k]) = Rec(d, s[k])
    <2>1. CASE s[k] = Deleted
      <3>1. s[k] + 1 = 0 /\ 0 \notin DOMAIN d /\ 0 \notin DOMAIN d2
        BY <1>1, <1>4, <2>1 DEF Deleted
      <3> QED
        BY <3>1 DEF RecordIn, KindIn
    <2>2. CASE s[k] # Deleted
      <3>1. RecordIn(d, s[k]) /\ RecordIn(d2, s[k]) /\ s[k] \in Int
        BY <1>2, <1>5, <1>6, <2>2 DEF Sound
      <3>2. s[k] + 1 \in DOMAIN d /\ s[k] + 3 \in DOMAIN d
        BY <3>1, RecordCellsIn
      <3> QED
        BY <1>4, <3>1, <3>2 DEF Rec
    <2> QED
      BY <2>1, <2>2
  <1>10. RecordIn(d2, p)
    BY <1>1, <1>5, <1>7 DEF Sound, p
  <1> DEFINE W == Wholes(d2, s)
  <1>11. \A k : k \in W <=> k \in K \/ k = n
    BY <1>1, <1>8, <1>9, <1>10 DEF K, Wholes, p
  <1>12. PICK m \in Nat : n = m + 1 /\ K \in SUBSET (1..m)
    <2>1. n - 1 \in Nat /\ n = (n - 1) + 1
      BY <1>1
    <2>2. \A k \in K : k \in 1..(n - 1)
      BY <1>1, <1>8 DEF K, Wholes
    <2> HIDE DEF K
    <2> QED
      BY <2>1, <2>2
  <1>13. /\ Cardinality(W) = Cardinality(K) + 1
         /\ Nth(W, Cardinality(K) + 1) = n
         /\ \A j \in 1..Cardinality(K) : Nth(W, j) = Nth(K, j) /\ Nth(K, j) \in K
         /\ Cardinality(K) \in Nat
    <2> HIDE DEF K, W
    <2> QED
      <3>1. m + 1 = n /\ K \in SUBSET (1..m) /\ \A k : k \in W <=> k \in K \/ k = m + 1
        BY <1>11, <1>12
      <3>2. /\ Cardinality(W) = Cardinality(K) + 1
            /\ Nth(W, Cardinality(K) + 1) = m + 1
            /\ \A j \in 1..Cardinality(K) : Nth(W, j) = Nth(K, j)
        BY <3>1, NthAdd
      <3> HIDE DEF n
      <3> QED
        BY <3>1, <3>2, NthIn, BelowFinite
  <1>14. /\ TableOf(d2, s) \in Seq(AnyRecord) /\ Len(TableOf(d2, s)) = Cardinality(K) + 1
         /\ TableOf(d, s) \in Seq(AnyRecord) /\ Len(TableOf(d, s)) = Cardinality(K)
    BY <1>4, <1>13, <1>7, TableType
  <1>15. \A j \in 1..Cardinality(K) : TableOf(d2, s)[j] = TableOf(d, s)[j]
    <2> SUFFICES ASSUME NEW j \in 1..Cardinality(K) PROVE TableOf(d2, s)[j] = TableOf(d, s)[j]
      OBVIOUS
    <2>1. Nth(K, j) \in DOMAIN s \ {n} /\ RecordIn(d, s[Nth(K, j)])
      <3>1. \A k \in K : k \in DOMAIN s \ {n} /\ RecordIn(d, s[k])
        BY <1>8 DEF K, Wholes
      <3> HIDE DEF K, n
      <3>2. Nth(K, j) \in K
        BY <1>13
      <3> QED
        BY <3>1, <3>2
    <2>2. TableOf(d2, s)[j] = Rec(d2, s[Nth(K, j)])
      <3>1. j \in 1..Cardinality(Wholes(d2, s)) /\ Nth(Wholes(d2, s), j) = Nth(K, j)
        <4> HIDE DEF K, n
        <4> QED
          BY <1>13
      <3> QED
        BY <3>1 DEF TableOf
    <2>3. TableOf(d, s)[j] = Rec(d, s[Nth(K, j)])
      BY DEF TableOf
    <2> QED
      BY <1>9, <2>1, <2>2, <2>3
  <1>16. TableOf(d2, s)[Cardinality(K) + 1] = Rec(d2, p)
    <2>1. Cardinality(K) + 1 \in 1..Cardinality(W)
      BY <1>13
    <2> QED
      BY <1>13, <2>1 DEF TableOf, p
  <1>17. Rec(d2, p) = [roll |-> d[p + 1].val, name |-> v]
    BY <1>3, <1>4, <1>7 DEF Rec
  <1>18. Rec(d2, p) \in AnyRecord
    <2>1. d[p + 1] \in Cells
      BY <1>7, ElementOfSeq, LenProperties
    <2> QED
      BY <1>17, <2>1 DEF AnyRecord, Cells
  <1>19. TableOf(d2, s) = Append(TableOf(d, s), Rec(d2, p))
    <2> HIDE DEF K
    <2> QED
      BY <1>14, <1>15, <1>16, <1>18, IsAppend
  <1> QED
    BY <1>2, <1>7, <1>17, <1>19 DEF d2, p, KindIn

(* The deletion of slot x takes its record out of the table. *)
LEMMA TableRemove ==
    ASSUME NEW d \in Seq(Cells), NEW s \in Seq(Int), NEW p \in 1..Cardinality(Wholes(d, s)),
           NEW s2 \in Seq(Int), DOMAIN s2 = DOMAIN s, s2[Nth(Wholes(d, s), p)] = Deleted,
           \A k \in DOMAIN s \ {Nth(Wholes(d, s), p)} : s2[k] = s[k]
    PROVE  p \in DOMAIN TableOf(d, s) /\ TableOf(d, s2) = Without(TableOf(d, s), p)
  <1> DEFINE K  == Wholes(d, s)
             W  == Wholes(d, s2)
             x  == Nth(K, p)
             t  == TableOf(d, s)
             u  == TableOf(d, s2)
  <1>1. /\ x \in K /\ x \in DOMAIN s /\ Len(s) \in Nat
        /\ K \in SUBSET (1..Len(s)) /\ Cardinality(K) \in Nat
    BY WholesIn DEF Wholes
  <1>2. s2[x] = Deleted /\ \A k \in DOMAIN s \ {x} : s2[k] = s[k]
    OBVIOUS
  <1>3. ~RecordIn(d, Deleted)
    <2>1. Deleted + 1 = 0 /\ 0 \notin DOMAIN d
      BY LenProperties DEF Deleted
    <2> QED
      BY <2>1 DEF RecordIn, KindIn
  <1>4. \A k : k \in W <=> k \in K /\ k # x
    <2> HIDE DEF x
    <2> QED
      BY <1>2, <1>3 DEF Wholes
  <1>5. /\ Cardinality(W) = Cardinality(K) - 1
        /\ \A j \in 1..(Cardinality(K) - 1) :
              Nth(W, j) = IF j < p THEN Nth(K, j) ELSE Nth(K, j + 1)
    <2>1. p \in 1..Cardinality(K) /\ \A k : k \in W <=> k \in K /\ k # Nth(K, p)
      BY <1>4
    <2>2. PICK N \in Nat : K \in SUBSET (1..N)
      BY <1>1
    <2> HIDE DEF K, W
    <2> QED
      BY <2>1, <2>2, NthRemove
  <1>6. /\ t \in Seq(AnyRecord) /\ Len(t) = Cardinality(K)
        /\ u \in Seq(AnyRecord) /\ Len(u) = Cardinality(K) - 1
    BY <1>5, TableType
  <1>7. /\ \A j \in 1..Cardinality(K) : t[j] = Rec(d, s[Nth(K, j)])
        /\ \A j \in 1..(Cardinality(K) - 1) : u[j] = Rec(d, s2[Nth(W, j)])
        /\ p \in 1..Cardinality(K)
    BY <1>5 DEF TableOf
  <1>8. \A j \in 1..Cardinality(K) : Nth(K, j) \in K
    BY WholesIn
  <1>9. \A i, j \in 1..Cardinality(K) : i < j => Nth(K, i) < Nth(K, j)
    <2> HIDE DEF K
    <2> QED
      BY <1>1, NthOrder
  <1> HIDE DEF K, W, x, t, u
  <1>10. ASSUME NEW j \in 1..Len(u) PROVE u[j] = IF j < p THEN t[j] ELSE t[j + 1]
    <2>1. j \in 1..(Cardinality(K) - 1) /\ j \in 1..Cardinality(K) /\ j + 1 \in 1..Cardinality(K)
      BY <1>1, <1>6
    <2> DEFINE q == IF j < p THEN j ELSE j + 1
    <2>2. q \in 1..Cardinality(K) /\ (q < p \/ p < q)
      BY <1>1, <1>7, <2>1
    <2>3. Nth(W, j) = Nth(K, q) /\ u[j] = Rec(d, s2[Nth(K, q)])
      BY <1>5, <1>7, <2>1
    <2> HIDE DEF q
    <2>4. Nth(K, q) \in DOMAIN s \ {x}
      <3>1. Nth(K, q) \in K /\ \A k \in K : k \in DOMAIN s /\ ~(k < k)
        BY <1>1, <1>8, <2>2, LenProperties DEF K, Wholes
      <3>2. Nth(K, q) < x \/ x < Nth(K, q)
        BY <1>7, <1>9, <2>2 DEF x
      <3> QED
        BY <3>1, <3>2
    <2>5. u[j] = t[q]
      BY <1>2, <1>7, <2>2, <2>3, <2>4
    <2> QED
      BY <2>5 DEF q
  <1>11. u = Without(t, p)
    <2>1. /\ t \in Seq(AnyRecord) /\ u \in Seq(AnyRecord) /\ p \in 1..Len(t)
          /\ Len(u) = Len(t) - 1 /\ Len(t) \in Nat
      BY <1>1, <1>6, <1>7
    <2>2. \A j \in 1..Len(u) : (j < p => u[j] = t[j]) /\ (p <= j => u[j] = t[j + 1])
      BY <1>10, <2>1
    <2> QED
      BY <2>1, <2>2, IsRemoved
  <1>12. p \in DOMAIN t
    BY <1>6, <1>7, LenProperties
  <1> QED
    BY <1>11, <1>12 DEF t, u

(* Where every slot starts a record, the table has a row for each slot. *)
LEMMA TableFull ==
    ASSUME NEW d, NEW s \in Seq(Int), \A k \in DOMAIN s : RecordIn(d, s[k])
    PROVE  TableOf(d, s) = [k \in 1..Len(s) |-> Rec(d, s[k])]
  <1>1. Len(s) \in Nat /\ DOMAIN s = 1..Len(s)
    BY LenProperties
  <1>2. Wholes(d, s) = 1..Len(s)
    BY <1>1 DEF Wholes
  <1>3. Cardinality(1..Len(s)) = Len(s)
    BY <1>1, FS_Interval
  <1>4. \A k \in 1..Len(s) : Nth(1..Len(s), k) = k
    BY <1>1, NthInterval
  <1> QED
    BY <1>2, <1>3, <1>4 DEF TableOf

Exchanged(s, s2, i, m) ==
    /\ s2 \in Seq(Int) /\ Len(s2) = Len(s) /\ s2[i] = s[m] /\ s2[m] = s[i]
    /\ \A k \in DOMAIN s : k # i /\ k # m => s2[k] = s[k]

(* An exchange of two offsets exchanges two rows. *)
LEMMA TableSwap ==
    ASSUME NEW d, NEW s \in Seq(Int), \A k \in DOMAIN s : RecordIn(d, s[k]),
           NEW i \in DOMAIN s, NEW m \in DOMAIN s, NEW s2, Exchanged(s, s2, i, m)
    PROVE  /\ i \in DOMAIN TableOf(d, s) /\ m \in DOMAIN TableOf(d, s)
           /\ TableOf(d, s2) = Swapped(TableOf(d, s), i, m)
  <1> DEFINE t == TableOf(d, s)
  <1>0. /\ s2 \in Seq(Int) /\ Len(s2) = Len(s) /\ s2[i] = s[m] /\ s2[m] = s[i]
        /\ \A k \in DOMAIN s : k # i /\ k # m => s2[k] = s[k]
    BY DEF Exchanged
  <1>1. Len(s) \in Nat /\ DOMAIN s = 1..Len(s) /\ DOMAIN s2 = 1..Len(s)
    BY <1>0, LenProperties
  <1>2. \A k \in DOMAIN s : s2[k] = IF k = m THEN s[i] ELSE IF k = i THEN s[m] ELSE s[k]
    BY <1>0
  <1>3. t = [k \in 1..Len(s) |-> Rec(d, s[k])]
    BY TableFull
  <1>4. \A k \in DOMAIN s2 : RecordIn(d, s2[k])
    BY <1>1, <1>2
  <1>5. TableOf(d, s2) = [k \in 1..Len(s) |-> Rec(d, s2[k])]
    BY <1>0, <1>4, TableFull
  <1>6. i \in 1..Len(s) /\ m \in 1..Len(s)
    BY <1>1
  <1> HIDE DEF t
  <1>7. \A k \in 1..Len(s) :
          Rec(d, s2[k]) = IF k = m THEN t[i] ELSE IF k = i THEN t[m] ELSE t[k]
    BY <1>1, <1>2, <1>3, <1>6
  <1>8. TableOf(d, s2) = Swapped(t, i, m)
    BY <1>3, <1>5, <1>6, <1>7 DEF Swapped
  <1> QED
    BY <1>3, <1>6, <1>8 DEF t

(* The files that compaction() writes have the rows of its buffer. *)
LEMMA TablePacked ==
    ASSUME NEW b, NEW n, Packed(b, n)
    PROVE  TableOf(<<Count(n)>> \o b, Offsets(n)) = BodyTable(b)
  <1> DEFINE d == <<Count(n)>> \o b
             s == Offsets(n)
  <1>1. n \in Nat /\ b \in Seq(Cells) /\ Len(b) = 3 * n
    BY DEF Packed
  <1>2. \A i \in 1..(3 * n) : d[i + 1] = b[i]
    BY <1>1 DEF Count, Cells
  <1>3. s \in Seq(Int) /\ Len(s) = n /\ \A k \in 1..n : s[k] = 3 * (k - 1) + 1
    BY <1>1 DEF Offsets, RecordCells
  <1>4. \A k \in DOMAIN s : RecordIn(d, s[k])
    <2>1. \A k \in DOMAIN s : s[k] # Deleted
      BY <1>1 DEF Offsets, RecordCells, Deleted
    <2> QED
      BY <2>1, SoundPacked DEF Sound
  <1> HIDE DEF d, s
  <1>5. TableOf(d, s) = [k \in 1..n |-> Rec(d, s[k])]
    BY <1>3, <1>4, TableFull
  <1>6. ASSUME NEW k \in 1..n PROVE Rec(d, s[k]) = Rec(b, 3 * (k - 1))
    <2>1. /\ 3 * (k - 1) + 1 \in 1..(3 * n) /\ 3 * (k - 1) + 3 \in 1..(3 * n)
          /\ s[k] + 1 = (3 * (k - 1) + 1) + 1 /\ s[k] + 3 = (3 * (k - 1) + 3) + 1
      BY <1>1, <1>3
    <2>2. d[s[k] + 1] = b[3 * (k - 1) + 1] /\ d[s[k] + 3] = b[3 * (k - 1) + 3]
      BY <1>2, <2>1
    <2> QED
      BY <2>2 DEF Rec
  <1>7. (3 * n) \div 3 = n
    BY <1>1
  <1>8. TableOf(d, s) = BodyTable(b)
    BY <1>1, <1>5, <1>6, <1>7 DEF BodyTable
  <1> QED
    BY <1>8 DEF d, s

(* What compaction() reads has the rows of the files. *)
LEMMA TableRead ==
    ASSUME slots \in Seq(Int), data \in Seq(Cells), \A k \in Live : RecordIn(data, slots[k]),
           NEW left \in [Unread \ Lengths -> Leftovers]
    PROVE  BodyTable(PackedBody(left)) = TableOf(data, slots)
  <1> DEFINE N == Cardinality(Live)
             B == PackedBody(left)
  <1>1. N \in Nat /\ Len(B) = 3 * N
    BY LiveFinite, RecordsRead, PackedBodyPacked DEF Packed
  <1>2. ~RecordIn(data, Deleted)
    <2>1. Deleted + 1 = 0 /\ 0 \notin DOMAIN data
      BY LenProperties DEF Deleted
    <2> QED
      BY <2>1 DEF RecordIn, KindIn
  <1>3. Wholes(data, slots) = Live
    BY <1>2 DEF Wholes, Live
  <1>4. ASSUME NEW j \in 1..N
        PROVE  Rec(B, 3 * (j - 1)) = Rec(data, slots[Nth(Live, j)])
    <2>2. /\ B[3 * j - 2] = data[slots[Nth(Live, j)] + 1]
          /\ B[3 * j] = data[slots[Nth(Live, j)] + 3]
      BY PackedBodyAt
    <2> HIDE DEF N, B
    <2>1. 3 * (j - 1) + 1 = 3 * j - 2 /\ 3 * (j - 1) + 3 = 3 * j
      BY <1>1
    <2> QED
      BY <2>1, <2>2 DEF Rec
  <1>6. TableOf(data, slots) = [j \in 1..N |-> Rec(data, slots[Nth(Live, j)])]
    BY <1>3 DEF TableOf
  <1> HIDE DEF N, B
  <1>5. (3 * N) \div 3 = N
    BY <1>1
  <1>7. BodyTable(B) = [j \in 1..N |-> Rec(B, 3 * (j - 1))]
    BY <1>1, <1>5 DEF BodyTable
  <1> QED
    BY <1>4, <1>6, <1>7 DEF B

-----------------------------------------------------------------------------
(* Until an option ends half-way, every step is one of the table, or       *)
(* leaves it as it is.                                                     *)

(* The roll number of the record that grows is one a user typed, a         *)
(* modification is what deletes before it asks for a record, and option 0  *)
(* starts with an empty data file.                                         *)
Typed ==
    /\ op.at \in {"inLen", "inName"} => data[slots[Len(slots)] + 1].val \in Rolls
    /\ op.at = "input" => op.app
    /\ op.at = "initIdx" => data = <<>>

RInv == EInv /\ (~torn => Typed)

(* Points that other steps than those of input_record() and initialization *)
(* lead to. *)
Away == \/ op'.at \notin {"inLen", "inName", "input", "initIdx"}
        \/ UNCHANGED <<data, slots, op>>

LEMMA NextTyped ==
    ASSUME EInv, ~torn => Typed, [Next]_vars, ~torn'
    PROVE  Typed'
  <1>s. op \in Ops
    BY DEF EInv, TypeInv, TypeOK
  <1>m. ASSUME NEW at \in Points, op' = [op EXCEPT !.at = at]
        PROVE  op'.at = at /\ op'.app = op.app
    BY <1>m, <1>s, OpMove
  <1>i. Idle.at = "menu"
    BY DEF Idle
  <1>1. CASE InitTruncData
    <2>1. data' = <<>> /\ op'.at \in {"menu", "initIdx"}
      BY <1>1, <1>i, <1>m DEF InitTruncData, ExitTorn, Quit, Points
    <2> QED
      BY <2>1 DEF Typed
  <1>2. SUFFICES ASSUME ~InitTruncData PROVE Typed'
    BY <1>1
  <1>y. ~torn /\ Typed
    BY <1>2, TornStays
  <1>t. data \in Seq(Cells) /\ slots \in Seq(Int) /\ SoundExact
    BY <1>y DEF EInv, TypeInv, TypeOK, Exact
  <1>3. CASE InputRoll
    <2>1. PICK r \in Rolls : data' = Append(data, Roll(r))
      BY <1>3 DEF InputRoll
    <2>2. slots[Len(slots)] = Len(data) /\ Len(data) \in Nat
      <3>1. slots[Len(slots)] = Len(data) - 0 /\ Len(data) \in Nat
        BY <1>3, <1>t, LenProperties DEF InputRoll, SoundExact, Grows
      <3> QED
        BY <3>1
    <2>3. data'[Len(data) + 1] = Roll(r) /\ UNCHANGED slots
      BY <1>3, <1>t, <2>1 DEF InputRoll
    <2>4. op'.at = "inLen"
      BY <1>3, <1>m DEF InputRoll, Points
    <2> QED
      BY <2>2, <2>3, <2>4 DEF Typed, Roll
  <1>4. CASE InputNameLen
    <2>1. data' = Append(data, NameLen) /\ UNCHANGED slots
      BY <1>4 DEF InputNameLen
    <2>2. slots[Len(slots)] + 1 \in DOMAIN data /\ data[slots[Len(slots)] + 1].val \in Rolls
      BY <1>4, <1>t, <1>y DEF InputNameLen, SoundExact, Grows, KindIn, Typed
    <2>3. data'[slots[Len(slots)] + 1] = data[slots[Len(slots)] + 1]
      BY <1>t, <2>1, <2>2
    <2>4. op'.at = "inName"
      BY <1>4, <1>m DEF InputNameLen, Points
    <2> QED
      BY <2>1, <2>2, <2>3, <2>4 DEF Typed
  <1>5. CASE DeleteCount
    <2>1. op.app \in BOOLEAN
      BY <1>s DEF Ops
    <2>2. CASE op.app = TRUE
      <3>1. op'.at = "input" /\ op'.app = TRUE
        BY <1>5, <2>2, <1>m DEF DeleteCount, Points
      <3> QED
        BY <3>1 DEF Typed
    <2>3. CASE op.app = FALSE
      <3>1. op'.at = "menu"
        BY <1>5, <2>3, <1>i DEF DeleteCount
      <3> QED
        BY <3>1 DEF Typed
    <2> QED
      BY <2>1, <2>2, <2>3
  <1>6. CASE [Next]_vars /\ ~InputRoll /\ ~InputNameLen /\ ~DeleteCount
    <2>1. OpenFails \/ Reading \/ Crash => Away
      BY <1>m, <1>i DEF OpenFails, Reading, SearchHangs, ReadFails, PrintStudent, Crash,
                        Exit, ExitTorn, Quit, Menu, Points, Away
    <2>2. Initialize => Away
      BY <1>m, <1>i, <1>2 DEF Initialize, InitTruncIdx, InitCount, InitIndexHeader, Points, Away
    <2>3. Input => Away
      <3>1. ASSUME NEW app, InputHeader(app) PROVE Away
        <4>1. CASE hdr = NoHdr
          BY <3>1, <4>1, <1>i DEF InputHeader, Exit, Quit, Away
        <4>2. CASE hdr # NoHdr
          BY <3>1, <4>2 DEF InputHeader, Idle, Away
        <4> QED
          BY <4>1, <4>2
      <3>2. Add \/ ModifyInput => Away
        BY <3>1 DEF Add, ModifyInput
      <3>3. InputIndexHeader \/ InputSlot \/ InputName => Away
        BY <1>m, <1>i DEF InputIndexHeader, InputSlot, InputName, Points, Away
      <3> QED
        BY <1>6, <3>2, <3>3 DEF Input
    <2>4. Removal => Away
      <3>1. Delete \/ Modify => Away
        BY DEF Delete, Modify, DeleteSlot, Idle, Away
      <3>2. DeleteIndexHeader => Away
        BY <1>m DEF DeleteIndexHeader, Points, Away
      <3> QED
        BY <1>6, <3>1, <3>2 DEF Removal
    <2>5. Compaction => Away
      <3>1. ASSUME NEW sorts, CompactRead(sorts) PROVE Away
        <4>1. PICK n \in CountRead :
                CompactOverruns(n) \/ CompactExits(n) \/ CompactBuffers(n, sorts)
          BY <3>1 DEF CompactRead
        <4>2. CASE CompactOverruns(n)
          BY <4>2, <1>m DEF CompactOverruns, Points, Away
        <4>3. CASE CompactExits(n)
          BY <4>3, <1>i DEF CompactExits, Exit, Quit, Away
        <4>4. CASE CompactBuffers(n, sorts)
          BY <4>4 DEF CompactBuffers, Idle, Away
        <4> QED
          BY <4>1, <4>2, <4>3, <4>4
      <3>2. CompactBody => Away
        BY DEF CompactBody, Idle, Away
      <3>3. CompactTruncIdx \/ CompactTruncData \/ CompactIndexHeader \/ CompactCount => Away
        BY <1>m DEF CompactTruncIdx, CompactTruncData, CompactIndexHeader, CompactCount, Points, Away
      <3>4. CompactSlots => Away
        BY <1>m, <1>i DEF CompactSlots, ExitTorn, Quit, Points, Away
      <3> QED
        BY <3>1, <3>2, <3>3, <3>4 DEF Compaction, Compact, Sort
    <2>6. Sorting => Away
      <3>1. SortStep \/ SortSwap => op'.at \in {"sort", "swap"}
        BY <1>s DEF SortStep, SortSwap, Ops
      <3>2. SortEnd \/ SortFails => op'.at = "menu"
        BY <1>i DEF SortEnd, SortFails, ExitTorn, Quit
      <3> QED
        BY <3>1, <3>2 DEF Sorting, Away
    <2>7. UNCHANGED vars => Away
      BY DEF vars, Away
    <2>8. Away
      BY <1>6, <2>1, <2>2, <2>3, <2>4, <2>5, <2>6, <2>7 DEF Next
    <2> QED
      BY <2>8, <1>y DEF Typed, Away
  <1> QED
    BY <1>3, <1>4, <1>5, <1>6

(* The option that the menu runs, at each point. *)
OptionIs ==
    /\ torn => Option = "broken"
    /\ ~torn /\ op.at \in {"menu", "hang", "undefined"} => Option = "none"
    /\ ~torn /\ op.at \in {"initIdx", "initData", "initHdr"} => Option = "initialize"
    /\ ~torn /\ op.at \in {"inIdx", "inSlot", "inRoll", "inLen", "inName"}
         => Option = IF op.app THEN "modify" ELSE "add"
    /\ ~torn /\ op.at \in {"delIdx", "delData", "input"}
         => Option = IF op.app THEN "modify" ELSE "delete"
    /\ ~torn /\ Rewriting => Option = IF op.sorts THEN "sort" ELSE "compact"
    /\ ~torn /\ op.at \in {"sort", "swap"} => Option = "sort"

LEMMA OptionAt == OptionIs
  BY DEF OptionIs, Option, Rewriting

LEMMA OptionThen == OptionIs'
  BY DEF OptionIs, Option, Rewriting

(* The steps of the table. *)
LEMMA StepInitialize ==
    ASSUME Option \in {"none", "broken"}, Option' = "initialize", Table' = <<>>
    PROVE  Promised!Next
  BY DEF Promised!Next, Promised!Initialize

LEMMA StepBegin ==
    ASSUME Option = "none", Option' \in {"add", "compact", "sort"}, Table' = Table
    PROVE  Promised!Next
  BY DEF Promised!Next, Promised!Begin

LEMMA StepEnd ==
    ASSUME Option \in {"initialize", "delete", "compact", "sort"}, Option' = "none",
           Table' = Table
    PROVE  Promised!Next
  BY DEF Promised!Next, Promised!End

LEMMA StepBreak ==
    ASSUME Option' = "broken"
    PROVE  Promised!Next
  BY DEF Promised!Next, Promised!Break

LEMMA StepInsert ==
    ASSUME Option \in {"add", "modify"}, Option' = "none",
           NEW r \in Rolls, NEW v \in Names, Table' = Append(Table, [roll |-> r, name |-> v])
    PROVE  Promised!Next
  <1>1. [roll |-> r, name |-> v] \in Promised!Records
    BY DEF Promised!Records
  <1> QED
    BY <1>1 DEF Promised!Next, Promised!Insert

LEMMA StepRemove ==
    ASSUME Option = "none", Option' \in {"delete", "modify"},
           NEW p \in DOMAIN Table, \A i \in 1..(p - 1) : Table[i].roll # Table[p].roll,
           Table' = Without(Table, p)
    PROVE  Promised!Next
  BY DEF Promised!Next, Promised!Remove, Without

LEMMA StepExchange ==
    ASSUME Option = "sort", Option' = Option,
           NEW i \in DOMAIN Table, NEW m \in DOMAIN Table, Table' = Swapped(Table, i, m)
    PROVE  Promised!Next
  BY DEF Promised!Next, Promised!Exchange, Swapped

(* What TableIs says, of the state after a step. *)
LEMMA TableThen ==
    /\ Rewriting' => Table' = BodyTable(op'.body)
    /\ ~Rewriting' => Table' = TableOf(data', Shown')
  BY DEF Table, BodyTable, TableOf, Rec, Wholes, Whole, WholeAt, KindAt, RecordIn, KindIn,
         RecordCells

(* The slot that a deletion overwrites is that of the first record with    *)
(* the roll number: search() sees every record before it.                  *)
LEMMA DeletesFirst ==
    ASSUME data \in Seq(Cells), slots \in Seq(Int), hdr = Cardinality(Live),
           \A k \in Live : RecordIn(data, slots[k]), NEW r, NEW x \in Found(r)
    PROVE  LET t == TableOf(data, slots)
           IN  \E p \in 1..Cardinality(Wholes(data, slots)) :
                   /\ Nth(Wholes(data, slots), p) = x
                   /\ \A i \in 1..(p - 1) : t[i].roll # t[p].roll
  <1> DEFINE K == Wholes(data, slots)
             t == TableOf(data, slots)
  <1>1. ~RecordIn(data, Deleted)
    <2>1. Deleted + 1 = 0 /\ 0 \notin DOMAIN data
      BY LenProperties DEF Deleted
    <2> QED
      BY <2>1 DEF RecordIn, KindIn
  <1>2. K = Live
    BY <1>1 DEF Wholes, Live
  <1>3. x \in K /\ x \in Scanned
    BY <1>2 DEF Found, Scanned
  <1>5. /\ Len(slots) \in Nat /\ K \in SUBSET (1..Len(slots)) /\ Cardinality(K) \in Nat
        /\ \A j \in 1..Cardinality(K) : Nth(K, j) \in K
    BY WholesIn
  <1>4. PICK p \in 1..Cardinality(K) : Nth(K, p) = x
    <2> DEFINE p == Cardinality(Below(K, x)) + 1
    <2>1. p \in 1..Cardinality(K) /\ Nth(K, p) = x
      <3> HIDE DEF K
      <3> QED
        BY <1>3, <1>5, NthIs
    <2> QED
      BY <2>1
  <1>6. /\ \A j \in 1..Cardinality(K) : t[j] = Rec(data, slots[Nth(K, j)])
        /\ t[p] = Rec(data, slots[x])
    BY <1>4 DEF TableOf
  <1>7. ASSUME NEW k \in K
        PROVE  /\ slots[k] \in Int /\ KindAt(slots[k], "roll")
               /\ Rec(data, slots[k]).roll = data[slots[k] + 1].val
    <2>1. slots[k] \in Int /\ KindIn(data, slots[k], "roll")
      BY DEF Wholes, Deleted, RecordIn
    <2> QED
      BY <2>1 DEF KindIn, KindAt, Rec
  <1>8. data[slots[x] + 1].val = r
    BY <1>3, <1>7 DEF Found, MayBe
  <1> HIDE DEF K, t
  <1>9. ASSUME NEW i \in 1..(p - 1) PROVE t[i].roll # t[p].roll
    <2> DEFINE m == Nth(K, i)
    <2>1. i \in 1..Cardinality(K) /\ i < p /\ p \in 1..Cardinality(K)
      BY <1>5
    <2>2. m \in K /\ t[i] = Rec(data, slots[m])
      BY <1>5, <1>6, <2>1
    <2>4. m < x
      BY <1>4, <1>5, <2>1, NthOrder
    <2>5. m \in Scanned
      <3>1. Cardinality(Below(K, m)) = i - 1
        BY <1>5, <2>1, NthIn
      <3>2. Cardinality(Below(K, m)) < hdr
        BY <1>2, <1>5, <2>1, <3>1
      <3> QED
        BY <1>2, <2>2, <3>2 DEF Scanned, Below
    <2>6. ~MustBe(slots[m], r)
      BY <2>4, <2>5 DEF Found, Passed
    <2>7. data[slots[m] + 1].val # r
      BY <1>7, <2>2, <2>6 DEF MustBe
    <2> QED
      BY <1>3, <1>6, <1>7, <1>8, <2>2, <2>7
  <1> QED
    BY <1>4, <1>9 DEF K, t

LEMMA NextTable ==
    ASSUME Build # "O0", RInv, [Next]_vars
    PROVE  Promised!Next \/ UNCHANGED <<Table, Option>>
  <1> DEFINE Done == Promised!Next \/ UNCHANGED <<Table, Option>>
             Plain(at) == at \notin {"cIdx", "cData", "cHdr", "cSlots", "cCount", "cBody", "swap"}
  <1>z. SUFFICES ASSUME ~torn' PROVE Done
    BY StepBreak, OptionThen DEF OptionIs
  <1>t. TypeInv /\ TypeInv' /\ EInv
    BY NextTypeInv DEF RInv, EInv
  <1>s. /\ data \in Seq(Cells) /\ slots \in Seq(Int) /\ hdr \in Int /\ op \in Ops
        /\ op.n \in Int /\ fds \in Nat /\ fds <= MaxFds /\ MaxFds \in Nat
        /\ data' \in Seq(Cells) /\ slots' \in Seq(Int) /\ Len(data) \in Nat
    BY <1>t, FdsAssumption DEF TypeInv, TypeOK, Ops
  <1>c. Cardinality(Live) \in Nat
    BY <1>s, InUseFinite DEF Live
  <1>n. SlotsKnown
    BY <1>t DEF TypeInv
  <1>m. ASSUME NEW at \in Points, op' = [op EXCEPT !.at = at]
        PROVE  /\ op'.at = at /\ op'.n = op.n /\ op'.body = op.body
               /\ op'.app = op.app /\ op'.sorts = op.sorts
    BY <1>m, <1>s, OpMove
  <1>i. Idle.at = "menu" /\ \A at, n : [Idle EXCEPT !.at = at, !.n = n].at = at
    BY DEF Idle
  <1>a. Plain(op.at) => Table = TableOf(data, slots)
    BY TableIs DEF Rewriting, Shown
  <1>b. Plain(op'.at) => Table' = TableOf(data', slots')
    BY TableThen DEF Rewriting, Shown
  <1>v. ASSUME NEW u, NEW v, Starts(data, u), data' = [data EXCEPT ![1] = Count(v)]
        PROVE  TableOf(data', slots) = TableOf(data, slots)
    <2>1. 1 \in DOMAIN data
      BY <1>v, <1>s, EmptySeq, LenProperties DEF Starts
    <2>2. /\ DOMAIN data' = DOMAIN data /\ data'[1].kind = "count"
          /\ \A i \in DOMAIN data \ {1} : data'[i] = data[i]
      BY <1>v, <2>1 DEF Count
    <2> QED
      BY <1>v, <1>s, <2>2, TableCount
  <1>k. ASSUME Plain(op.at), Plain(op'.at), UNCHANGED <<data, slots>>
        PROVE  Table' = Table
    BY <1>k, <1>a, <1>b
  <1>e. ASSUME Plain(op'.at), data' = <<>> \/ slots' = <<>>
        PROVE  Table' = <<>>
    <2>1. \A k \in DOMAIN slots' : ~RecordIn(data', slots'[k])
      BY <1>e DEF RecordIn, KindIn
    <2> QED
      BY <1>e, <1>b, <2>1, TableEmpty
  <1>f. ASSUME InitTruncData
        PROVE  Done
    <2>1. op'.at = "initIdx" /\ data' = <<>> /\ op.at = "menu"
      BY <1>f, <1>m, <1>z DEF InitTruncData, ExitTorn, Menu, Points
    <2>2. Option \in {"none", "broken"} /\ Option' = "initialize"
      BY <2>1, <1>z, OptionAt, OptionThen DEF OptionIs
    <2> QED
      BY <2>1, <2>2, <1>e, StepInitialize
  <1>g. SUFFICES ASSUME ~InitTruncData PROVE Done
    BY <1>f
  <1>y. ~torn /\ Typed
    BY <1>z, <1>g, TornStays DEF RInv
  <1>x. CountsExact /\ StartsExact /\ SoundExact /\ RoomExact
    BY <1>t, <1>y DEF EInv, Exact
  <1>o. OptionIs /\ OptionIs'
    BY OptionAt, OptionThen
  <1>q. ASSUME op.at = "menu", op'.at = "menu", UNCHANGED <<data, slots>>
        PROVE  Done
    <2>1. Option = "none" /\ Option' = "none"
      BY <1>q, <1>o, <1>y, <1>z DEF OptionIs
    <2> QED
      BY <2>1, <1>q, <1>k
  <1>r. ASSUME op.at \in {"inIdx", "inSlot", "inRoll", "inLen"},
               op'.at \in {"inSlot", "inRoll", "inLen", "inName"},
               op'.app = op.app, Table' = Table
        PROVE  Done
    <2>1. Option' = Option
      BY <1>r, <1>o, <1>y, <1>z DEF OptionIs
    <2> QED
      BY <2>1, <1>r
  <1>h. ASSUME op.at = "menu"
        PROVE  /\ hdr = Cardinality(Live) /\ hdr # NoHdr /\ Starts(data, hdr)
               /\ Sound(data, slots) /\ Len(data) >= 3 * Cardinality(Live) + 1
               /\ \A k \in Live : RecordIn(data, slots[k])
    BY <1>h, <1>x, <1>c DEF CountsExact, StartsExact, SoundExact, RoomExact, NoHdr, Sound, Live
  <1>1. CASE OpenFails
    BY <1>1, <1>q DEF OpenFails, Menu
  <1>2. CASE Initialize
    <2>1. ASSUME op.at \in {"initIdx", "initData", "initHdr"}, op'.at \in {"initData", "initHdr"},
                 data = <<>> \/ slots = <<>>, slots' = <<>>
          PROVE  Done
      <3>1. Table' = <<>>
        BY <2>1, <1>e
      <3>2. Table = <<>>
        <4>1. \A k \in DOMAIN slots : ~RecordIn(data, slots[k])
          BY <2>1 DEF RecordIn, KindIn
        <4> QED
          BY <2>1, <4>1, <1>a, TableEmpty
      <3>3. Option' = Option
        BY <2>1, <1>o, <1>y, <1>z DEF OptionIs
      <3> QED
        BY <3>1, <3>2, <3>3
    <2>2. CASE InitTruncIdx
      <3>1. op'.at = "initData" /\ slots' = <<>> /\ op.at = "initIdx" /\ data = <<>>
        BY <2>2, <1>m, <1>y DEF InitTruncIdx, Points, Typed
      <3> QED
        BY <3>1, <2>1
    <2>3. CASE InitCount
      <3>1. op'.at = "initHdr" /\ op.at = "initData" /\ slots = <<>> /\ slots' = <<>>
        BY <2>3, <1>m, <1>n DEF InitCount, SlotsKnown, Points
      <3> QED
        BY <3>1, <2>1
    <2>4. CASE InitIndexHeader
      <3>1. op'.at = "menu" /\ op.at = "initHdr" /\ UNCHANGED <<data, slots>>
        BY <2>4, <1>i DEF InitIndexHeader
      <3>2. Option = "initialize" /\ Option' = "none"
        BY <3>1, <1>o, <1>y, <1>z DEF OptionIs
      <3> QED
        BY <3>1, <3>2, <1>k, StepEnd
    <2> QED
      BY <1>2, <1>g, <2>2, <2>3, <2>4 DEF Initialize
  <1>3. CASE Input
    <2>g. ASSUME NEW c \in Cells, c.kind # "name", data' = Append(data, c), UNCHANGED slots,
                 Plain(op.at), Plain(op'.at)
          PROVE  Table' = Table
      BY <2>g, <1>a, <1>b, <1>s, TableGrow
    <2>1. CASE Add
      <3>1. /\ op.at = "menu" /\ WriteCount(hdr + 1, FALSE) /\ UNCHANGED slots
            /\ op'.at = "inIdx" /\ op'.app = FALSE
        BY <2>1, <1>h DEF Add, Menu, InputHeader, Idle
      <3>2. data' = [data EXCEPT ![1] = Count(hdr + 1)] /\ Starts(data, hdr)
        BY <3>1, <1>h DEF WriteCount, Starts
      <3>3. TableOf(data', slots) = TableOf(data, slots)
        BY <3>2, <1>v
      <3>4. Option = "none" /\ Option' = "add"
        BY <3>1, <1>o, <1>y, <1>z DEF OptionIs
      <3> QED
        BY <3>1, <3>3, <3>4, <1>a, <1>b, StepBegin
    <2>2. CASE ModifyInput
      <3>1. hdr # NoHdr /\ op.at = "input"
        BY <2>2, <1>x, <1>c DEF ModifyInput, CountsExact, NoHdr
      <3>2. WriteCount(hdr + 1, TRUE) /\ UNCHANGED slots /\ op'.at = "inIdx" /\ op'.app = TRUE
        BY <2>2, <3>1 DEF ModifyInput, InputHeader, Idle
      <3>3. /\ data' = Append(data, Count(hdr + 1)) /\ Count(hdr + 1) \in Cells
            /\ Count(hdr + 1).kind # "name"
        BY <3>2, <1>s DEF WriteCount, Count, Cells
      <3>4. Option = "modify" /\ Option' = "modify"
        BY <3>1, <3>2, <1>o, <1>y, <1>z DEF OptionIs, Typed
      <3> QED
        BY <3>1, <3>2, <3>3, <3>4, <2>g
    <2>3. CASE InputIndexHeader
      <3>1. op'.at = "inSlot" /\ op.at = "inIdx" /\ op'.app = op.app /\ UNCHANGED <<data, slots>>
        BY <2>3, <1>m DEF InputIndexHeader, Points
      <3> QED
        BY <3>1, <1>k, <1>r
    <2>4. CASE InputSlot
      <3>1. op'.at = "inRoll" /\ op.at = "inSlot" /\ op'.app = op.app
        BY <2>4, <1>m DEF InputSlot, Points
      <3>2. slots' = Append(slots, Len(data)) /\ UNCHANGED data
        BY <2>4 DEF InputSlot
      <3> QED
        BY <3>1, <3>2, <1>a, <1>b, <1>s, <1>r, TableSlot
    <2>5. CASE InputRoll
      <3>1. PICK r \in Rolls : data' = Append(data, Roll(r))
        BY <2>5 DEF InputRoll
      <3>2. Roll(r) \in Cells /\ Roll(r).kind # "name"
        BY RollsAssumption DEF Roll, Cells
      <3>3. op'.at = "inLen" /\ op.at = "inRoll" /\ op'.app = op.app /\ UNCHANGED slots
        BY <2>5, <1>m DEF InputRoll, Points
      <3> QED
        BY <3>1, <3>2, <3>3, <2>g, <1>r
    <2>6. CASE InputNameLen
      <3>1. data' = Append(data, NameLen) /\ NameLen \in Cells /\ NameLen.kind # "name"
        BY <2>6 DEF InputNameLen, NameLen, Cells
      <3>2. op'.at = "inName" /\ op.at = "inLen" /\ op'.app = op.app /\ UNCHANGED slots
        BY <2>6, <1>m DEF InputNameLen, Points
      <3> QED
        BY <3>1, <3>2, <2>g, <1>r
    <2>7. CASE InputName
      <3>1. PICK v \in Names : data' = Append(data, Name(v))
        BY <2>7 DEF InputName
      <3>2. v \in Int
        BY NamesAssumption
      <3>3. op'.at = "menu" /\ op.at = "inName" /\ UNCHANGED slots
        BY <2>7, <1>i DEF InputName
      <3>4. Grows(data, slots, 2)
        BY <3>3, <1>x DEF SoundExact
      <3> DEFINE r == data[slots[Len(slots)] + 1].val
      <3>5. r \in Rolls
        BY <3>3, <1>y DEF Typed
      <3>6. TableOf(data', slots) = Append(TableOf(data, slots), [roll |-> r, name |-> v])
        BY <3>1, <3>2, <3>4, <1>s, TableInsert
      <3> HIDE DEF r
      <3>7. Table' = Append(Table, [roll |-> r, name |-> v])
        BY <3>3, <3>6, <1>a, <1>b
      <3>8. Option \in {"add", "modify"} /\ Option' = "none"
        BY <3>3, <1>o, <1>y, <1>z DEF OptionIs
      <3> QED
        BY <3>5, <3>7, <3>8, StepInsert
    <2> QED
      BY <1>3, <2>1, <2>2, <2>3, <2>4, <2>5, <2>6, <2>7 DEF Input
  <1>4. CASE Removal
    <2>1. ASSUME NEW app \in BOOLEAN, DeleteSlot(app)
          PROVE  Done
      <3>1. PICK r \in Rolls : \E k \in Found(r) : slots' = [slots EXCEPT ![k] = Deleted]
        BY <2>1 DEF DeleteSlot
      <3>2. PICK x \in Found(r) : slots' = [slots EXCEPT ![x] = Deleted]
        BY <3>1
      <3>3. op.at = "menu" /\ op'.at = "delIdx" /\ op'.app = app /\ UNCHANGED data
        BY <2>1 DEF DeleteSlot, Menu, Idle
      <3>4. PICK p \in 1..Cardinality(Wholes(data, slots)) :
              /\ Nth(Wholes(data, slots), p) = x
              /\ \A i \in 1..(p - 1) :
                    TableOf(data, slots)[i].roll # TableOf(data, slots)[p].roll
        BY <3>3, <1>h, <1>s, DeletesFirst
      <3>5. /\ p \in DOMAIN TableOf(data, slots)
            /\ TableOf(data, slots') = Without(TableOf(data, slots), p)
        <4>1. x \in DOMAIN slots
          BY DEF Found, Scanned, Live
        <4>2. /\ DOMAIN slots' = DOMAIN slots /\ slots'[x] = Deleted
              /\ \A k \in DOMAIN slots \ {x} : slots'[k] = slots[k]
          BY <3>2, <4>1
        <4> QED
          BY <3>4, <4>2, <1>s, TableRemove
      <3>6. Table = TableOf(data, slots) /\ Table' = TableOf(data, slots')
        BY <3>3, <1>a, <1>b
      <3>7. Option = "none" /\ Option' \in {"delete", "modify"}
        BY <3>3, <1>o, <1>y, <1>z DEF OptionIs
      <3> QED
        BY <3>4, <3>5, <3>6, <3>7, StepRemove
    <2>2. CASE Delete \/ Modify
      BY <2>1, <2>2 DEF Delete, Modify
    <2>3. CASE DeleteIndexHeader
      <3>1. op'.at = "delData" /\ op.at = "delIdx" /\ op'.app = op.app /\ UNCHANGED <<data, slots>>
        BY <2>3, <1>m DEF DeleteIndexHeader, Points
      <3>2. Option' = Option
        BY <3>1, <1>o, <1>y, <1>z DEF OptionIs
      <3> QED
        BY <3>1, <3>2, <1>k
    <2>4. CASE DeleteCount
      <3>1. /\ op.at = "delData" /\ Starts(data, hdr + 1)
            /\ WriteCount(op.n, op.app) /\ UNCHANGED slots /\ op.app \in BOOLEAN
        BY <2>4, <1>x, <1>s DEF DeleteCount, StartsExact, Ops
      <3>2. \/ op.app = TRUE /\ op'.at = "input" /\ op'.app = op.app
            \/ op.app = FALSE /\ op'.at = "menu"
        BY <2>4, <3>1, <1>m, <1>i DEF DeleteCount, Points
      <3>3. TableOf(data', slots) = TableOf(data, slots)
        <4>1. CASE op.app = TRUE
          <5>1. /\ data' = Append(data, Count(op.n)) /\ Count(op.n) \in Cells
                /\ Count(op.n).kind # "name"
            BY <3>1, <4>1, <1>s DEF WriteCount, Count, Cells
          <5> QED
            BY <5>1, <1>s, TableGrow
        <4>2. CASE op.app = FALSE
          <5>1. data' = [data EXCEPT ![1] = Count(op.n)]
            BY <3>1, <4>2 DEF WriteCount, Starts
          <5> QED
            BY <3>1, <5>1, <1>v
        <4> QED
          BY <3>1, <4>1, <4>2
      <3>4. Table' = Table
        BY <3>1, <3>2, <3>3, <1>a, <1>b
      <3>5. \/ Option' = Option
            \/ Option = "delete" /\ Option' = "none"
        BY <3>1, <3>2, <1>o, <1>y, <1>z DEF OptionIs
      <3> QED
        BY <3>4, <3>5, StepEnd
    <2> QED
      BY <1>4, <2>2, <2>3, <2>4 DEF Removal
  <1>5. CASE Reading
    <2>1. ~SearchHangs
      BY <1>h, <1>s, <1>c DEF SearchHangs, Menu, RunsOn
    <2>2. op.at = "menu" /\ op'.at = "menu" /\ UNCHANGED <<data, slots>>
      BY <1>5, <2>1, <1>i DEF Reading, ReadFails, PrintStudent, Exit, Quit, Menu
    <2> QED
      BY <2>2, <1>q
  <1>6. CASE Compaction
    <2>k. ASSUME Rewriting, Rewriting', op'.body = op.body, op'.sorts = op.sorts
          PROVE  Done
      <3>1. Option' = Option
        BY <2>k, <1>o, <1>y, <1>z DEF OptionIs
      <3> QED
        BY <2>k, <3>1, TableIs, TableThen
    <2>1. ASSUME NEW sorts \in BOOLEAN, CompactRead(sorts)
          PROVE  Done
      <3>1. /\ hdr = Cardinality(Live) /\ \A k \in Live : RecordIn(data, slots[k])
            /\ hdr # NoHdr /\ Sound(data, slots)
            /\ Len(data) >= 3 * Cardinality(Live) + 1 /\ op.at = "menu"
        BY <2>1, <1>h DEF CompactRead, Menu
      <3>2. PICK n \in CountRead :
              CompactOverruns(n) \/ CompactExits(n) \/ CompactBuffers(n, sorts)
        BY <2>1 DEF CompactRead
      <3>3. n = hdr
        BY <3>1 DEF CountRead
      <3>4. FitsBuffers(n) /\ ~BadOffset /\ ~LengthUnread
        BY <3>1, <3>3, <1>s, SoundFits
      <3>5. CompactBuffers(n, sorts)
        BY <3>2, <3>4 DEF CompactOverruns, CompactExits
      <3>6. PICK left \in [Unread \ Lengths -> Leftovers] :
              op' = [Idle EXCEPT !.at = "cIdx", !.sorts = sorts, !.n = CountAfterReads(n),
                                 !.body = PackedBody(left), !.hole = LastDeleted,
                                 !.stray = StrayStore(n)]
        BY <3>5 DEF CompactBuffers
      <3>7. op'.at = "cIdx" /\ op'.body = PackedBody(left) /\ op'.sorts = sorts
        BY <3>6 DEF Idle
      <3>8. BodyTable(PackedBody(left)) = TableOf(data, slots)
        BY <3>1, <1>s, TableRead
      <3>9. Table' = BodyTable(op'.body)
        BY <3>7, TableThen DEF Rewriting
      <3>10. Table' = Table
        BY <3>1, <3>7, <3>8, <3>9, <1>a
      <3>11. Option = "none" /\ Option' \in {"sort", "compact"}
        BY <3>1, <3>7, <1>o, <1>y, <1>z DEF OptionIs, Rewriting
      <3> QED
        BY <3>10, <3>11, StepBegin
    <2>2. CASE Compact \/ Sort
      BY <2>1, <2>2 DEF Compact, Sort
    <2>3. CASE CompactTruncIdx \/ CompactTruncData \/ CompactIndexHeader \/ CompactCount
      <3>1. /\ op'.at \in {"cData", "cHdr", "cSlots", "cBody"} /\ op'.body = op.body
            /\ op'.sorts = op.sorts /\ Rewriting
        BY <2>3, <1>m
          DEF CompactTruncIdx, CompactTruncData, CompactIndexHeader, CompactCount, Points, Rewriting
      <3> QED
        BY <3>1, <2>k DEF Rewriting
    <2>4. CASE CompactSlots
      <3>1. op' = [op EXCEPT !.at = "cCount"] /\ Rewriting
        BY <2>4, <1>z DEF CompactSlots, ExitTorn, Rewriting
      <3>2. op'.at = "cCount" /\ op'.body = op.body /\ op'.sorts = op.sorts
        BY <3>1, <1>m DEF Points
      <3> QED
        BY <3>1, <3>2, <2>k DEF Rewriting
    <2>5. CASE CompactBody
      <3>1. PICK q \in Nat : Packed(op.body, q) /\ op.n \in Kept(q)
        BY <2>5, <1>x DEF CompactBody, SoundExact, Rewriting
      <3>2. op.n = q
        BY <3>1 DEF Kept
      <3>3. /\ Packed(op.body, op.n) /\ slots = Offsets(op.n) /\ data = <<Count(op.n)>>
            /\ Rewriting
        BY <2>5, <3>1, <3>2, <1>x DEF CompactBody, SoundExact, Rewriting
      <3>4. data' = <<Count(op.n)>> \o op.body /\ UNCHANGED slots
        BY <2>5, <3>3 DEF CompactBody
      <3>5. op.sorts \in BOOLEAN
        BY <1>s DEF Ops
      <3>6. \/ op.sorts = TRUE /\ op'.at = "sort"
            \/ op.sorts = FALSE /\ op'.at = "menu"
        BY <2>5, <3>5 DEF CompactBody, Idle
      <3>7. Table' = TableOf(data', slots')
        BY <3>6, <1>b
      <3>8. TableOf(data', slots') = BodyTable(op.body)
        BY <3>3, <3>4, TablePacked
      <3>9. Table' = Table
        BY <3>3, <3>7, <3>8, TableIs
      <3>10. \/ Option' = Option
             \/ Option = "compact" /\ Option' = "none"
        BY <3>3, <3>6, <1>o, <1>y, <1>z DEF OptionIs
      <3> QED
        BY <3>9, <3>10, StepEnd
    <2> QED
      BY <1>6, <2>2, <2>3, <2>4, <2>5 DEF Compaction
  <1>7. CASE Sorting
    <2>1. CASE SortStep
      <3> DEFINE m == MinIndex(op.i, op.n)
                 i == op.i
      <3>1. op.n \in Nat /\ i \in Nat /\ i <= op.n /\ 1 <= i /\ Len(slots) = op.n
        BY <2>1, <1>s, <1>n DEF SortStep, SlotsKnown, Ops
      <3>2. m \in i..op.n
        BY <3>1, MinIndexRange
      <3>3. m \in DOMAIN slots /\ i \in DOMAIN slots
        BY <3>1, <3>2, <1>s
      <3>4. op.at = "sort" /\ UNCHANGED data /\ \A k \in DOMAIN slots : RecordIn(data, slots[k])
        BY <2>1, <1>x DEF SortStep, SoundExact, AllUsed, Sound
      <3> HIDE DEF m
      <3>5. CASE m = i
        <4>1. op' = [op EXCEPT !.i = @ + 1] /\ slots' = slots
          BY <2>1, <3>5 DEF SortStep, m
        <4>2. op'.at = "sort"
          BY <3>4, <4>1, <1>s DEF Ops
        <4>3. Option' = Option
          BY <3>4, <4>2, <1>o, <1>y, <1>z DEF OptionIs
        <4> QED
          BY <3>4, <4>1, <4>2, <4>3, <1>k
      <3>6. CASE m # i
        <4>1. /\ slots' = [slots EXCEPT ![i] = slots[m]]
              /\ op' = [op EXCEPT !.at = "swap", !.j = m, !.off = slots[i]]
          BY <2>1, <3>6 DEF SortStep, m
        <4>2. op'.at = "swap" /\ op'.j = m /\ op'.off = slots[i]
          BY <4>1, <1>s DEF Ops
        <4> DEFINE s2 == Shown'
        <4>3. Exchanged(slots, s2, i, m)
          <5>1. s2 = [slots' EXCEPT ![m] = slots[i]]
            BY <4>2 DEF Shown
          <5>2. slots[i] \in Int
            BY <3>3, <1>s, ElementOfSeq, LenProperties
          <5> HIDE DEF s2
          <5> QED
            BY <5>1, <5>2, <4>1, <3>3, <3>6, <1>s DEF Exchanged
        <4>4. Table = TableOf(data, slots) /\ Table' = TableOf(data, s2)
          BY <3>4, <4>2, <1>a, TableThen DEF Rewriting
        <4> HIDE DEF s2
        <4>5. /\ i \in DOMAIN Table /\ m \in DOMAIN Table
              /\ Table' = Swapped(Table, i, m)
          <5> HIDE DEF i
          <5> QED
            <6>0. slots \in Seq(Int) /\ \A k \in DOMAIN slots : RecordIn(data, slots[k])
              BY <3>4, <1>s
            <6>1. /\ i \in DOMAIN TableOf(data, slots) /\ m \in DOMAIN TableOf(data, slots)
                  /\ TableOf(data, s2) = Swapped(TableOf(data, slots), i, m)
              BY <3>3, <6>0, <4>3, TableSwap
            <6> QED
              BY <4>4, <6>1
        <4> HIDE DEF i
        <4>6. Option = "sort" /\ Option' = Option
          BY <3>4, <4>2, <1>o, <1>y, <1>z DEF OptionIs
        <4> QED
          BY <4>5, <4>6, StepExchange
      <3> QED
        BY <3>5, <3>6
    <2>2. CASE SortSwap
      <3>1. slots' = [slots EXCEPT ![op.j] = op.off] /\ op'.at = "sort" /\ op.at = "swap"
            /\ UNCHANGED data
        BY <2>2, <1>s DEF SortSwap, Ops
      <3>2. Table = TableOf(data, slots')
        BY <3>1, TableIs DEF Rewriting, Shown
      <3>3. Option' = Option
        BY <3>1, <1>o, <1>y, <1>z DEF OptionIs
      <3> QED
        BY <3>1, <3>2, <3>3, <1>b
    <2>3. CASE SortEnd
      <3>1. op'.at = "menu" /\ UNCHANGED <<data, slots>> /\ op.at = "sort"
        BY <2>3, <1>i DEF SortEnd
      <3>2. Option = "sort" /\ Option' = "none"
        BY <3>1, <1>o, <1>y, <1>z DEF OptionIs
      <3> QED
        BY <3>1, <3>2, <1>k, StepEnd
    <2>4. ~SortFails
      BY <1>z DEF SortFails, ExitTorn
    <2> QED
      BY <1>7, <2>1, <2>2, <2>3, <2>4 DEF Sorting
  <1>8. CASE Crash
    BY <1>8, <1>z DEF Crash, ExitTorn
  <1>9. CASE UNCHANGED vars
    <2>1. Table' = Table
      BY <1>9 DEF vars, Table, Rewriting, Shown, Whole, WholeAt, KindAt
    <2>2. Option' = Option
      BY <1>9 DEF vars, Option, Rewriting
    <2> QED
      BY <2>1, <2>2
  <1> QED
    BY <1>1, <1>2, <1>3, <1>4, <1>5, <1>6, <1>7, <1>8, <1>9 DEF Next

LEMMA InitRInv == Init => RInv /\ Promised!Init
  <1> SUFFICES ASSUME Init PROVE RInv /\ Promised!Init
    OBVIOUS
  <1>1. op.at = "menu" /\ slots = <<>> /\ ~torn
    BY DEF Init, Idle
  <1>2. EInv /\ Typed
    BY <1>1, InitEInv DEF Typed
  <1>3. Table = TableOf(data, slots)
    BY <1>1, TableIs DEF Rewriting, Shown
  <1>4. TableOf(data, slots) = <<>>
    BY <1>1, TableEmpty
  <1>5. Option = "none"
    BY <1>1, OptionAt DEF OptionIs
  <1> QED
    BY <1>2, <1>3, <1>4, <1>5 DEF RInv, Promised!Init

(* Where compaction() keeps its count, every write() of every option is a  *)
(* step of the table that its option may take, or invisible to the user: a *)
(* record is added at the end by its last cell, only a deletion or a       *)
(* modification removes one, the first with the roll number, only an       *)
(* exchange of sort moves one, and nothing that compaction truncates or    *)
(* rewrites is lost.  This holds with any kills and any limit on           *)
(* descriptors, until an option ends half-way and from the next            *)
(* initialization on, for all roll numbers, names and files (main).        *)
THEOREM TableImplemented == Build # "O0" => (Spec => ImplementsTable)
  <1> SUFFICES ASSUME Build # "O0" PROVE Spec => ImplementsTable
    OBVIOUS
  <1>1. RInv /\ [Next]_vars => RInv' /\ [Promised!Next]_<<Table, Option>>
    <2> SUFFICES ASSUME RInv, [Next]_vars PROVE RInv' /\ [Promised!Next]_<<Table, Option>>
      OBVIOUS
    <2>1. EInv' /\ (~torn' => Typed')
      BY NextEInv, NextTyped DEF RInv
    <2>2. Promised!Next \/ UNCHANGED <<Table, Option>>
      BY NextTable
    <2> QED
      BY <2>1, <2>2 DEF RInv
  <1>2. Init => RInv /\ Promised!Init
    BY InitRInv
  <1> QED
    BY <1>1, <1>2, PTL DEF Spec, ImplementsTable, Promised!Spec

-----------------------------------------------------------------------------
(* The writes of an option come to an end.                                 *)

(* The writes that are left of an option; a sort may have one for each     *)
(* place it looks at, and one to come back.                                *)
AtLeast0(k) == IF k < 0 THEN 0 ELSE k
SortsLeft(k) == 2 * AtLeast0(k) + 1

WritesLeft ==
    [initIdx |-> 3, initData |-> 2, initHdr |-> 1,
     delIdx |-> 8, delData |-> 7, input |-> 6,
     inIdx |-> 5, inSlot |-> 4, inRoll |-> 3, inLen |-> 2, inName |-> 1,
     cIdx |-> 6, cData |-> 5, cHdr |-> 4, cSlots |-> 3, cCount |-> 2, cBody |-> 1,
     swap |-> 1, sort |-> 0, menu |-> 0, hang |-> 0, undefined |-> 0]

Work ==
    WritesLeft[op.at] +
        (IF op.at \in {"cIdx", "cData", "cHdr"} THEN SortsLeft(op.n)
         ELSE IF op.at \in {"cSlots", "cCount", "cBody"} THEN SortsLeft(hdr)
         ELSE IF op.at = "sort" THEN SortsLeft(op.n - op.i + 1)
         ELSE IF op.at = "swap" THEN SortsLeft(op.n - op.i)
         ELSE 0)

Shrinks     == ~Menu /\ crashes' = crashes => Work \in Nat /\ Work' < Work
WorkShrinks == [][Shrinks]_vars

LEMMA WritesLeftAt ==
    /\ WritesLeft["initIdx"] = 3 /\ WritesLeft["initData"] = 2 /\ WritesLeft["initHdr"] = 1
    /\ WritesLeft["delIdx"] = 8 /\ WritesLeft["delData"] = 7 /\ WritesLeft["input"] = 6
    /\ WritesLeft["inIdx"] = 5 /\ WritesLeft["inSlot"] = 4 /\ WritesLeft["inRoll"] = 3
    /\ WritesLeft["inLen"] = 2 /\ WritesLeft["inName"] = 1
    /\ WritesLeft["cIdx"] = 6 /\ WritesLeft["cData"] = 5 /\ WritesLeft["cHdr"] = 4
    /\ WritesLeft["cSlots"] = 3 /\ WritesLeft["cCount"] = 2 /\ WritesLeft["cBody"] = 1
    /\ WritesLeft["swap"] = 1 /\ WritesLeft["sort"] = 0 /\ WritesLeft["menu"] = 0
    /\ WritesLeft["hang"] = 0 /\ WritesLeft["undefined"] = 0
  BY DEF WritesLeft

LEMMA SortsLeftRange ==
    ASSUME NEW k \in Int
    PROVE  /\ SortsLeft(k) \in Nat /\ SortsLeft(k) >= 1
           /\ k >= 0 => SortsLeft(k) = 2 * k + 1
  BY DEF SortsLeft, AtLeast0

(* What is left at each place. *)
WorkValues ==
    /\ Work \in Nat
    /\ \A at \in {"initIdx", "initData", "initHdr", "delIdx", "delData", "input",
                  "inIdx", "inSlot", "inRoll", "inLen", "inName", "menu", "hang", "undefined"} :
          op.at = at => Work = WritesLeft[at]
    /\ op.at \in {"cIdx", "cData", "cHdr"} => Work = WritesLeft[op.at] + SortsLeft(op.n)
    /\ op.at \in {"cSlots", "cCount", "cBody"} => Work = WritesLeft[op.at] + SortsLeft(hdr)
    /\ op.at = "sort" => Work = SortsLeft(op.n - op.i + 1)
    /\ op.at = "swap" => Work = 1 + SortsLeft(op.n - op.i)

LEMMA WorkRange == TypeInv => WorkValues
  <1> SUFFICES ASSUME TypeInv PROVE WorkValues
    OBVIOUS
  <1>1. /\ op.at \in Points /\ op.n \in Int /\ op.i \in Nat /\ hdr \in Int
        /\ op.n - op.i + 1 \in Int /\ op.n - op.i \in Int
    BY DEF TypeInv, TypeOK, Ops
  <1>2. /\ SortsLeft(op.n) \in Nat /\ SortsLeft(hdr) \in Nat
        /\ SortsLeft(op.n - op.i + 1) \in Nat /\ SortsLeft(op.n - op.i) \in Nat
    BY <1>1, SortsLeftRange
  <1>3. WritesLeft[op.at] \in Nat
    BY <1>1, WritesLeftAt DEF Points
  <1>4. /\ op.at \in {"cIdx", "cData", "cHdr"} => Work = WritesLeft[op.at] + SortsLeft(op.n)
        /\ op.at \in {"cSlots", "cCount", "cBody"} => Work = WritesLeft[op.at] + SortsLeft(hdr)
    BY DEF Work
  <1>5. /\ op.at = "sort" => Work = SortsLeft(op.n - op.i + 1)
        /\ op.at = "swap" => Work = 1 + SortsLeft(op.n - op.i)
    BY <1>2, WritesLeftAt DEF Work
  <1>6. ASSUME op.at \notin {"cIdx", "cData", "cHdr", "cSlots", "cCount", "cBody", "sort", "swap"}
        PROVE  Work = WritesLeft[op.at]
    BY <1>3, <1>6 DEF Work
  <1>7. Work \in Nat
    BY <1>1, <1>2, <1>3, <1>4, <1>5, <1>6
  <1> QED
    BY <1>4, <1>5, <1>6, <1>7 DEF WorkValues

LEMMA NextWork == TypeInv /\ TypeInv' /\ Next => Shrinks
  <1> SUFFICES ASSUME TypeInv, TypeInv', Next, ~Menu, crashes' = crashes
               PROVE  Work \in Nat /\ Work' < Work
    BY DEF Shrinks
  <1>1. WorkValues
    BY WorkRange
  <1>2. WorkValues'
    BY WorkRange, PTL
  <1>3. Work \in Nat /\ Work' \in Nat
    BY <1>1, <1>2 DEF WorkValues
  <1>t. /\ op \in Ops /\ op.n \in Int /\ op.i \in Nat /\ hdr \in Int /\ crashes \in Nat
    BY BoundsAssumption DEF TypeInv, TypeOK, Ops
  <1>m. ASSUME op' = Idle
        PROVE  Work' = 0
    BY <1>2, <1>m, WritesLeftAt DEF WorkValues, Idle
  <1>u. ASSUME NEW at \in Points, op' = [op EXCEPT !.at = at]
        PROVE  op'.at = at /\ op'.n = op.n /\ op'.i = op.i
    BY <1>t, <1>u, OpMove
  <1>s. /\ SortsLeft(op.n) \in Nat /\ SortsLeft(op.n) >= 1
        /\ SortsLeft(hdr) \in Nat /\ SortsLeft(hdr) >= 1
    BY <1>t, SortsLeftRange
  <1>4. ~Crash
    BY <1>t DEF Crash
  <1>5. CASE Initialize
    <2>1. CASE InitTruncIdx
      <3>1. op.at = "initIdx" /\ op'.at = "initData"
        BY <2>1, <1>u DEF InitTruncIdx, Points
      <3> QED
        BY <3>1, <1>1, <1>2, WritesLeftAt DEF WorkValues
    <2>2. CASE InitCount
      <3>1. op.at = "initData" /\ op'.at = "initHdr"
        BY <2>2, <1>u DEF InitCount, Points
      <3> QED
        BY <3>1, <1>1, <1>2, WritesLeftAt DEF WorkValues
    <2>3. CASE InitIndexHeader
      <3>1. op.at = "initHdr" /\ op' = Idle
        BY <2>3 DEF InitIndexHeader
      <3> QED
        BY <3>1, <1>1, <1>m, WritesLeftAt DEF WorkValues
    <2> QED
      BY <1>5, <2>1, <2>2, <2>3 DEF Initialize, InitTruncData
  <1>6. CASE Input
    <2>1. CASE ModifyInput
      <3>1. op.at = "input" /\ (op' = Idle \/ op'.at = "inIdx")
        BY <2>1, <1>t, IdleType DEF ModifyInput, InputHeader, Exit, Quit, Ops
      <3>2. Work' = 0 \/ Work' = 5
        BY <3>1, <1>2, <1>m, WritesLeftAt DEF WorkValues
      <3> QED
        BY <3>1, <3>2, <1>1, WritesLeftAt DEF WorkValues
    <2>2. CASE InputIndexHeader
      <3>1. op.at = "inIdx" /\ op'.at = "inSlot"
        BY <2>2, <1>u DEF InputIndexHeader, Points
      <3> QED
        BY <3>1, <1>1, <1>2, WritesLeftAt DEF WorkValues
    <2>3. CASE InputSlot
      <3>1. op.at = "inSlot" /\ op'.at = "inRoll"
        BY <2>3, <1>u DEF InputSlot, Points
      <3> QED
        BY <3>1, <1>1, <1>2, WritesLeftAt DEF WorkValues
    <2>4. CASE InputRoll
      <3>1. op.at = "inRoll" /\ op'.at = "inLen"
        BY <2>4, <1>u DEF InputRoll, Points
      <3> QED
        BY <3>1, <1>1, <1>2, WritesLeftAt DEF WorkValues
    <2>5. CASE InputNameLen
      <3>1. op.at = "inLen" /\ op'.at = "inName"
        BY <2>5, <1>u DEF InputNameLen, Points
      <3> QED
        BY <3>1, <1>1, <1>2, WritesLeftAt DEF WorkValues
    <2>6. CASE InputName
      <3>1. op.at = "inName" /\ op' = Idle
        BY <2>6 DEF InputName
      <3> QED
        BY <3>1, <1>1, <1>m, WritesLeftAt DEF WorkValues
    <2> QED
      BY <1>6, <2>1, <2>2, <2>3, <2>4, <2>5, <2>6 DEF Input, Add
  <1>7. CASE Removal
    <2>1. CASE DeleteIndexHeader
      <3>1. op.at = "delIdx" /\ op'.at = "delData"
        BY <2>1, <1>u DEF DeleteIndexHeader, Points
      <3> QED
        BY <3>1, <1>1, <1>2, WritesLeftAt DEF WorkValues
    <2>2. CASE DeleteCount
      <3>1. op.at = "delData" /\ (op' = Idle \/ op'.at = "input")
        BY <2>2, <1>u DEF DeleteCount, Points
      <3>2. Work' = 0 \/ Work' = 6
        BY <3>1, <1>2, <1>m, WritesLeftAt DEF WorkValues
      <3> QED
        BY <3>1, <3>2, <1>1, WritesLeftAt DEF WorkValues
    <2> QED
      BY <1>7, <2>1, <2>2 DEF Removal, Delete, Modify, DeleteSlot
  <1>8. CASE Compaction
    <2>1. CASE CompactTruncIdx
      <3>1. op.at = "cIdx" /\ op'.at = "cData" /\ op'.n = op.n
        BY <2>1, <1>u DEF CompactTruncIdx, Points
      <3>2. Work = 6 + SortsLeft(op.n) /\ Work' = 5 + SortsLeft(op.n)
        BY <3>1, <1>1, <1>2, WritesLeftAt DEF WorkValues
      <3> QED
        BY <3>2, <1>3, <1>s
    <2>2. CASE CompactTruncData
      <3>1. op.at = "cData" /\ op'.at = "cHdr" /\ op'.n = op.n
        BY <2>2, <1>u DEF CompactTruncData, Points
      <3>2. Work = 5 + SortsLeft(op.n) /\ Work' = 4 + SortsLeft(op.n)
        BY <3>1, <1>1, <1>2, WritesLeftAt DEF WorkValues
      <3> QED
        BY <3>2, <1>3, <1>s
    <2>3. CASE CompactIndexHeader
      <3>1. op.at = "cHdr" /\ op'.at = "cSlots" /\ hdr' = op.n
        BY <2>3, <1>u DEF CompactIndexHeader, Points
      <3>2. Work = 4 + SortsLeft(op.n) /\ Work' = 3 + SortsLeft(op.n)
        BY <3>1, <1>1, <1>2, WritesLeftAt DEF WorkValues
      <3> QED
        BY <3>2, <1>3, <1>s
    <2>4. CASE CompactSlots
      <3>1. op.at = "cSlots" /\ (op' = Idle \/ op'.at = "cCount") /\ hdr' = hdr
        BY <2>4, <1>u DEF CompactSlots, ExitTorn, Quit, Points
      <3>2. Work = 3 + SortsLeft(hdr) /\ (Work' = 0 \/ Work' = 2 + SortsLeft(hdr))
        BY <3>1, <1>1, <1>2, <1>m, WritesLeftAt DEF WorkValues
      <3> QED
        BY <3>2, <1>3, <1>s
    <2>5. CASE CompactCount
      <3>1. op.at = "cCount" /\ op'.at = "cBody" /\ hdr' = hdr
        BY <2>5, <1>u DEF CompactCount, Points
      <3>2. Work = 2 + SortsLeft(hdr) /\ Work' = 1 + SortsLeft(hdr)
        BY <3>1, <1>1, <1>2, WritesLeftAt DEF WorkValues
      <3> QED
        BY <3>2, <1>3, <1>s
    <2>6. CASE CompactBody
      <3>1. /\ op.at = "cBody"
            /\ op' = Idle \/ (op'.at = "sort" /\ op'.n = hdr /\ op'.i = 1)
        BY <2>6, IdleType DEF CompactBody, Ops
      <3>2. hdr - 1 + 1 = hdr
        BY <1>t
      <3>3. Work = 1 + SortsLeft(hdr) /\ (Work' = 0 \/ Work' = SortsLeft(hdr))
        BY <3>1, <3>2, <1>1, <1>2, <1>m, WritesLeftAt DEF WorkValues
      <3> QED
        BY <3>3, <1>3, <1>s
    <2> QED
      BY <1>8, <2>1, <2>2, <2>3, <2>4, <2>5, <2>6 DEF Compaction, Compact, Sort, CompactRead
  <1>9. CASE Sorting
    <2>1. CASE SortStep
      <3>1. /\ op.at = "sort" /\ op.i <= op.n
            /\ \/ op'.at = "sort" /\ op'.n = op.n /\ op'.i = op.i + 1
               \/ op'.at = "swap" /\ op'.n = op.n /\ op'.i = op.i
        BY <2>1, <1>t DEF SortStep, Ops
      <3>2. SortsLeft(op.n - op.i + 1) = 2 * (op.n - op.i + 1) + 1
        BY <3>1, <1>t, SortsLeftRange
      <3>3. SortsLeft(op.n - op.i) = 2 * (op.n - op.i) + 1
        BY <3>1, <1>t, SortsLeftRange
      <3>4. op.n - (op.i + 1) + 1 = op.n - op.i
        BY <1>t
      <3>5. /\ Work = SortsLeft(op.n - op.i + 1)
            /\ Work' = SortsLeft(op.n - op.i) \/ Work' = 1 + SortsLeft(op.n - op.i)
        BY <3>1, <3>4, <1>1, <1>2 DEF WorkValues
      <3> QED
        BY <3>2, <3>3, <3>5, <1>3, <1>t
    <2>2. CASE SortSwap
      <3>1. op.at = "swap" /\ op'.at = "sort" /\ op'.n = op.n /\ op'.i = op.i + 1
        BY <2>2, <1>t DEF SortSwap, Ops
      <3>2. op.n - (op.i + 1) + 1 = op.n - op.i
        BY <1>t
      <3>3. Work = 1 + SortsLeft(op.n - op.i) /\ Work' = SortsLeft(op.n - op.i)
        BY <3>1, <3>2, <1>1, <1>2 DEF WorkValues
      <3>4. SortsLeft(op.n - op.i) \in Nat
        BY <1>t, SortsLeftRange
      <3> QED
        BY <3>3, <3>4, <1>3
    <2>3. CASE SortEnd \/ SortFails
      <3>1. op.at = "sort" /\ op' = Idle
        BY <2>3 DEF SortEnd, SortFails, ExitTorn, Quit
      <3>2. SortsLeft(op.n - op.i + 1) >= 1
        BY <1>t, SortsLeftRange
      <3>3. Work = SortsLeft(op.n - op.i + 1) /\ Work' = 0
        BY <3>1, <1>1, <1>m DEF WorkValues
      <3> QED
        BY <3>2, <3>3, <1>3
    <2> QED
      BY <1>9, <2>1, <2>2, <2>3 DEF Sorting
  <1>10. ~OpenFails /\ ~Reading
    BY DEF OpenFails, Reading, SearchHangs, ReadFails, PrintStudent
  <1> QED
    BY <1>3, <1>4, <1>5, <1>6, <1>7, <1>8, <1>9, <1>10 DEF Next

(* Each step of an option that has written to a file, or is about to,      *)
(* leaves fewer to be done, in every build and with whatever files a kill  *)
(* left: an option writes no more than the files it rewrites and, for a    *)
(* sort, two slots per place, and no step of sort() repeats itself.  The   *)
(* endless loop of search() writes nothing: it is the point "hang", where  *)
(* no step of an option is left (main).                                    *)
THEOREM WorkEnds == Spec => WorkShrinks
  <1>1. TypeInv /\ TypeInv' /\ [Next]_vars => [Shrinks]_vars
    BY NextWork
  <1> QED
    BY <1>1, InitTypeInv, NextTypeInv, PTL DEF Spec, WorkShrinks

(* That loop, and a compaction() whose buffers are too small, need files   *)
(* that an option left half-way, and no longer threaten once option 0 has  *)
(* been used, in every build, with any kills and any limit on descriptors  *)
(* (search, compaction).                                                   *)
Loops == op.at \in {"hang", "undefined"}

THEOREM LoopsNeedTorn == Spec => [](Loops => torn)
  <1>1. EInv => (Loops => torn)
    BY DEF EInv, Exact, RoomExact, Loops
  <1> QED
    BY <1>1, NextEInv, InitEInv, PTL DEF Spec
=============================================================================
